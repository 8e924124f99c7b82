------------------------ MODULE SilverBindingsProofs ------------------------
(***************************************************************************)
(* The code that the compiler emits for a stack layout does to the stack   *)
(* what it does to the layout: for every layout, every depth and every     *)
(* reordering, whatever lies below, and the stack is never too short.      *)
(*                                                                         *)
(* Items are what may lie on the stack; a number pushed for OP_PICK or     *)
(* OP_ROLL stands for its encoding.                                        *)
(***************************************************************************)
EXTENDS SilverBindings, NatInduction, SequenceTheorems

(* What an opcode asks of the stacks, and what it does to them. *)
Needed == [Drop |-> 1, Nip |-> 2, Dup |-> 1, Over |-> 2, Swap |-> 2, Rot |-> 3, ToAltStack |-> 1]
Width(op) == CASE op = "2Swap" -> 4 [] op = "2Rot" -> 6 [] OTHER -> Needed[op]
Enough(m, i) ==
    CASE i.op = "num" -> TRUE
      [] i.op \in {"Pick", "Roll"} -> m.st # <<>> /\ m.st[1] \in Nat /\ m.st[1] + 2 <= Len(m.st)
      [] i.op = "FromAltStack" -> m.alt # <<>>
      [] OTHER -> Width(i.op) <= Len(m.st)
Effect(m, i) ==
    CASE i.op = "num" -> [m EXCEPT !.st = <<i.n>> \o @]
      [] i.op \in {"Pick", "Roll"} -> [m EXCEPT !.st = Shuffle(i.op, m.st[1], @)]
      [] i.op = "ToAltStack" -> [st |-> Below(m.st, 1), alt |-> <<m.st[1]>> \o m.alt]
      [] i.op = "FromAltStack" -> [st |-> <<m.alt[1]>> \o m.st, alt |-> Below(m.alt, 1)]
      [] OTHER -> [m EXCEPT !.st = Shuffle(i.op, 0, @)]
Machine(st, alt) == [st |-> st, alt |-> alt]

(* The code takes one pair of stacks to another, without ever needing more than there is. *)
Runs(code, from, to) ==
    \E m : /\ m[0] = from /\ m[Len(code)] = to
           /\ \A k \in 1 .. Len(code) : Enough(m[k - 1], code[k]) /\ m[k] = Effect(m[k - 1], code[k])

PlainOpcodes == {"Drop", "Nip", "Dup", "Over", "Swap", "Rot", "2Swap", "2Rot"}
Opcodes == PlainOpcodes \cup {"Pick", "Roll", "ToAltStack", "FromAltStack"}
Instructions == [op : Opcodes \cup {"num"}, n : Nat, data : {<<>>}]

-----------------------------------------------------------------------------
\* No code, one instruction, one code after another.
LEMMA RunsNothing ==
  ASSUME NEW m
  PROVE  Runs(<<>>, m, m)
<1> DEFINE states == [k \in {0} |-> m]
<1>1. states[0] = m /\ states[Len(<<>>)] = m /\ 1 .. Len(<<>>) = {}
  OBVIOUS
<1> HIDE DEF states
<1> QED BY <1>1 DEF Runs

LEMMA RunsOne ==
  ASSUME NEW m, NEW i, Enough(m, i)
  PROVE  Runs(<<i>>, m, Effect(m, i))
<1> DEFINE states == [k \in {0, 1} |-> IF k = 0 THEN m ELSE Effect(m, i)]
<1>1. states[0] = m /\ states[1] = Effect(m, i) /\ Len(<<i>>) = 1 /\ <<i>>[1] = i
  OBVIOUS
<1> HIDE DEF states
<1>2. \A k \in 1 .. 1 : k = 1 /\ k - 1 = 0
  OBVIOUS
<1> QED BY <1>1, <1>2 DEF Runs

LEMMA RunsThen ==
  ASSUME NEW c \in Seq(Instructions), NEW d \in Seq(Instructions), NEW l, NEW m, NEW n,
         Runs(c, l, m), Runs(d, m, n)
  PROVE  Runs(c \o d, l, n)
<1>1. PICK f : /\ f[0] = l /\ f[Len(c)] = m
               /\ \A k \in 1 .. Len(c) : Enough(f[k - 1], c[k]) /\ f[k] = Effect(f[k - 1], c[k])
  BY DEF Runs
<1>2. PICK g : /\ g[0] = m /\ g[Len(d)] = n
               /\ \A k \in 1 .. Len(d) : Enough(g[k - 1], d[k]) /\ g[k] = Effect(g[k - 1], d[k])
  BY DEF Runs
<1>3. /\ Len(c) \in Nat /\ Len(d) \in Nat /\ Len(c \o d) = Len(c) + Len(d)
      /\ \A k \in 1 .. Len(c) + Len(d) : (c \o d)[k] = IF k <= Len(c) THEN c[k] ELSE d[k - Len(c)]
  BY ConcatProperties, LenProperties
<1> DEFINE h == [k \in 0 .. Len(c) + Len(d) |-> IF k <= Len(c) THEN f[k] ELSE g[k - Len(c)]]
<1>4. h[0] = l /\ h[Len(c) + Len(d)] = n
  BY <1>1, <1>2, <1>3
<1>5. ASSUME NEW k \in 1 .. Len(c) + Len(d)
      PROVE  Enough(h[k - 1], (c \o d)[k]) /\ h[k] = Effect(h[k - 1], (c \o d)[k])
  <2>1. CASE k <= Len(c)
    <3>1. h[k] = f[k] /\ h[k - 1] = f[k - 1] /\ (c \o d)[k] = c[k] /\ k \in 1 .. Len(c)
      BY <1>3, <2>1
    <3> QED BY <1>1, <3>1
  <2>2. CASE k > Len(c)
    <3>1. h[k] = g[k - Len(c)] /\ h[k - 1] = g[(k - Len(c)) - 1]
      BY <1>1, <1>2, <1>3, <2>2
    <3>2. (c \o d)[k] = d[k - Len(c)] /\ k - Len(c) \in 1 .. Len(d)
      BY <1>3, <2>2
    <3> QED BY <1>2, <3>1, <3>2
  <2> QED BY <1>3, <2>1, <2>2
<1> HIDE DEF h
<1> QED BY <1>3, <1>4, <1>5 DEF Runs

-----------------------------------------------------------------------------
(* A slot rolled to the top, copied to the top, or dropped.                   *)
Rolled(s, d) == [i \in 1 .. Len(s) |-> IF i = 1 THEN s[d + 1] ELSE IF i <= d + 1 THEN s[i - 1] ELSE s[i]]
Picked(s, d) == [i \in 1 .. Len(s) + 1 |-> IF i = 1 THEN s[d + 1] ELSE s[i - 1]]
OnTop(t, x, s) == t = <<x>> \o s
Dropped(s, d) == [i \in 1 .. Len(s) - 1 |-> IF i <= d THEN s[i] ELSE s[i + 1]]

\* What lies below the k topmost slots.
LEMMA WhatIsBelow ==
  ASSUME NEW Items, NEW s \in Seq(Items), NEW k \in 0 .. Len(s)
  PROVE  /\ Below(s, k) \in Seq(Items) /\ Len(Below(s, k)) = Len(s) - k
         /\ \A i \in 1 .. Len(s) - k : Below(s, k)[i] = s[i + k]
<1>1. Len(s) \in Nat /\ \A i \in 1 .. Len(s) : s[i] \in Items
  BY ElementOfSeq, LenProperties
<1>2. \A i \in k + 1 .. Len(s) : s[i] \in Items
  BY <1>1
<1>3. /\ SubSeq(s, k + 1, Len(s)) \in Seq(Items)
      /\ Len(SubSeq(s, k + 1, Len(s))) = IF k + 1 <= Len(s) THEN Len(s) - (k + 1) + 1 ELSE 0
      /\ \A i \in 1 .. Len(s) - (k + 1) + 1 : SubSeq(s, k + 1, Len(s))[i] = s[k + 1 + i - 1]
  BY <1>1, <1>2, SubSeqProperties
<1> QED BY <1>1, <1>3 DEF Below

\* A pushed item lies on top of the others.
LEMMA WhatIsPushed ==
  ASSUME NEW Items, NEW s \in Seq(Items), NEW x \in Items
  PROVE  /\ <<x>> \o s \in Seq(Items) /\ Len(<<x>> \o s) = Len(s) + 1 /\ (<<x>> \o s)[1] = x
         /\ \A i \in 1 .. Len(s) : (<<x>> \o s)[i + 1] = s[i]
         /\ Below(<<x>> \o s, 1) = s
<1>1. <<x>> \in Seq(Items) /\ Len(<<x>>) = 1 /\ <<x>>[1] = x
  OBVIOUS
<1>2. Len(s) \in Nat
  BY LenProperties
<1>3. /\ <<x>> \o s \in Seq(Items) /\ Len(<<x>> \o s) = 1 + Len(s)
      /\ \A i \in 1 .. 1 + Len(s) : (<<x>> \o s)[i] = IF i <= 1 THEN <<x>>[i] ELSE s[i - 1]
  BY <1>1, ConcatProperties
<1>4. (<<x>> \o s)[1] = x /\ \A i \in 1 .. Len(s) : (<<x>> \o s)[i + 1] = s[i]
  BY <1>1, <1>2, <1>3
<1> DEFINE t == <<x>> \o s
<1>5. Below(t, 1) = s
  <2>1. t \in Seq(Items) /\ Len(t) = Len(s) + 1 /\ \A i \in 1 .. Len(s) : t[i + 1] = s[i]
    BY <1>2, <1>3, <1>4
  <2> HIDE DEF t
  <2>2. /\ Below(t, 1) \in Seq(Items) /\ Len(Below(t, 1)) = Len(t) - 1
        /\ \A i \in 1 .. Len(t) - 1 : Below(t, 1)[i] = t[i + 1]
    <3>1. 1 \in 0 .. Len(t)
      BY <1>2, <2>1
    <3> QED BY <2>1, <3>1, WhatIsBelow
  <2> QED BY <1>2, <2>1, <2>2, SeqEqual
<1> QED BY <1>2, <1>3, <1>4, <1>5

\* Rolling, copying and dropping a slot of a stack give a stack.
LEMMA StacksStay ==
  ASSUME NEW Items, NEW s \in Seq(Items), NEW d \in 0 .. Len(s) - 1
  PROVE  /\ Rolled(s, d) \in Seq(Items) /\ Len(Rolled(s, d)) = Len(s)
         /\ Picked(s, d) \in Seq(Items) /\ Len(Picked(s, d)) = Len(s) + 1
         /\ Dropped(s, d) \in Seq(Items) /\ Len(Dropped(s, d)) = Len(s) - 1
<1>1. Len(s) \in Nat /\ \A i \in 1 .. Len(s) : s[i] \in Items
  BY ElementOfSeq, LenProperties
<1>2. Rolled(s, d) \in [1 .. Len(s) -> Items]
  BY <1>1 DEF Rolled
<1>3. Picked(s, d) \in [1 .. Len(s) + 1 -> Items]
  BY <1>1 DEF Picked
<1>4. Dropped(s, d) \in [1 .. Len(s) - 1 -> Items] /\ Len(s) - 1 \in Nat
  BY <1>1 DEF Dropped
<1> HIDE DEF Rolled, Picked, Dropped
<1>5. ASSUME NEW n \in Nat, NEW f \in [1 .. n -> Items] PROVE f \in Seq(Items) /\ Len(f) = n
  OBVIOUS
<1>6. Rolled(s, d) \in Seq(Items) /\ Len(Rolled(s, d)) = Len(s)
  BY <1>1, <1>2, <1>5
<1>7. Picked(s, d) \in Seq(Items) /\ Len(Picked(s, d)) = Len(s) + 1
  <2>1. Len(s) + 1 \in Nat
    BY <1>1
  <2> QED BY <1>3, <1>5, <2>1
<1>8. Dropped(s, d) \in Seq(Items) /\ Len(Dropped(s, d)) = Len(s) - 1
  BY <1>4, <1>5
<1> QED BY <1>6, <1>7, <1>8

\* The engine's opcodes roll a slot to the top.
LEMMA ShuffleRolls ==
  ASSUME NEW Items, NEW s \in Seq(Items)
  PROVE  /\ Len(s) >= 2 => Shuffle("Swap", 0, s) = Rolled(s, 1)
         /\ Len(s) >= 3 => Shuffle("Rot", 0, s) = Rolled(s, 2)
         /\ \A x \in Items, n \in Nat :
               n + 1 <= Len(s) => Shuffle("Roll", n, <<x>> \o s) = Rolled(s, n)
<1>1. ASSUME Len(s) >= 2 PROVE Shuffle("Swap", 0, s) = Rolled(s, 1)
  BY <1>1 DEF Shuffle, Below, Rolled
<1>2. ASSUME Len(s) >= 3 PROVE Shuffle("Rot", 0, s) = Rolled(s, 2)
  BY <1>2 DEF Shuffle, Below, Rolled
<1>3. ASSUME NEW x \in Items, NEW n \in Nat, n + 1 <= Len(s)
      PROVE  Shuffle("Roll", n, <<x>> \o s) = Rolled(s, n)
  <2> DEFINE t == <<x>> \o s
             top == <<t[n + 2]>>
             middle == SubSeq(t, 2, n + 1)
             rest == Below(t, n + 2)
  <2>1. /\ Len(s) \in Nat /\ t \in Seq(Items) /\ Len(t) = Len(s) + 1
        /\ \A i \in 1 .. Len(s) : t[i + 1] = s[i] /\ t[i + 1] \in Items
    BY WhatIsPushed, LenProperties, ElementOfSeq
  <2> HIDE DEF t
  <2>2. t[n + 2] = s[n + 1] /\ t[n + 2] \in Items
    <3>1. n + 1 \in 1 .. Len(s) /\ (n + 1) + 1 = n + 2
      BY <1>3
    <3> QED BY <2>1, <3>1
  <2>3. /\ middle \in Seq(Items) /\ Len(middle) = n
        /\ \A i \in 1 .. n : middle[i] = s[i]
    <3>1. \A i \in 2 .. n + 1 : t[i] \in Items
      <4> SUFFICES ASSUME NEW i \in 2 .. n + 1 PROVE t[i] \in Items
        OBVIOUS
      <4>1. i - 1 \in 1 .. Len(s) /\ (i - 1) + 1 = i
        BY <1>3, <2>1
      <4> QED BY <2>1, <4>1
    <3>2. /\ middle \in Seq(Items) /\ Len(middle) = IF 2 <= n + 1 THEN (n + 1) - 2 + 1 ELSE 0
          /\ \A i \in 1 .. (n + 1) - 2 + 1 : middle[i] = t[2 + i - 1]
      BY <3>1, SubSeqProperties
    <3> HIDE DEF middle
    <3>3. \A i \in 1 .. n : i \in 1 .. (n + 1) - 2 + 1 /\ 2 + i - 1 = i + 1 /\ i \in 1 .. Len(s)
      BY <1>3, <2>1
    <3> QED BY <2>1, <3>2, <3>3
  <2>4. /\ rest \in Seq(Items) /\ Len(rest) = Len(s) - (n + 1)
        /\ \A i \in 1 .. Len(s) - (n + 1) : rest[i] = s[i + (n + 1)]
    <3>1. n + 2 \in 0 .. Len(t)
      BY <1>3, <2>1
    <3>2. /\ rest \in Seq(Items) /\ Len(rest) = Len(t) - (n + 2)
          /\ \A i \in 1 .. Len(t) - (n + 2) : rest[i] = t[i + (n + 2)]
      BY <2>1, <3>1, WhatIsBelow
    <3> HIDE DEF rest
    <3>3. \A i \in 1 .. Len(s) - (n + 1) : /\ i \in 1 .. Len(t) - (n + 2) /\ i + (n + 1) \in 1 .. Len(s)
                                           /\ i + (n + 2) = (i + (n + 1)) + 1
      BY <1>3, <2>1
    <3>4. \A i \in 1 .. Len(s) - (n + 1) : rest[i] = s[i + (n + 1)]
      BY <2>1, <3>2, <3>3
    <3>5. Len(rest) = Len(s) - (n + 1)
      BY <2>1, <3>2
    <3> QED BY <3>2, <3>4, <3>5
  <2>5. Shuffle("Roll", n, t) = (top \o middle) \o rest
    BY DEF Shuffle
  <2>6. top \in Seq(Items) /\ Len(top) = 1 /\ top[1] = s[n + 1]
    BY <2>2
  <2> HIDE DEF top, middle, rest
  <2>7. /\ top \o middle \in Seq(Items) /\ Len(top \o middle) = 1 + n
        /\ \A i \in 1 .. 1 + n : (top \o middle)[i] = IF i <= 1 THEN top[i] ELSE middle[i - 1]
    <3>0. top \in Seq(Items) /\ middle \in Seq(Items)
      BY <2>3, <2>6
    <3>1. /\ top \o middle \in Seq(Items) /\ Len(top \o middle) = Len(top) + Len(middle)
          /\ \A i \in 1 .. Len(top) + Len(middle) :
                (top \o middle)[i] = IF i <= Len(top) THEN top[i] ELSE middle[i - Len(top)]
      BY <3>0, ConcatProperties
    <3> QED BY <2>3, <2>6, <3>1
  <2> DEFINE both == top \o middle
             all == both \o rest
  <2> HIDE DEF both
  <2>8. /\ all \in Seq(Items) /\ Len(all) = (1 + n) + (Len(s) - (n + 1))
        /\ \A i \in 1 .. (1 + n) + (Len(s) - (n + 1)) : all[i] = IF i <= 1 + n THEN both[i] ELSE rest[i - (1 + n)]
    <3>1. both \in Seq(Items) /\ Len(both) = 1 + n
      BY <2>7 DEF both
    <3>2. /\ all \in Seq(Items) /\ Len(all) = Len(both) + Len(rest)
          /\ \A i \in 1 .. Len(both) + Len(rest) : all[i] = IF i <= Len(both) THEN both[i] ELSE rest[i - Len(both)]
      BY <2>4, <3>1, ConcatProperties
    <3> HIDE DEF all
    <3> QED BY <2>4, <3>1, <3>2
  <2> HIDE DEF all
  <2>9. Rolled(s, n) \in Seq(Items) /\ Len(Rolled(s, n)) = Len(s)
    <3>1. n \in 0 .. Len(s) - 1
      BY <1>3, <2>1
    <3> QED BY <3>1, StacksStay
  <2>10. ASSUME NEW i \in 1 .. Len(s) PROVE all[i] = Rolled(s, n)[i]
    <3>1. Rolled(s, n)[i] = IF i = 1 THEN s[n + 1] ELSE IF i <= n + 1 THEN s[i - 1] ELSE s[i]
      BY DEF Rolled
    <3>2. all[i] = IF i <= 1 + n THEN both[i] ELSE rest[i - (1 + n)]
      BY <1>3, <2>1, <2>8
    <3>3. CASE i = 1
      <4>1. 1 <= 1 + n
        OBVIOUS
      <4> QED BY <2>6, <2>7, <3>1, <3>2, <3>3, <4>1 DEF both
    <3>4. CASE i # 1 /\ i <= n + 1
      <4>1. i - 1 \in 1 .. n /\ i \in 1 .. 1 + n /\ ~ (i <= 1)
        BY <3>4
      <4>2. both[i] = middle[i - 1]
        BY <2>7, <4>1 DEF both
      <4> QED BY <2>3, <3>1, <3>2, <3>4, <4>1, <4>2
    <3>5. CASE i > n + 1
      <4>1. i - (1 + n) \in 1 .. Len(s) - (n + 1) /\ (i - (1 + n)) + (n + 1) = i /\ ~ (i <= 1 + n) /\ i # 1
        BY <2>1, <3>5
      <4> QED BY <2>4, <3>1, <3>2, <4>1
    <3> QED BY <3>3, <3>4, <3>5
  <2>11. all = Rolled(s, n)
    <3>1. Len(all) = Len(s)
      BY <2>1, <2>8
    <3> QED BY <2>8, <2>9, <2>10, <3>1, SeqEqual
  <2> QED BY <2>5, <2>11 DEF all, both, t
<1> QED BY <1>1, <1>2, <1>3

\* The engine's opcodes copy a slot to the top.
LEMMA ShufflePicks ==
  ASSUME NEW Items, NEW s \in Seq(Items)
  PROVE  /\ Len(s) >= 1 => Shuffle("Dup", 0, s) = Picked(s, 0)
         /\ Len(s) >= 2 => Shuffle("Over", 0, s) = Picked(s, 1)
         /\ \A x \in Items, n \in Nat :
               n + 1 <= Len(s) => Shuffle("Pick", n, <<x>> \o s) = Picked(s, n)
<1>1. ASSUME Len(s) >= 1 PROVE Shuffle("Dup", 0, s) = Picked(s, 0)
  BY <1>1 DEF Shuffle, Below, Picked
<1>2. ASSUME Len(s) >= 2 PROVE Shuffle("Over", 0, s) = Picked(s, 1)
  BY <1>2 DEF Shuffle, Below, Picked
<1>3. ASSUME NEW x \in Items, NEW n \in Nat, n + 1 <= Len(s)
      PROVE  Shuffle("Pick", n, <<x>> \o s) = Picked(s, n)
  <2> DEFINE t == <<x>> \o s
  <2>1. Len(s) \in Nat /\ Below(t, 1) = s /\ \A i \in 1 .. Len(s) : t[i + 1] = s[i] /\ s[i] \in Items
    BY WhatIsPushed, LenProperties, ElementOfSeq
  <2> HIDE DEF t
  <2>2. t[n + 2] = s[n + 1] /\ s[n + 1] \in Items
    <3>1. n + 1 \in 1 .. Len(s) /\ (n + 1) + 1 = n + 2
      BY <1>3
    <3> QED BY <2>1, <3>1
  <2> DEFINE y == s[n + 1]
             all == <<y>> \o s
  <2>3. Shuffle("Pick", n, t) = all
    BY <2>1, <2>2 DEF Shuffle
  <2>4. Picked(s, n) \in Seq(Items) /\ Len(Picked(s, n)) = Len(s) + 1
    <3>1. n \in 0 .. Len(s) - 1
      BY <1>3, <2>1
    <3> QED BY <3>1, StacksStay
  <2>5. y \in Items
    BY <2>2
  <2>6. Picked(s, n) = [i \in 1 .. Len(s) + 1 |-> IF i = 1 THEN y ELSE s[i - 1]]
    BY DEF Picked
  <2> HIDE DEF y
  <2>7. /\ all \in Seq(Items) /\ Len(all) = Len(s) + 1 /\ all[1] = y
        /\ \A i \in 1 .. Len(s) : all[i + 1] = s[i]
    BY <2>5, WhatIsPushed
  <2> HIDE DEF all
  <2>8. ASSUME NEW i \in 1 .. Len(s) + 1 PROVE all[i] = Picked(s, n)[i]
    <3>1. CASE i = 1
      BY <2>6, <2>7, <3>1
    <3>2. CASE i # 1
      <4>1. i - 1 \in 1 .. Len(s) /\ (i - 1) + 1 = i
        BY <2>1, <3>2
      <4> QED BY <2>6, <2>7, <3>2, <4>1
    <3> QED BY <3>1, <3>2
  <2> QED BY <2>1, <2>3, <2>4, <2>7, <2>8, SeqEqual DEF t
<1> QED BY <1>1, <1>2, <1>3

\* The engine's opcodes drop a slot.
LEMMA ShuffleDrops ==
  ASSUME NEW Items, NEW s \in Seq(Items)
  PROVE  /\ Len(s) >= 1 => Shuffle("Drop", 0, s) = Dropped(s, 0)
         /\ Len(s) >= 2 => Shuffle("Nip", 0, s) = Dropped(s, 1)
         /\ \A d \in 0 .. Len(s) - 1 : Shuffle("Drop", 0, Rolled(s, d)) = Dropped(s, d)
<1>1. ASSUME NEW t \in Seq(Items), Len(t) >= 1 PROVE Shuffle("Drop", 0, t) = Dropped(t, 0)
  BY <1>1 DEF Shuffle, Below, Dropped
<1>2. ASSUME Len(s) >= 2 PROVE Shuffle("Nip", 0, s) = Dropped(s, 1)
  <2> DEFINE y == s[1]
             rest == Below(s, 2)
             all == <<y>> \o rest
  <2>1. Len(s) \in Nat /\ y \in Items /\ 1 \in 0 .. Len(s) - 1 /\ 2 \in 0 .. Len(s)
    BY <1>2, LenProperties, ElementOfSeq
  <2>2. rest \in Seq(Items) /\ Len(rest) = Len(s) - 2 /\ \A i \in 1 .. Len(s) - 2 : rest[i] = s[i + 2]
    BY <2>1, WhatIsBelow
  <2>3. Shuffle("Nip", 0, s) = all
    BY DEF Shuffle
  <2>4. Dropped(s, 1) \in Seq(Items) /\ Len(Dropped(s, 1)) = Len(s) - 1
    BY <2>1, StacksStay
  <2>5. Dropped(s, 1) = [i \in 1 .. Len(s) - 1 |-> IF i <= 1 THEN s[i] ELSE s[i + 1]]
    BY DEF Dropped
  <2>6. s[1] = y
    OBVIOUS
  <2> HIDE DEF y, rest
  <2>7. all \in Seq(Items) /\ Len(all) = (Len(s) - 2) + 1 /\ all[1] = y /\ \A i \in 1 .. Len(s) - 2 : all[i + 1] = rest[i]
    <3>1. /\ all \in Seq(Items) /\ Len(all) = Len(rest) + 1 /\ all[1] = y
          /\ \A i \in 1 .. Len(rest) : all[i + 1] = rest[i]
      BY <2>1, <2>2, WhatIsPushed
    <3> QED BY <2>2, <3>1
  <2> HIDE DEF all
  <2>8. ASSUME NEW i \in 1 .. Len(s) - 1 PROVE all[i] = Dropped(s, 1)[i]
    <3>1. CASE i = 1
      <4>1. 1 <= 1
        OBVIOUS
      <4>2. Dropped(s, 1)[i] = s[i]
        BY <2>5, <3>1, <4>1
      <4> QED BY <2>6, <2>7, <3>1, <4>2
    <3>2. CASE i # 1
      <4>1. i - 1 \in 1 .. Len(s) - 2 /\ (i - 1) + 1 = i /\ (i - 1) + 2 = i + 1 /\ ~ (i <= 1)
        BY <2>1, <3>2
      <4>2. Dropped(s, 1)[i] = s[i + 1]
        BY <2>5, <4>1
      <4>3. all[(i - 1) + 1] = rest[i - 1] /\ rest[i - 1] = s[(i - 1) + 2]
        BY <2>2, <2>7, <4>1
      <4> QED BY <4>1, <4>2, <4>3
    <3> QED BY <3>1, <3>2
  <2>9. Len(all) = Len(Dropped(s, 1)) /\ Len(all) = Len(s) - 1
    BY <2>1, <2>4, <2>7
  <2> QED BY <2>3, <2>4, <2>7, <2>8, <2>9, SeqEqual
<1>3. ASSUME NEW d \in 0 .. Len(s) - 1 PROVE Shuffle("Drop", 0, Rolled(s, d)) = Dropped(s, d)
  <2> DEFINE t == Rolled(s, d)
  <2>1. Len(s) \in Nat /\ t \in Seq(Items) /\ Len(t) = Len(s)
    BY StacksStay, LenProperties
  <2>2. Shuffle("Drop", 0, t) = Dropped(t, 0)
    <3> HIDE DEF t
    <3> QED BY <1>1, <2>1
  <2>3. Dropped(t, 0) = [i \in 1 .. Len(s) - 1 |-> t[i + 1]]
    <3> HIDE DEF t
    <3>1. \A i \in 1 .. Len(s) - 1 : ~ (i <= 0)
      BY <2>1
    <3> QED BY <2>1, <3>1 DEF Dropped
  <2>4. \A i \in 1 .. Len(s) - 1 : t[i + 1] = IF i <= d THEN s[i] ELSE s[i + 1]
    BY <2>1 DEF Rolled
  <2> HIDE DEF t
  <2> QED BY <2>2, <2>3, <2>4 DEF Dropped, t
<1>4. Len(s) >= 1 => Shuffle("Drop", 0, s) = Dropped(s, 0)
  BY <1>1
<1> QED BY <1>2, <1>3, <1>4

-----------------------------------------------------------------------------
\* One opcode, a pushed number and an opcode that reads one, as code and on the machine.
LEMMA OpcodesAreCode ==
  ASSUME NEW op \in Opcodes
  PROVE  /\ Ops(<<op>>) = <<Op(op)>> /\ Ops(<<op>>) \in Seq(Instructions)
         /\ Op(op) \in Instructions /\ Op(op).op = op
<1>1. Op(op).op = op /\ Op(op) \in Instructions
  BY DEF Op, Instructions
<1> DEFINE i == Op(op)
<1>2. Ops(<<op>>) = <<i>>
  BY DEF Ops
<1>3. i \in Instructions
  BY <1>1
<1> HIDE DEF i
<1>4. <<i>> \in Seq(Instructions)
  BY <1>3
<1> QED BY <1>1, <1>2, <1>4 DEF i

LEMMA TwoOpcodes ==
  ASSUME NEW op \in Opcodes, NEW then \in Opcodes
  PROVE  Ops(<<op, then>>) = Ops(<<op>>) \o Ops(<<then>>)
<1> DEFINE i == Op(op)
           j == Op(then)
           a == <<i>>
           b == <<j>>
<1>1. Ops(<<op, then>>) = <<i, j>> /\ Ops(<<op>>) = a /\ Ops(<<then>>) = b
  BY DEF Ops
<1>2. a \in Seq(Instructions) /\ b \in Seq(Instructions)
  <2>1. i \in Instructions /\ j \in Instructions
    BY OpcodesAreCode
  <2> HIDE DEF i, j
  <2> QED BY <2>1
<1>3. Len(a) = 1 /\ Len(b) = 1 /\ a[1] = i /\ b[1] = j
  OBVIOUS
<1> HIDE DEF a, b
<1>4. Len(a \o b) = Len(a) + Len(b) /\ a \o b \in Seq(Instructions)
      /\ \A k \in 1 .. Len(a) + Len(b) : (a \o b)[k] = IF k <= Len(a) THEN a[k] ELSE b[k - Len(a)]
  BY <1>2, ConcatProperties
<1> DEFINE ab == a \o b
<1> HIDE DEF ab
<1>5. Len(ab) = 2 /\ ab \in Seq(Instructions) /\ ab[1] = i /\ ab[2] = j
  BY <1>3, <1>4 DEF ab
<1> HIDE DEF i, j
<1>6. ab = <<i, j>>
  BY <1>5
<1> QED BY <1>1, <1>6 DEF ab

LEMMA OneOpcode ==
  ASSUME NEW op \in PlainOpcodes, NEW st, NEW alt, Width(op) <= Len(st)
  PROVE  /\ Ops(<<op>>) \in Seq(Instructions)
         /\ Runs(Ops(<<op>>), Machine(st, alt), Machine(Shuffle(op, 0, st), alt))
<1>0. op \in Opcodes /\ op # "num" /\ op \notin {"Pick", "Roll"} /\ op # "ToAltStack" /\ op # "FromAltStack"
  BY DEF PlainOpcodes, Opcodes
<1>1. Op(op).op = op
  BY <1>0, OpcodesAreCode
<1>2. Enough(Machine(st, alt), Op(op))
  BY <1>0, <1>1 DEF Enough, Machine
<1>3. Effect(Machine(st, alt), Op(op)) = Machine(Shuffle(op, 0, st), alt)
  BY <1>0, <1>1 DEF Effect, Machine
<1> QED BY <1>0, <1>2, <1>3, RunsOne, OpcodesAreCode

LEMMA OnePush ==
  ASSUME NEW n \in Nat, NEW st, NEW alt
  PROVE  /\ PushNum(n) \in Seq(Instructions)
         /\ Runs(PushNum(n), Machine(st, alt), Machine(<<n>> \o st, alt))
<1> DEFINE i == [op |-> "num", n |-> n, data |-> <<>>]
<1>1. i.op = "num" /\ i.n = n /\ i \in Instructions
  BY DEF Instructions
<1>2. Enough(Machine(st, alt), i) /\ Effect(Machine(st, alt), i) = Machine(<<n>> \o st, alt)
  BY <1>1 DEF Enough, Effect, Machine
<1>3. PushNum(n) = <<i>>
  BY DEF PushNum
<1> HIDE DEF i
<1>4. <<i>> \in Seq(Instructions)
  BY <1>1
<1> QED BY <1>2, <1>3, <1>4, RunsOne

LEMMA OneDeepOpcode ==
  ASSUME NEW Items, Nat \subseteq Items, NEW st \in Seq(Items), NEW alt, NEW n \in Nat, n + 1 <= Len(st),
         NEW op \in {"Pick", "Roll"}
  PROVE  Runs(<<Op(op)>>, Machine(<<n>> \o st, alt), Machine(Shuffle(op, n, <<n>> \o st), alt))
<1> DEFINE t == <<n>> \o st
<1>1. t # <<>> /\ t[1] = n /\ n + 2 <= Len(t)
  <2>1. n \in Items /\ Len(st) \in Nat
    BY LenProperties
  <2>2. t \in Seq(Items) /\ Len(t) = Len(st) + 1 /\ t[1] = n
    BY <2>1, WhatIsPushed
  <2> HIDE DEF t
  <2>3. n + 2 <= Len(t) /\ Len(t) # 0
    BY <2>1, <2>2
  <2>4. t # <<>>
    BY <2>3, EmptySeq
  <2> QED BY <2>2, <2>3, <2>4
<1> HIDE DEF t
<1>2. Op(op).op = op
  BY DEF Op
<1>3. Enough(Machine(t, alt), Op(op))
  BY <1>1, <1>2 DEF Enough, Machine
<1>4. Effect(Machine(t, alt), Op(op)) = Machine(Shuffle(op, n, t), alt)
  BY <1>1, <1>2 DEF Effect, Machine
<1> QED BY <1>3, <1>4, RunsOne DEF t

-----------------------------------------------------------------------------
\* roll_from_depth: the slot at the depth is on top afterwards, the others keep their order.
LEMMA RollRuns ==
  ASSUME NEW Items, Nat \subseteq Items, NEW st \in Seq(Items), NEW alt, NEW d \in 0 .. Len(st) - 1
  PROVE  /\ RollFromDepth(d) \in Seq(Instructions)
         /\ Runs(RollFromDepth(d), Machine(st, alt), Machine(Rolled(st, d), alt))
<1>1. Len(st) \in Nat /\ d \in Nat
  BY LenProperties
<1>2. CASE d = 0
  <2>1. \A i \in 1 .. Len(st) : Rolled(st, d)[i] = st[i]
    BY <1>1, <1>2 DEF Rolled
  <2>2. Rolled(st, d) = st
    BY <2>1, StacksStay, SeqEqual
  <2>3. RollFromDepth(d) = <<>>
    BY <1>2 DEF RollFromDepth
  <2> QED BY <2>2, <2>3, RunsNothing, EmptySeq
<1>3. CASE d = 1
  <2>1. RollFromDepth(d) = Ops(<<"Swap">>)
    BY <1>3 DEF RollFromDepth
  <2>2. Width("Swap") <= Len(st) /\ Shuffle("Swap", 0, st) = Rolled(st, d)
    BY <1>1, <1>3, ShuffleRolls DEF Width, Needed
  <2> QED BY <2>1, <2>2, OneOpcode DEF PlainOpcodes
<1>4. CASE d = 2
  <2>1. RollFromDepth(d) = Ops(<<"Rot">>)
    BY <1>4 DEF RollFromDepth
  <2>2. Width("Rot") <= Len(st) /\ Shuffle("Rot", 0, st) = Rolled(st, d)
    BY <1>1, <1>4, ShuffleRolls DEF Width, Needed
  <2> QED BY <2>1, <2>2, OneOpcode DEF PlainOpcodes
<1>5. CASE d > 2
  <2>1. RollFromDepth(d) = PushNum(d) \o Ops(<<"Roll">>)
    BY <1>5 DEF RollFromDepth
  <2>2. Ops(<<"Roll">>) = <<Op("Roll")>> /\ <<Op("Roll")>> \in Seq(Instructions)
    BY OpcodesAreCode DEF Opcodes, PlainOpcodes
  <2>3. d + 1 <= Len(st) /\ d \in Items
    BY <1>1
  <2>4. Shuffle("Roll", d, <<d>> \o st) = Rolled(st, d)
    BY <1>1, <2>3, ShuffleRolls
  <2>5. Runs(<<Op("Roll")>>, Machine(<<d>> \o st, alt), Machine(Rolled(st, d), alt))
    BY <1>1, <2>3, <2>4, OneDeepOpcode
  <2>6. PushNum(d) \in Seq(Instructions) /\ Runs(PushNum(d), Machine(st, alt), Machine(<<d>> \o st, alt))
    BY <1>1, OnePush
  <2>7. Runs(PushNum(d) \o <<Op("Roll")>>, Machine(st, alt), Machine(Rolled(st, d), alt))
    BY <2>2, <2>5, <2>6, RunsThen
  <2> QED BY <2>1, <2>2, <2>6, <2>7, ConcatProperties
<1> QED BY <1>1, <1>2, <1>3, <1>4, <1>5

\* pick_from_depth: a copy of the slot at the depth is on top afterwards.
LEMMA PickRuns ==
  ASSUME NEW Items, Nat \subseteq Items, NEW st \in Seq(Items), NEW alt, NEW d \in 0 .. Len(st) - 1
  PROVE  /\ PickFromDepth(d) \in Seq(Instructions)
         /\ Runs(PickFromDepth(d), Machine(st, alt), Machine(Picked(st, d), alt))
<1>1. Len(st) \in Nat /\ d \in Nat
  BY LenProperties
<1>2. CASE d = 0
  <2>1. PickFromDepth(d) = Ops(<<"Dup">>)
    BY <1>2 DEF PickFromDepth
  <2>2. Width("Dup") <= Len(st) /\ Shuffle("Dup", 0, st) = Picked(st, d)
    BY <1>1, <1>2, ShufflePicks DEF Width, Needed
  <2> QED BY <2>1, <2>2, OneOpcode DEF PlainOpcodes
<1>3. CASE d = 1
  <2>1. PickFromDepth(d) = Ops(<<"Over">>)
    BY <1>3 DEF PickFromDepth
  <2>2. Width("Over") <= Len(st) /\ Shuffle("Over", 0, st) = Picked(st, d)
    BY <1>1, <1>3, ShufflePicks DEF Width, Needed
  <2> QED BY <2>1, <2>2, OneOpcode DEF PlainOpcodes
<1>4. CASE d > 1
  <2>1. PickFromDepth(d) = PushNum(d) \o Ops(<<"Pick">>)
    BY <1>4 DEF PickFromDepth
  <2>2. Ops(<<"Pick">>) = <<Op("Pick")>> /\ <<Op("Pick")>> \in Seq(Instructions)
    BY OpcodesAreCode DEF Opcodes, PlainOpcodes
  <2>3. d + 1 <= Len(st) /\ d \in Items
    BY <1>1
  <2>4. Shuffle("Pick", d, <<d>> \o st) = Picked(st, d)
    BY <1>1, <2>3, ShufflePicks
  <2>5. Runs(<<Op("Pick")>>, Machine(<<d>> \o st, alt), Machine(Picked(st, d), alt))
    BY <1>1, <2>3, <2>4, OneDeepOpcode
  <2>6. PushNum(d) \in Seq(Instructions) /\ Runs(PushNum(d), Machine(st, alt), Machine(<<d>> \o st, alt))
    BY <1>1, OnePush
  <2>7. Runs(PushNum(d) \o <<Op("Pick")>>, Machine(st, alt), Machine(Picked(st, d), alt))
    BY <2>2, <2>5, <2>6, RunsThen
  <2> QED BY <2>1, <2>2, <2>6, <2>7, ConcatProperties
<1> QED BY <1>1, <1>2, <1>3, <1>4

\* drop_from_depth: the slot at the depth is gone afterwards, the others keep their order.
LEMMA DropRuns ==
  ASSUME NEW Items, Nat \subseteq Items, NEW st \in Seq(Items), NEW alt, NEW d \in 0 .. Len(st) - 1
  PROVE  /\ DropFromDepth(d) \in Seq(Instructions)
         /\ Runs(DropFromDepth(d), Machine(st, alt), Machine(Dropped(st, d), alt))
<1>1. Len(st) \in Nat /\ d \in Nat /\ Rolled(st, d) \in Seq(Items) /\ Len(Rolled(st, d)) = Len(st) /\ Len(st) >= 1
  BY LenProperties, StacksStay
<1>2. CASE d = 0
  <2>1. DropFromDepth(d) = Ops(<<"Drop">>)
    BY <1>2 DEF DropFromDepth
  <2>2. Width("Drop") <= Len(st) /\ Shuffle("Drop", 0, st) = Dropped(st, d)
    BY <1>1, <1>2, ShuffleDrops DEF Width, Needed
  <2> QED BY <2>1, <2>2, OneOpcode DEF PlainOpcodes
<1>3. CASE d = 1
  <2>1. DropFromDepth(d) = Ops(<<"Nip">>)
    BY <1>3 DEF DropFromDepth
  <2>2. Width("Nip") <= Len(st) /\ Shuffle("Nip", 0, st) = Dropped(st, d)
    BY <1>1, <1>3, ShuffleDrops DEF Width, Needed
  <2> QED BY <2>1, <2>2, OneOpcode DEF PlainOpcodes
<1>4. CASE d > 1
  <2> DEFINE roll == RollFromDepth(d)
             drop == Ops(<<"Drop">>)
  <2>1. drop \in Seq(Instructions) /\ Runs(drop, Machine(Rolled(st, d), alt), Machine(Dropped(st, d), alt))
    <3>1. Width("Drop") <= Len(Rolled(st, d)) /\ Shuffle("Drop", 0, Rolled(st, d)) = Dropped(st, d)
      BY <1>1, ShuffleDrops DEF Width, Needed
    <3> QED BY <3>1, OneOpcode DEF PlainOpcodes
  <2>2. roll \in Seq(Instructions) /\ Runs(roll, Machine(st, alt), Machine(Rolled(st, d), alt))
    BY RollRuns
  <2>3. DropFromDepth(d) = roll \o drop
    <3>1. CASE d = 2
      <4>1. roll = Ops(<<"Rot">>)
        BY <3>1 DEF RollFromDepth
      <4>2. DropFromDepth(d) = Ops(<<"Rot", "Drop">>)
        BY <3>1 DEF DropFromDepth
      <4> QED BY <4>1, <4>2, TwoOpcodes DEF Opcodes, PlainOpcodes
    <3>2. CASE d # 2
      <4> DEFINE a == Ops(<<"Roll">>)
                 p == PushNum(d)
      <4>1. roll = p \o a
        BY <1>4, <3>2 DEF RollFromDepth
      <4>2. DropFromDepth(d) = p \o Ops(<<"Roll", "Drop">>)
        BY <1>4, <3>2 DEF DropFromDepth
      <4>3. Ops(<<"Roll", "Drop">>) = a \o drop
        BY TwoOpcodes DEF Opcodes, PlainOpcodes
      <4>4. p \in Seq(Instructions) /\ a \in Seq(Instructions) /\ drop \in Seq(Instructions)
        <5>1. p \in Seq(Instructions)
          BY <1>1, OnePush
        <5>2. a \in Seq(Instructions) /\ drop \in Seq(Instructions)
          BY OpcodesAreCode DEF Opcodes, PlainOpcodes
        <5> QED BY <5>1, <5>2
      <4> HIDE DEF a, p, drop
      <4>5. (p \o a) \o drop = p \o (a \o drop)
        BY <4>4, ConcatAssociative
      <4> QED BY <4>1, <4>2, <4>3, <4>5
    <3> QED BY <3>1, <3>2
  <2> HIDE DEF roll, drop
  <2>4. Runs(roll \o drop, Machine(st, alt), Machine(Dropped(st, d), alt)) /\ roll \o drop \in Seq(Instructions)
    BY <2>1, <2>2, RunsThen, ConcatProperties
  <2> QED BY <2>3, <2>4
<1> QED BY <1>1, <1>2, <1>3, <1>4

-----------------------------------------------------------------------------
(* Layouts name each slot once; Stacked is the stack that holds the values v  *)
(* of the names of a layout, with the items below under them.                 *)
Layouts(N) == {L \in Seq(N) : \A i, j \in 1 .. Len(L) : L[i] = L[j] => i = j}
Values(N, Items) == [N -> Items]
Stacked(L, v, below) ==
    [i \in 1 .. Len(L) + Len(below) |-> IF i <= Len(L) THEN v[L[i]] ELSE below[i - Len(L)]]
(* W names some of the slots of L, in the order of L. *)
InOrder(W, L) == \A i, j \in 1 .. Len(W) : i < j => IndexOf(L, W[i]) < IndexOf(L, W[j])

\* In a layout a name has one index.
LEMMA IndexOfName ==
  ASSUME NEW N, NEW L \in Layouts(N)
  PROVE  /\ L \in Seq(N) /\ Len(L) \in Nat /\ DOMAIN L = 1 .. Len(L)
         /\ \A i \in 1 .. Len(L) : L[i] \in N /\ L[i] \in Names(L) /\ IndexOf(L, L[i]) = i
         /\ \A x \in Names(L) : /\ x \in N /\ IndexOf(L, x) \in 1 .. Len(L) /\ L[IndexOf(L, x)] = x
                                /\ DepthOf(L, x) \in 0 .. Len(L) - 1 /\ DepthOf(L, x) + 1 = IndexOf(L, x)
<1>1. L \in Seq(N) /\ \A i, j \in 1 .. Len(L) : L[i] = L[j] => i = j
  BY DEF Layouts
<1>2. Len(L) \in Nat /\ DOMAIN L = 1 .. Len(L) /\ \A i \in 1 .. Len(L) : L[i] \in N
  BY <1>1, LenProperties, ElementOfSeq
<1>3. ASSUME NEW x, NEW i \in 1 .. Len(L), L[i] = x
      PROVE  IndexOf(L, x) \in 1 .. Len(L) /\ L[IndexOf(L, x)] = x
  BY <1>2, <1>3 DEF IndexOf
<1>4. ASSUME NEW i \in 1 .. Len(L) PROVE L[i] \in N /\ L[i] \in Names(L) /\ IndexOf(L, L[i]) = i
  <2>1. IndexOf(L, L[i]) \in 1 .. Len(L) /\ L[IndexOf(L, L[i])] = L[i]
    BY <1>3
  <2> QED BY <1>1, <1>2, <2>1 DEF Names
<1>5. ASSUME NEW x \in Names(L)
      PROVE  /\ x \in N /\ IndexOf(L, x) \in 1 .. Len(L) /\ L[IndexOf(L, x)] = x
             /\ DepthOf(L, x) \in 0 .. Len(L) - 1 /\ DepthOf(L, x) + 1 = IndexOf(L, x)
  <2>1. PICK i \in 1 .. Len(L) : L[i] = x
    BY <1>2 DEF Names
  <2>2. IndexOf(L, x) \in 1 .. Len(L) /\ L[IndexOf(L, x)] = x
    BY <1>3, <2>1
  <2>3. DepthOf(L, x) = IndexOf(L, x) - 1
    BY DEF DepthOf
  <2> QED BY <1>2, <2>1, <2>2, <2>3
<1> QED BY <1>1, <1>2, <1>4, <1>5

\* A layout without one of its names is the layout with that slot dropped.
LEMMA WithoutOneName ==
  ASSUME NEW N, NEW L \in Layouts(N), NEW x \in Names(L)
  PROVE  /\ Without(L, x) = Dropped(L, DepthOf(L, x))
         /\ Without(L, x) \in Layouts(N) /\ Len(Without(L, x)) = Len(L) - 1
         /\ Names(Without(L, x)) = Names(L) \ {x}
         /\ InOrder(Without(L, x), L)
<1> DEFINE p == IndexOf(L, x)
           d == DepthOf(L, x)
           a == SubSeq(L, 1, p - 1)
           b == SubSeq(L, p + 1, Len(L))
           W == Without(L, x)
<1>1. /\ L \in Seq(N) /\ Len(L) \in Nat /\ p \in 1 .. Len(L) /\ d = p - 1 /\ L[p] = x
      /\ \A i \in 1 .. Len(L) : L[i] \in N /\ L[i] \in Names(L) /\ IndexOf(L, L[i]) = i
  BY IndexOfName DEF DepthOf
<1>2. W = a \o b
  BY DEF Without, RemoveAt
<1>3. Dropped(L, d) \in Seq(N) /\ Len(Dropped(L, d)) = Len(L) - 1
  <2>1. d \in 0 .. Len(L) - 1
    BY <1>1
  <2> HIDE DEF d
  <2> QED BY <1>1, <2>1, StacksStay
<1>0. DOMAIN L = 1 .. Len(L) /\ Names(L) = {L[i] : i \in 1 .. Len(L)}
  BY IndexOfName DEF Names
<1> HIDE DEF p, d
<1>4. a \in Seq(N) /\ Len(a) = p - 1 /\ \A i \in 1 .. p - 1 : a[i] = L[i]
  <2>1. \A i \in 1 .. p - 1 : L[i] \in N
    BY <1>1
  <2>2. /\ a \in Seq(N) /\ Len(a) = IF 1 <= p - 1 THEN (p - 1) - 1 + 1 ELSE 0
        /\ \A i \in 1 .. (p - 1) - 1 + 1 : a[i] = L[1 + i - 1]
    <3>1. 1 \in Int /\ p - 1 \in Int
      BY <1>1
    <3> QED BY <2>1, <3>1, SubSeqProperties
  <2> HIDE DEF a
  <2> QED BY <1>1, <2>2
<1>5. b \in Seq(N) /\ Len(b) = Len(L) - p /\ \A i \in 1 .. Len(L) - p : b[i] = L[p + i]
  <2>1. \A i \in p + 1 .. Len(L) : L[i] \in N
    BY <1>1
  <2>2. /\ b \in Seq(N) /\ Len(b) = IF p + 1 <= Len(L) THEN Len(L) - (p + 1) + 1 ELSE 0
        /\ \A i \in 1 .. Len(L) - (p + 1) + 1 : b[i] = L[(p + 1) + i - 1]
    <3>1. p + 1 \in Int /\ Len(L) \in Int
      BY <1>1
    <3> QED BY <2>1, <3>1, SubSeqProperties
  <2> HIDE DEF b
  <2> QED BY <1>1, <2>2
<1>6. W \in Seq(N) /\ Len(W) = Len(L) - 1 /\ \A i \in 1 .. Len(L) - 1 : W[i] = IF i < p THEN L[i] ELSE L[i + 1]
  <2> HIDE DEF a, b
  <2>0. a \in Seq(N) /\ b \in Seq(N)
    BY <1>4, <1>5
  <2>1. /\ a \o b \in Seq(N) /\ Len(a \o b) = Len(a) + Len(b)
        /\ \A i \in 1 .. Len(a) + Len(b) : (a \o b)[i] = IF i <= Len(a) THEN a[i] ELSE b[i - Len(a)]
    BY <2>0, ConcatProperties
  <2>2. /\ W \in Seq(N) /\ Len(W) = (p - 1) + (Len(L) - p)
        /\ \A i \in 1 .. (p - 1) + (Len(L) - p) : W[i] = IF i <= p - 1 THEN a[i] ELSE b[i - (p - 1)]
    BY <1>2, <1>4, <1>5, <2>1
  <2> HIDE DEF W
  <2>3. (p - 1) + (Len(L) - p) = Len(L) - 1
    BY <1>1
  <2>4. ASSUME NEW i \in 1 .. Len(L) - 1 PROVE W[i] = IF i < p THEN L[i] ELSE L[i + 1]
    <3>1. CASE i < p
      <4>1. i <= p - 1 /\ i \in 1 .. p - 1
        BY <1>1, <3>1
      <4> QED BY <1>4, <2>2, <2>3, <3>1, <4>1
    <3>2. CASE ~ (i < p)
      <4>1. ~ (i <= p - 1) /\ i - (p - 1) \in 1 .. Len(L) - p /\ p + (i - (p - 1)) = i + 1
        BY <1>1, <3>2
      <4> QED BY <1>5, <2>2, <2>3, <3>2, <4>1
    <3> QED BY <3>1, <3>2
  <2> QED BY <2>2, <2>3, <2>4
<1>7. Dropped(L, d) = [i \in 1 .. Len(L) - 1 |-> IF i <= d THEN L[i] ELSE L[i + 1]]
  BY DEF Dropped
<1> HIDE DEF W
<1>8. W = Dropped(L, d)
  <2>1. \A i \in 1 .. Len(L) - 1 : i <= d <=> i < p
    BY <1>1
  <2>2. \A i \in 1 .. Len(L) - 1 : W[i] = Dropped(L, d)[i]
    BY <1>6, <1>7, <2>1
  <2> QED BY <1>3, <1>6, <2>2, SeqEqual
<1> DEFINE at(i) == IF i < p THEN i ELSE i + 1
<1>9. ASSUME NEW i \in 1 .. Len(L) - 1
      PROVE  at(i) \in 1 .. Len(L) /\ at(i) # p /\ W[i] = L[at(i)] /\ IndexOf(L, W[i]) = at(i)
  <2>1. at(i) \in 1 .. Len(L) /\ at(i) # p /\ W[i] = L[at(i)]
    BY <1>1, <1>6
  <2> HIDE DEF at
  <2> QED BY <1>1, <2>1
<1>10. \A i, j \in 1 .. Len(L) - 1 : (at(i) = at(j) => i = j) /\ (i < j => at(i) < at(j))
  BY <1>1
<1>11. ASSUME NEW i \in 1 .. Len(L), i # p PROVE \E j \in 1 .. Len(L) - 1 : at(j) = i
  <2>1. CASE i < p
    <3>1. i \in 1 .. Len(L) - 1 /\ at(i) = i
      BY <1>1, <2>1
    <3> QED BY <3>1
  <2>2. CASE i > p
    <3>1. i - 1 \in 1 .. Len(L) - 1 /\ ~ (i - 1 < p) /\ (i - 1) + 1 = i
      BY <1>1, <2>2
    <3> QED BY <3>1
  <2> QED BY <1>1, <1>11, <2>1, <2>2
<1> HIDE DEF at
<1>12. W \in Layouts(N)
  <2>1. \A i, j \in 1 .. Len(L) - 1 : W[i] = W[j] => i = j
    BY <1>9, <1>10
  <2> QED BY <1>6, <2>1 DEF Layouts
<1>13. InOrder(W, L)
  BY <1>6, <1>9, <1>10 DEF InOrder
<1>14. Names(W) = Names(L) \ {x}
  <2>1. Names(W) = {W[i] : i \in 1 .. Len(L) - 1}
    BY <1>6, <1>12, IndexOfName DEF Names
  <2>2. ASSUME NEW i \in 1 .. Len(L) - 1 PROVE W[i] \in Names(L) \ {x}
    <3>1. at(i) \in 1 .. Len(L) /\ at(i) # p /\ W[i] = L[at(i)]
      BY <1>9
    <3> QED BY <1>1, <3>1
  <2>3. ASSUME NEW y \in Names(L) \ {x} PROVE \E i \in 1 .. Len(L) - 1 : W[i] = y
    <3>1. PICK i \in 1 .. Len(L) : L[i] = y
      BY <1>0
    <3>2. i # p
      BY <1>1, <3>1
    <3> QED BY <1>9, <1>11, <3>1, <3>2
  <2> QED BY <2>1, <2>2, <2>3
<1> QED BY <1>6, <1>8, <1>12, <1>13, <1>14 DEF W, d

\* The stack of a layout is a stack.
LEMMA StackIsStack ==
  ASSUME NEW N, NEW Items, NEW L \in Seq(N), NEW v \in Values(N, Items), NEW below \in Seq(Items)
  PROVE  Stacked(L, v, below) \in Seq(Items) /\ Len(Stacked(L, v, below)) = Len(L) + Len(below)
<1> DEFINE st == Stacked(L, v, below)
<1>1. /\ Len(L) \in Nat /\ Len(below) \in Nat
      /\ \A i \in 1 .. Len(L) : L[i] \in N /\ v[L[i]] \in Items
      /\ \A i \in 1 .. Len(below) : below[i] \in Items
  BY LenProperties, ElementOfSeq DEF Values
<1>2. st \in Seq(Items) /\ Len(st) = Len(L) + Len(below)
  <2> DEFINE n == Len(L) + Len(below)
  <2>1. st \in [1 .. n -> Items] /\ n \in Nat
    BY <1>1 DEF Stacked
  <2> HIDE DEF st, n
  <2>2. st \in Seq(Items) /\ Len(st) = n
    BY <2>1
  <2> QED BY <2>2 DEF n
<1> QED BY <1>2

LEMMA StackSlot ==
  ASSUME NEW N, NEW Items, NEW L \in Seq(N), NEW v \in Values(N, Items), NEW below \in Seq(Items),
         NEW i \in 1 .. Len(L)
  PROVE  Stacked(L, v, below)[i] = v[L[i]]
<1>1. Len(L) \in Nat /\ Len(below) \in Nat
  BY LenProperties
<1>2. i \in 1 .. Len(L) + Len(below) /\ i <= Len(L)
  BY <1>1
<1> QED BY <1>2 DEF Stacked

\* To drop a slot of it is to drop the name.
LEMMA StackWithoutSlot ==
  ASSUME NEW N, NEW Items, NEW L \in Seq(N), NEW v \in Values(N, Items), NEW below \in Seq(Items),
         NEW d \in 0 .. Len(L) - 1
  PROVE  /\ d \in 0 .. Len(Stacked(L, v, below)) - 1
         /\ Dropped(Stacked(L, v, below), d) = Stacked(Dropped(L, d), v, below)
<1> DEFINE st == Stacked(L, v, below)
<1>1. /\ Len(L) \in Nat /\ Len(below) \in Nat
      /\ \A i \in 1 .. Len(L) : L[i] \in N /\ v[L[i]] \in Items
  BY LenProperties, ElementOfSeq DEF Values
<1>2. st \in Seq(Items) /\ Len(st) = Len(L) + Len(below)
  BY StackIsStack
<1>3. \A i \in 1 .. Len(L) + Len(below) : st[i] = IF i <= Len(L) THEN v[L[i]] ELSE below[i - Len(L)]
  BY DEF Stacked
<1> DEFINE D == Dropped(L, d)
<1>4. d \in 0 .. Len(st) - 1
  BY <1>1, <1>2, <1>3
<1>5. D \in Seq(N) /\ Len(D) = Len(L) - 1
  BY StacksStay
<1>6. \A i \in 1 .. Len(L) - 1 : D[i] = IF i <= d THEN L[i] ELSE L[i + 1]
  BY DEF Dropped
<1> HIDE DEF D
<1>7. Stacked(D, v, below) = [i \in 1 .. (Len(L) - 1) + Len(below) |->
                                IF i <= Len(L) - 1 THEN v[D[i]] ELSE below[i - (Len(L) - 1)]]
  BY <1>5 DEF Stacked
<1> HIDE DEF st
<1>8. Dropped(st, d) = [i \in 1 .. (Len(L) + Len(below)) - 1 |-> IF i <= d THEN st[i] ELSE st[i + 1]]
  BY <1>2 DEF Dropped
<1>9. (Len(L) + Len(below)) - 1 = (Len(L) - 1) + Len(below)
  BY <1>1
<1>10. ASSUME NEW i \in 1 .. (Len(L) - 1) + Len(below)
      PROVE  (IF i <= d THEN st[i] ELSE st[i + 1]) =
             (IF i <= Len(L) - 1 THEN v[D[i]] ELSE below[i - (Len(L) - 1)])
  <2>1. CASE i <= d
    <3>1. i \in 1 .. Len(L) - 1 /\ i <= Len(L) /\ i \in 1 .. Len(L) + Len(below)
      BY <1>1, <2>1
    <3> QED BY <1>3, <1>6, <2>1, <3>1
  <2>2. CASE ~ (i <= d) /\ i <= Len(L) - 1
    <3>1. i \in 1 .. Len(L) - 1 /\ i + 1 <= Len(L) /\ i + 1 \in 1 .. Len(L) + Len(below)
      BY <1>1, <2>2
    <3> QED BY <1>3, <1>6, <2>2, <3>1
  <2>3. CASE i > Len(L) - 1
    <3>1. /\ ~ (i <= d) /\ ~ (i <= Len(L) - 1) /\ ~ (i + 1 <= Len(L)) /\ i + 1 \in 1 .. Len(L) + Len(below)
          /\ (i + 1) - Len(L) = i - (Len(L) - 1)
      BY <1>1, <2>3
    <3> QED BY <1>3, <3>1
  <2> QED BY <1>1, <2>1, <2>2, <2>3
<1>11. Dropped(st, d) = Stacked(D, v, below)
  BY <1>7, <1>8, <1>9, <1>10
<1> QED BY <1>4, <1>11 DEF D, st

\* A value on top of it is a name on top.
LEMMA StackWithName ==
  ASSUME NEW N, NEW Items, NEW L \in Seq(N), NEW v \in Values(N, Items), NEW below \in Seq(Items),
         NEW x \in N, NEW M, OnTop(M, x, L)
  PROVE  OnTop(Stacked(M, v, below), v[x], Stacked(L, v, below))
<1> DEFINE st == Stacked(L, v, below)
<1>1. /\ Len(L) \in Nat /\ Len(below) \in Nat
      /\ \A i \in 1 .. Len(L) : L[i] \in N /\ v[L[i]] \in Items
  BY LenProperties, ElementOfSeq DEF Values
<1>2. st \in Seq(Items) /\ Len(st) = Len(L) + Len(below)
  BY StackIsStack
<1>3. \A i \in 1 .. Len(L) + Len(below) : st[i] = IF i <= Len(L) THEN v[L[i]] ELSE below[i - Len(L)]
  BY DEF Stacked
<1> DEFINE y == v[x]
           t == <<y>> \o st
<1>4. M \in Seq(N) /\ Len(M) = Len(L) + 1 /\ M[1] = x /\ \A i \in 1 .. Len(L) : M[i + 1] = L[i]
  BY WhatIsPushed DEF OnTop
<1>5. y \in Items
  BY DEF Values
<1> HIDE DEF st, y
<1>6. t \in Seq(Items) /\ Len(t) = Len(st) + 1 /\ t[1] = y /\ \A i \in 1 .. Len(st) : t[i + 1] = st[i]
  <2>1. st \in Seq(Items)
    BY <1>2
  <2> QED BY <1>5, <2>1, WhatIsPushed
<1> HIDE DEF t
<1>7. Stacked(M, v, below) = [i \in 1 .. (Len(L) + 1) + Len(below) |->
                                IF i <= Len(L) + 1 THEN v[M[i]] ELSE below[i - (Len(L) + 1)]]
  BY <1>4 DEF Stacked
<1>8. ASSUME NEW i \in 1 .. (Len(L) + 1) + Len(below)
      PROVE  t[i] = IF i <= Len(L) + 1 THEN v[M[i]] ELSE below[i - (Len(L) + 1)]
  <2>1. CASE i = 1
    <3>1. 1 <= Len(L) + 1
      BY <1>1
    <3> QED BY <1>4, <1>6, <2>1, <3>1 DEF y
  <2>2. CASE i # 1
    <3>1. i - 1 \in 1 .. Len(st) /\ (i - 1) + 1 = i
      BY <1>1, <1>2, <2>2
    <3>2. t[i] = st[i - 1]
      BY <1>6, <3>1
    <3>3. st[i - 1] = IF i - 1 <= Len(L) THEN v[L[i - 1]] ELSE below[(i - 1) - Len(L)]
      BY <1>2, <1>3, <3>1
    <3>4. (i - 1 <= Len(L) <=> i <= Len(L) + 1) /\ (i - 1) - Len(L) = i - (Len(L) + 1)
      BY <1>1
    <3>5. i - 1 <= Len(L) => i - 1 \in 1 .. Len(L) /\ M[i] = L[i - 1]
      BY <1>1, <1>4, <3>1
    <3> QED BY <3>2, <3>3, <3>4, <3>5
  <2> QED BY <2>1, <2>2
<1>9. Len(t) = (Len(L) + 1) + Len(below)
  BY <1>1, <1>2, <1>6
<1>10. t = [i \in 1 .. (Len(L) + 1) + Len(below) |-> t[i]]
  <2>1. DOMAIN t = 1 .. Len(t) /\ t \in [1 .. Len(t) -> Items]
    BY <1>6, LenProperties
  <2> QED BY <1>9, <2>1
<1> QED BY <1>7, <1>8, <1>10 DEF t, st, OnTop, y

-----------------------------------------------------------------------------
\* The slots under a pushed one.
LEMMA PushedSlots ==
  ASSUME NEW Items, NEW y \in Items, NEW t \in Seq(Items)
  PROVE  /\ <<y>> \o t \in Seq(Items) /\ Len(<<y>> \o t) = Len(t) + 1 /\ (<<y>> \o t)[1] = y
         /\ \A i \in 1 .. Len(t) + 1 : i # 1 => (<<y>> \o t)[i] = t[i - 1]
<1> DEFINE u == <<y>> \o t
<1>1. u \in Seq(Items) /\ Len(u) = Len(t) + 1 /\ u[1] = y /\ \A i \in 1 .. Len(t) : u[i + 1] = t[i]
  BY WhatIsPushed
<1>2. Len(t) \in Nat
  BY LenProperties
<1> HIDE DEF u
<1>3. ASSUME NEW i \in 1 .. Len(t) + 1, i # 1 PROVE u[i] = t[i - 1]
  <2>1. i - 1 \in 1 .. Len(t) /\ (i - 1) + 1 = i
    BY <1>2, <1>3
  <2> QED BY <1>1, <2>1
<1> QED BY <1>1, <1>3 DEF u

\* A rolled or copied slot is a push.
LEMMA PushedForms ==
  ASSUME NEW Items, NEW s \in Seq(Items), NEW d \in 0 .. Len(s) - 1
  PROVE  /\ s[d + 1] \in Items
         /\ Rolled(s, d) = <<s[d + 1]>> \o Dropped(s, d)
         /\ Picked(s, d) = <<s[d + 1]>> \o s
<1> DEFINE x == s[d + 1]
           D == Dropped(s, d)
<1>1. Len(s) \in Nat /\ x \in Items /\ d + 1 \in 1 .. Len(s)
  BY LenProperties, ElementOfSeq
<1>2. D \in Seq(Items) /\ Len(D) = Len(s) - 1 /\ \A i \in 1 .. Len(s) - 1 : D[i] = IF i <= d THEN s[i] ELSE s[i + 1]
  BY StacksStay DEF Dropped
<1>3. Rolled(s, d) \in Seq(Items) /\ Len(Rolled(s, d)) = Len(s) /\ Picked(s, d) \in Seq(Items) /\ Len(Picked(s, d)) = Len(s) + 1
  BY StacksStay
<1>4. /\ \A i \in 1 .. Len(s) : Rolled(s, d)[i] = IF i = 1 THEN x ELSE IF i <= d + 1 THEN s[i - 1] ELSE s[i]
      /\ \A i \in 1 .. Len(s) + 1 : Picked(s, d)[i] = IF i = 1 THEN x ELSE s[i - 1]
  BY DEF Rolled, Picked
<1> HIDE DEF x, D
<1>5. Rolled(s, d) = <<x>> \o D
  <2> DEFINE u == <<x>> \o D
  <2>1. u \in Seq(Items) /\ Len(u) = Len(D) + 1 /\ u[1] = x /\ \A i \in 1 .. Len(D) + 1 : i # 1 => u[i] = D[i - 1]
    BY <1>1, <1>2, PushedSlots
  <2> HIDE DEF u
  <2>2. ASSUME NEW i \in 1 .. Len(s) PROVE u[i] = Rolled(s, d)[i]
    <3>1. CASE i = 1
      BY <1>1, <1>4, <2>1, <3>1
    <3>2. CASE i # 1
      <4>1. i - 1 \in 1 .. Len(s) - 1 /\ i \in 1 .. Len(D) + 1 /\ (i - 1) + 1 = i /\ (i - 1 <= d <=> i <= d + 1)
        BY <1>1, <1>2, <3>2
      <4>2. u[i] = D[i - 1] /\ D[i - 1] = IF i - 1 <= d THEN s[i - 1] ELSE s[(i - 1) + 1]
        BY <1>2, <2>1, <3>2, <4>1
      <4> QED BY <1>4, <3>2, <4>1, <4>2
    <3> QED BY <3>1, <3>2
  <2>3. Len(u) = Len(s)
    BY <1>1, <1>2, <2>1
  <2> QED BY <1>3, <2>1, <2>2, <2>3, SeqEqual DEF u
<1>6. Picked(s, d) = <<x>> \o s
  <2> DEFINE u == <<x>> \o s
  <2>1. u \in Seq(Items) /\ Len(u) = Len(s) + 1 /\ u[1] = x /\ \A i \in 1 .. Len(s) + 1 : i # 1 => u[i] = s[i - 1]
    BY <1>1, PushedSlots
  <2> HIDE DEF u
  <2>2. \A i \in 1 .. Len(s) + 1 : u[i] = Picked(s, d)[i]
    BY <1>4, <2>1
  <2> QED BY <1>3, <2>1, <2>2, SeqEqual DEF u
<1> QED BY <1>1, <1>5, <1>6 DEF x, D

\* A slot dropped from under a pushed one.
LEMMA DroppedUnderPush ==
  ASSUME NEW Items, NEW s \in Seq(Items), NEW d \in 0 .. Len(s) - 1, NEW y \in Items, NEW t, OnTop(t, y, s)
  PROVE  d + 1 \in 0 .. Len(t) - 1 /\ OnTop(Dropped(t, d + 1), y, Dropped(s, d))
<1> DEFINE e == d + 1
           D == Dropped(s, d)
           u == <<y>> \o D
<1>1. Len(s) \in Nat /\ e \in 1 .. Len(s)
  BY LenProperties
<1>2. D \in Seq(Items) /\ Len(D) = Len(s) - 1 /\ \A i \in 1 .. Len(s) - 1 : D[i] = IF i <= d THEN s[i] ELSE s[i + 1]
  BY StacksStay DEF Dropped
<1> HIDE DEF D
<1>3. t \in Seq(Items) /\ Len(t) = Len(s) + 1 /\ t[1] = y /\ \A i \in 1 .. Len(s) + 1 : i # 1 => t[i] = s[i - 1]
  BY PushedSlots DEF OnTop
<1>4. u \in Seq(Items) /\ Len(u) = Len(D) + 1 /\ u[1] = y /\ \A i \in 1 .. Len(D) + 1 : i # 1 => u[i] = D[i - 1]
  BY <1>2, PushedSlots
<1> HIDE DEF u
<1>5. e \in 0 .. Len(t) - 1
  BY <1>1, <1>3
<1>6. /\ Dropped(t, e) \in Seq(Items) /\ Len(Dropped(t, e)) = Len(t) - 1
      /\ \A i \in 1 .. Len(t) - 1 : Dropped(t, e)[i] = IF i <= e THEN t[i] ELSE t[i + 1]
  BY <1>3, <1>5, StacksStay DEF Dropped
<1>7. ASSUME NEW i \in 1 .. Len(s) PROVE Dropped(t, e)[i] = u[i]
  <2>1. CASE i = 1
    <3>1. 1 <= e /\ i \in 1 .. Len(t) - 1
      BY <1>1, <1>3
    <3> QED BY <1>3, <1>4, <1>6, <2>1, <3>1
  <2>2. CASE i # 1
    <3>1. /\ i - 1 \in 1 .. Len(s) - 1 /\ i \in 1 .. Len(D) + 1 /\ i \in 1 .. Len(t) - 1
          /\ i \in 1 .. Len(s) + 1 /\ i + 1 \in 1 .. Len(s) + 1 /\ i + 1 # 1
          /\ (i - 1) + 1 = i /\ (i + 1) - 1 = i /\ (i - 1 <= d <=> i <= e)
      BY <1>1, <1>2, <1>3, <2>2
    <3>2. u[i] = D[i - 1] /\ D[i - 1] = IF i - 1 <= d THEN s[i - 1] ELSE s[(i - 1) + 1]
      BY <1>2, <1>4, <2>2, <3>1
    <3>3. t[i] = s[i - 1] /\ t[i + 1] = s[(i + 1) - 1]
      BY <1>3, <2>2, <3>1
    <3> QED BY <1>6, <3>1, <3>2, <3>3
  <2> QED BY <2>1, <2>2
<1>8. Len(u) = Len(s) /\ Len(Dropped(t, e)) = Len(s)
  BY <1>1, <1>2, <1>3, <1>4, <1>6
<1>9. Dropped(t, e) = u
  BY <1>4, <1>6, <1>7, <1>8, SeqEqual
<1> QED BY <1>5, <1>9 DEF u, D, OnTop

\* Only the values of the names that a layout has matter for its stack.
LEMMA StacksAgree ==
  ASSUME NEW L, NEW v, NEW w, NEW below, \A i \in 1 .. Len(L) : v[L[i]] = w[L[i]], Len(L) \in Nat, Len(below) \in Nat
  PROVE  Stacked(L, v, below) = Stacked(L, w, below)
<1>1. \A i \in 1 .. Len(L) + Len(below) : i <= Len(L) => i \in 1 .. Len(L)
  OBVIOUS
<1> QED BY <1>1 DEF Stacked

-----------------------------------------------------------------------------
\* emit_copy_binding_to_top: whatever the layout, the values of the expression pushed so
\* far and the items below, the code pushes the value of the name and disturbs nothing.
THEOREM CopyReadsTheName ==
  ASSUME NEW N, NEW Items, Nat \subseteq Items, NEW L \in Layouts(N), NEW x \in Names(L),
         NEW v \in Values(N, Items), NEW below \in Seq(Items), NEW temporaries \in Seq(Items), NEW alt
  PROVE  LET st == temporaries \o Stacked(L, v, below)
         IN  Runs(CopyToTop(L, x, Len(temporaries)), Machine(st, alt), Machine(<<v[x]>> \o st, alt))
<1> DEFINE d == DepthOf(L, x)
           k == Len(temporaries)
           s == Stacked(L, v, below)
           st == temporaries \o s
<1>1. L \in Seq(N) /\ d \in 0 .. Len(L) - 1 /\ L[d + 1] = x /\ Len(L) \in Nat
  BY IndexOfName
<1>2. k \in Nat
  BY LenProperties
<1>3. s \in Seq(Items) /\ d \in 0 .. Len(s) - 1 /\ s[d + 1] = v[x]
  <2> HIDE DEF d
  <2>0. L \in Seq(N) /\ d \in 0 .. Len(L) - 1
    BY <1>1
  <2>1. d \in 0 .. Len(s) - 1 /\ s[d + 1] = v[L[d + 1]]
    <3>1. d \in 0 .. Len(s) - 1
      BY <2>0, StackWithoutSlot
    <3>2. d + 1 \in 1 .. Len(L)
      BY <1>1
    <3> QED BY <2>0, <3>1, <3>2, StackSlot
  <2>2. s \in Seq(Items)
    BY <1>1, StackIsStack
  <2> QED BY <1>1, <2>1, <2>2, Zenon
<1>4. Len(s) \in Nat
  <2> HIDE DEF s
  <2> QED BY <1>3, LenProperties
<1> HIDE DEF d, s
<1>5. /\ st \in Seq(Items) /\ Len(st) = Len(temporaries) + Len(s)
      /\ \A i \in 1 .. Len(temporaries) + Len(s) :
            st[i] = IF i <= Len(temporaries) THEN temporaries[i] ELSE s[i - Len(temporaries)]
  BY <1>3, ConcatProperties
<1> HIDE DEF st
<1>6. d + k \in 0 .. Len(st) - 1 /\ st[(d + k) + 1] = v[x]
  <2> HIDE DEF k
  <2>1. Len(st) = k + Len(s) /\ \A i \in 1 .. k + Len(s) : st[i] = IF i <= k THEN temporaries[i] ELSE s[i - k]
    BY <1>5 DEF k
  <2>2. (d + k) + 1 \in 1 .. k + Len(s) /\ ~ ((d + k) + 1 <= k) /\ ((d + k) + 1) - k = d + 1 /\ d + k \in 0 .. Len(st) - 1
    BY <1>2, <1>3, <1>4, <2>1
  <2> QED BY <1>3, <2>1, <2>2
<1>7. CopyToTop(L, x, k) = PickFromDepth(d + k)
  BY DEF CopyToTop, d
<1> HIDE DEF k
<1>8. Picked(st, d + k) = <<v[x]>> \o st
  BY <1>5, <1>6, PushedForms
<1>9. Runs(PickFromDepth(d + k), Machine(st, alt), Machine(Picked(st, d + k), alt))
  BY <1>5, <1>6, PickRuns
<1> QED BY <1>7, <1>8, <1>9 DEF st, s, k

\* A name on top of a layout that does not have it makes a layout.
LEMMA OneMoreName ==
  ASSUME NEW N, NEW L \in Layouts(N), NEW x \in N \ Names(L)
  PROVE  /\ <<x>> \o L \in Layouts(N) /\ Len(<<x>> \o L) = Len(L) + 1
         /\ Names(<<x>> \o L) = Names(L) \cup {x}
<1> DEFINE M == <<x>> \o L
<1>1. /\ L \in Seq(N) /\ Len(L) \in Nat /\ Names(L) = {L[i] : i \in 1 .. Len(L)}
      /\ \A i, j \in 1 .. Len(L) : L[i] = L[j] => i = j
  BY IndexOfName DEF Layouts, Names
<1>2. M \in Seq(N) /\ Len(M) = Len(L) + 1 /\ M[1] = x /\ \A i \in 1 .. Len(L) : M[i + 1] = L[i]
  BY <1>1, WhatIsPushed
<1> HIDE DEF M
<1>3. \A i \in 1 .. Len(L) + 1 : i = 1 \/ (i - 1 \in 1 .. Len(L) /\ (i - 1) + 1 = i)
  BY <1>1
<1>4. ASSUME NEW i \in 1 .. Len(L) + 1, i # 1
      PROVE  i - 1 \in 1 .. Len(L) /\ M[i] = L[i - 1] /\ M[i] # x
  BY <1>1, <1>2, <1>3, <1>4
<1>5. ASSUME NEW i \in 1 .. Len(L) + 1, NEW j \in 1 .. Len(L) + 1, M[i] = M[j] PROVE i = j
  <2>1. CASE i = 1 \/ j = 1
    BY <1>2, <1>4, <1>5, <2>1
  <2>2. CASE i # 1 /\ j # 1
    <3>1. i - 1 = j - 1
      BY <1>1, <1>4, <1>5, <2>2
    <3> QED BY <3>1
  <2> QED BY <2>1, <2>2
<1>6. M \in Layouts(N)
  BY <1>2, <1>5 DEF Layouts
<1>7. Names(M) = {M[i] : i \in 1 .. Len(L) + 1}
  BY <1>2, <1>6, IndexOfName DEF Names
<1>8. Names(M) = Names(L) \cup {x}
  <2>1. ASSUME NEW y \in Names(L) \cup {x} PROVE \E i \in 1 .. Len(L) + 1 : M[i] = y
    <3>1. CASE y = x
      BY <1>1, <1>2, <3>1
    <3>2. CASE y # x
      <4>1. PICK i \in 1 .. Len(L) : L[i] = y
        BY <1>1, <3>2
      <4>2. i + 1 \in 1 .. Len(L) + 1
        BY <1>1
      <4> QED BY <1>2, <4>1, <4>2
    <3> QED BY <3>1, <3>2
  <2>2. ASSUME NEW i \in 1 .. Len(L) + 1 PROVE M[i] \in Names(L) \cup {x}
    BY <1>1, <1>2, <1>4
  <2> QED BY <1>7, <2>1, <2>2
<1> QED BY <1>2, <1>6, <1>8 DEF M

\* emit_move_binding_to_top, and emit_update_stack_for_rebinding with the new value pushed
\* before it: the stack afterwards is that of the layout with the name on top, where
\* rebinding has given the name the new value and left every other name its own.
THEOREM RebindingKeepsTheOthers ==
  ASSUME NEW N, NEW Items, Nat \subseteq Items, NEW L \in Layouts(N), NEW x \in Names(L),
         NEW v \in Values(N, Items), NEW new \in Items, NEW below \in Seq(Items), NEW alt
  PROVE  /\ MoveToTop(L, x) \in Layouts(N) /\ Names(MoveToTop(L, x)) = Names(L)
         /\ Runs(RollFromDepth(DepthOf(L, x)), Machine(Stacked(L, v, below), alt),
                 Machine(Stacked(MoveToTop(L, x), v, below), alt))
         /\ Runs(UpdateForRebinding(L, x), Machine(<<new>> \o Stacked(L, v, below), alt),
                 Machine(Stacked(MoveToTop(L, x), [v EXCEPT ![x] = new], below), alt))
<1> DEFINE d == DepthOf(L, x)
           s == Stacked(L, v, below)
           W == Without(L, x)
           w == [v EXCEPT ![x] = new]
<1>1. L \in Seq(N) /\ d \in 0 .. Len(L) - 1 /\ L[d + 1] = x /\ Len(L) \in Nat /\ x \in N
  BY IndexOfName
<1>2. W \in Layouts(N) /\ W = Dropped(L, d) /\ Names(W) = Names(L) \ {x}
  BY WithoutOneName
<1>3. MoveToTop(L, x) = <<x>> \o W
  BY DEF MoveToTop
<1>4. MoveToTop(L, x) \in Layouts(N) /\ Names(MoveToTop(L, x)) = Names(L)
  <2> HIDE DEF W
  <2>1. x \in N \ Names(W)
    BY <1>1, <1>2
  <2>2. <<x>> \o W \in Layouts(N) /\ Names(<<x>> \o W) = Names(W) \cup {x}
    BY <1>2, <2>1, OneMoreName
  <2> QED BY <1>2, <1>3, <2>2
<1>5. W \in Seq(N) /\ Len(W) \in Nat /\ \A i \in 1 .. Len(W) : W[i] \in N \ {x}
  BY <1>2, IndexOfName
<1>6. w \in Values(N, Items) /\ w[x] = new /\ \A y \in N \ {x} : w[y] = v[y]
  BY <1>1 DEF Values
<1> HIDE DEF d, W, w
<1>7. s \in Seq(Items) /\ d \in 0 .. Len(s) - 1 /\ s[d + 1] = v[x] /\ Dropped(s, d) = Stacked(W, v, below)
  <2>0. L \in Seq(N) /\ d \in 0 .. Len(L) - 1
    BY <1>1
  <2>1. s \in Seq(Items)
    BY <2>0, StackIsStack
  <2>2. d \in 0 .. Len(s) - 1
    BY <2>0, StackWithoutSlot
  <2>3. s[d + 1] = v[L[d + 1]]
    <3>1. d + 1 \in 1 .. Len(L)
      BY <1>1
    <3> QED BY <2>0, <3>1, StackSlot
  <2>4. Dropped(s, d) = Stacked(Dropped(L, d), v, below)
    BY <2>0, StackWithoutSlot
  <2> QED BY <1>1, <1>2, <2>1, <2>2, <2>3, <2>4
<1>8. Stacked(W, w, below) = Stacked(W, v, below)
  <2>1. Len(below) \in Nat /\ \A i \in 1 .. Len(W) : w[W[i]] = v[W[i]]
    BY <1>5, <1>6, LenProperties
  <2> QED BY <1>5, <2>1, StacksAgree
<1>9. /\ Stacked(<<x>> \o W, v, below) = <<v[x]>> \o Stacked(W, v, below)
      /\ Stacked(<<x>> \o W, w, below) = <<w[x]>> \o Stacked(W, w, below)
  <2>1. W \in Seq(N) /\ w \in Values(N, Items) /\ x \in N
    BY <1>1, <1>5, <1>6
  <2> DEFINE M == <<x>> \o W
  <2>2. OnTop(M, x, W)
    BY DEF OnTop
  <2> HIDE DEF M
  <2>3. OnTop(Stacked(M, v, below), v[x], Stacked(W, v, below))
    BY <2>1, <2>2, StackWithName
  <2>4. OnTop(Stacked(M, w, below), w[x], Stacked(W, w, below))
    BY <2>1, <2>2, StackWithName
  <2> QED BY <2>3, <2>4 DEF M, OnTop
<1> HIDE DEF s
<1>10. Runs(RollFromDepth(d), Machine(s, alt), Machine(Rolled(s, d), alt)) /\ Rolled(s, d) = <<v[x]>> \o Dropped(s, d)
  BY <1>7, RollRuns, PushedForms
<1>11. Runs(DropFromDepth(d + 1), Machine(<<new>> \o s, alt), Machine(<<new>> \o Dropped(s, d), alt))
  <2> DEFINE t == <<new>> \o s
  <2>1. t \in Seq(Items)
    BY <1>7, WhatIsPushed
  <2>2. d + 1 \in 0 .. Len(t) - 1 /\ Dropped(t, d + 1) = <<new>> \o Dropped(s, d)
    <3>1. s \in Seq(Items) /\ d \in 0 .. Len(s) - 1
      BY <1>7
    <3>2. OnTop(t, new, s)
      BY DEF OnTop
    <3> HIDE DEF t
    <3>3. d + 1 \in 0 .. Len(t) - 1 /\ OnTop(Dropped(t, d + 1), new, Dropped(s, d))
      BY <3>1, <3>2, DroppedUnderPush
    <3> QED BY <3>3 DEF OnTop
  <2> HIDE DEF t
  <2>3. Runs(DropFromDepth(d + 1), Machine(t, alt), Machine(Dropped(t, d + 1), alt))
    BY <2>1, <2>2, DropRuns
  <2> QED BY <2>2, <2>3 DEF t
<1>12. UpdateForRebinding(L, x) = DropFromDepth(d + 1)
  BY DEF UpdateForRebinding, d
<1>13. /\ Rolled(s, d) = Stacked(MoveToTop(L, x), v, below)
       /\ <<new>> \o Dropped(s, d) = Stacked(MoveToTop(L, x), w, below)
  BY <1>3, <1>6, <1>7, <1>8, <1>9, <1>10
<1> QED BY <1>4, <1>10, <1>11, <1>12, <1>13 DEF s, d, w

-----------------------------------------------------------------------------
\* One slot dropped, and one slot lifted to the alt stack, as code for a layout.
LEMMA SlotLeaves ==
  ASSUME NEW N, NEW Items, Nat \subseteq Items, NEW L \in Layouts(N), NEW x \in Names(L),
         NEW v \in Values(N, Items), NEW below \in Seq(Items), NEW alt
  PROVE  /\ DropFromDepth(DepthOf(L, x)) \in Seq(Instructions)
         /\ Runs(DropFromDepth(DepthOf(L, x)), Machine(Stacked(L, v, below), alt),
                 Machine(Stacked(Without(L, x), v, below), alt))
         /\ RollFromDepth(DepthOf(L, x)) \in Seq(Instructions)
         /\ Ops(<<"ToAltStack">>) \in Seq(Instructions)
         /\ Runs(RollFromDepth(DepthOf(L, x)) \o Ops(<<"ToAltStack">>), Machine(Stacked(L, v, below), alt),
                 Machine(Stacked(Without(L, x), v, below), <<v[x]>> \o alt))
<1> DEFINE d == DepthOf(L, x)
           s == Stacked(L, v, below)
           W == Without(L, x)
           y == v[x]
           u == Stacked(W, v, below)
           t == <<y>> \o u
<1>1. L \in Seq(N) /\ d \in 0 .. Len(L) - 1 /\ L[d + 1] = x /\ Len(L) \in Nat /\ x \in N /\ d + 1 \in 1 .. Len(L)
  BY IndexOfName
<1>2. W \in Layouts(N) /\ W = Dropped(L, d)
  BY WithoutOneName
<1>3. W \in Seq(N)
  BY <1>2, IndexOfName
<1>4. y \in Items
  BY <1>1 DEF Values
<1>0. s[d + 1] = v[L[d + 1]]
  <2> HIDE DEF d
  <2> QED BY <1>1, StackSlot
<1> HIDE DEF d, W
<1>5. s \in Seq(Items) /\ d \in 0 .. Len(s) - 1 /\ s[d + 1] = y /\ Dropped(s, d) = u
  <2>1. L \in Seq(N) /\ d \in 0 .. Len(L) - 1
    BY <1>1
  <2>2. d \in 0 .. Len(s) - 1 /\ s \in Seq(Items)
    BY <2>1, StackIsStack, StackWithoutSlot
  <2>3. Dropped(s, d) = Stacked(Dropped(L, d), v, below)
    BY <2>1, StackWithoutSlot
  <2> QED BY <1>0, <1>1, <1>2, <2>2, <2>3
<1>6. u \in Seq(Items)
  BY <1>3, StackIsStack
<1> HIDE DEF s, y, u
<1>7. /\ DropFromDepth(d) \in Seq(Instructions) /\ Runs(DropFromDepth(d), Machine(s, alt), Machine(Dropped(s, d), alt))
      /\ RollFromDepth(d) \in Seq(Instructions) /\ Runs(RollFromDepth(d), Machine(s, alt), Machine(Rolled(s, d), alt))
  BY <1>5, DropRuns, RollRuns
<1>8. Rolled(s, d) = t
  BY <1>5, PushedForms
<1>9. t \in Seq(Items) /\ Len(t) = Len(u) + 1 /\ t[1] = y /\ Below(t, 1) = u
  BY <1>4, <1>6, WhatIsPushed
<1>10. Ops(<<"ToAltStack">>) = <<Op("ToAltStack")>> /\ Ops(<<"ToAltStack">>) \in Seq(Instructions) /\ Op("ToAltStack").op = "ToAltStack"
  BY OpcodesAreCode DEF Opcodes, PlainOpcodes
<1> HIDE DEF t
<1>11. Enough(Machine(t, alt), Op("ToAltStack"))
  <2>1. Len(u) \in Nat
    BY <1>6, LenProperties
  <2>2. Width("ToAltStack") <= Len(t)
    BY <1>9, <2>1 DEF Width, Needed
  <2> QED BY <1>10, <2>2 DEF Enough, Machine
<1>12. Effect(Machine(t, alt), Op("ToAltStack")) = Machine(u, <<y>> \o alt)
  BY <1>9, <1>10 DEF Effect, Machine
<1>13. Runs(Ops(<<"ToAltStack">>), Machine(t, alt), Machine(u, <<y>> \o alt))
  BY <1>10, <1>11, <1>12, RunsOne
<1>14. Runs(RollFromDepth(d) \o Ops(<<"ToAltStack">>), Machine(s, alt), Machine(u, <<y>> \o alt))
  BY <1>7, <1>8, <1>10, <1>13, RunsThen
<1> QED BY <1>5, <1>7, <1>10, <1>14 DEF d, s, W, y, u

\* The order of a layout is the order of any layout it was taken from.
LEMMA InOrderChains ==
  ASSUME NEW N, NEW L \in Layouts(N), NEW M \in Layouts(N), NEW W \in Layouts(N),
         InOrder(M, L), InOrder(W, M), Names(W) \subseteq Names(M)
  PROVE  InOrder(W, L)
<1> SUFFICES ASSUME NEW i \in 1 .. Len(W), NEW j \in 1 .. Len(W), i < j
             PROVE  IndexOf(L, W[i]) < IndexOf(L, W[j])
  BY DEF InOrder
<1>1. W[i] \in Names(M) /\ W[j] \in Names(M) /\ IndexOf(M, W[i]) < IndexOf(M, W[j])
  BY IndexOfName DEF InOrder
<1>2. /\ IndexOf(M, W[i]) \in 1 .. Len(M) /\ M[IndexOf(M, W[i])] = W[i]
      /\ IndexOf(M, W[j]) \in 1 .. Len(M) /\ M[IndexOf(M, W[j])] = W[j]
  BY <1>1, IndexOfName
<1> QED BY <1>1, <1>2 DEF InOrder

(* A layout with the code that has reached it from L: what of L is gone is the set gone, *)
(* the rest keeps its order, and lifted is what the code has put on the alt stack.       *)
Reached(a, N, L, gone, v, below, alt, lifted) ==
  /\ a \in [layout : Layouts(N), code : Seq(Instructions)]
  /\ Names(a.layout) = Names(L) \ gone
  /\ InOrder(a.layout, L)
  /\ Runs(a.code, Machine(Stacked(L, v, below), alt), Machine(Stacked(a.layout, v, below), lifted))

LEMMA ReachedAtFirst ==
  ASSUME NEW N, NEW L \in Layouts(N), NEW v, NEW below, NEW alt
  PROVE  Reached([layout |-> L, code |-> <<>>], N, L, {}, v, below, alt, alt)
<1>1. InOrder(L, L)
  BY IndexOfName DEF InOrder
<1>2. Runs(<<>>, Machine(Stacked(L, v, below), alt), Machine(Stacked(L, v, below), alt))
  BY RunsNothing
<1>3. <<>> \in Seq(Instructions)
  OBVIOUS
<1> QED BY <1>1, <1>2, <1>3 DEF Reached

\* One slot more, dropped or lifted.
LEMMA ReachedNext ==
  ASSUME NEW N, NEW Items, Nat \subseteq Items, NEW L \in Layouts(N), NEW v \in Values(N, Items),
         NEW below \in Seq(Items), NEW alt, NEW lifted, NEW gone, NEW a, Reached(a, N, L, gone, v, below, alt, lifted),
         NEW x \in Names(L) \ gone
  PROVE  /\ Len(Without(a.layout, x)) = Len(a.layout) - 1
         /\ Reached(DropSlot(a, x), N, L, gone \cup {x}, v, below, alt, lifted)
         /\ Reached(MoveToAltStack(a, x), N, L, gone \cup {x}, v, below, alt, <<v[x]>> \o lifted)
<1> DEFINE M == a.layout
           W == Without(M, x)
           drop == DropFromDepth(DepthOf(M, x))
           roll == RollFromDepth(DepthOf(M, x))
           lift == Ops(<<"ToAltStack">>)
           s == Stacked(L, v, below)
<1>1. /\ M \in Layouts(N) /\ a.code \in Seq(Instructions) /\ Names(M) = Names(L) \ gone /\ InOrder(M, L)
      /\ x \in Names(M) /\ Runs(a.code, Machine(s, alt), Machine(Stacked(M, v, below), lifted))
  BY DEF Reached
<1> HIDE DEF M, s
<1>2. W \in Layouts(N) /\ Names(W) = Names(M) \ {x} /\ InOrder(W, M) /\ Len(W) = Len(M) - 1
  BY <1>1, WithoutOneName
<1>3. /\ drop \in Seq(Instructions) /\ Runs(drop, Machine(Stacked(M, v, below), lifted), Machine(Stacked(W, v, below), lifted))
      /\ roll \in Seq(Instructions) /\ lift \in Seq(Instructions)
      /\ Runs(roll \o lift, Machine(Stacked(M, v, below), lifted), Machine(Stacked(W, v, below), <<v[x]>> \o lifted))
  BY <1>1, SlotLeaves
<1> HIDE DEF W, drop, roll, lift
<1>4. InOrder(W, L) /\ Names(W) = Names(L) \ (gone \cup {x})
  BY <1>1, <1>2, InOrderChains
<1>5. a.code \o drop \in Seq(Instructions) /\ roll \o lift \in Seq(Instructions)
  BY <1>1, <1>3, ConcatProperties
<1>6. Runs(a.code \o drop, Machine(s, alt), Machine(Stacked(W, v, below), lifted))
  BY <1>1, <1>3, RunsThen
<1>7. Runs(a.code \o (roll \o lift), Machine(s, alt), Machine(Stacked(W, v, below), <<v[x]>> \o lifted))
  BY <1>1, <1>3, <1>5, RunsThen
<1>8. a.code \o (roll \o lift) = (a.code \o roll) \o lift /\ a.code \o (roll \o lift) \in Seq(Instructions)
  <2> DEFINE c == a.code
  <2>1. c \in Seq(Instructions) /\ roll \in Seq(Instructions) /\ lift \in Seq(Instructions)
    BY <1>1, <1>3
  <2> HIDE DEF c
  <2>2. c \o (roll \o lift) = (c \o roll) \o lift
    BY <2>1, ConcatAssociative
  <2>3. c \o (roll \o lift) \in Seq(Instructions)
    BY <1>5, <2>1, ConcatProperties
  <2> QED BY <2>2, <2>3 DEF c
<1>9. DropSlot(a, x) = [layout |-> W, code |-> a.code \o drop]
  BY DEF DropSlot, M, W, drop
<1>10. MoveToAltStack(a, x) = [layout |-> W, code |-> (a.code \o roll) \o lift]
  BY DEF MoveToAltStack, M, W, roll, lift
<1>11. Reached(DropSlot(a, x), N, L, gone \cup {x}, v, below, alt, lifted)
  BY <1>2, <1>4, <1>5, <1>6, <1>9 DEF Reached, s
<1>12. Reached(MoveToAltStack(a, x), N, L, gone \cup {x}, v, below, alt, <<v[x]>> \o lifted)
  <2> DEFINE c == (a.code \o roll) \o lift
  <2>1. c \in Seq(Instructions) /\ Runs(c, Machine(s, alt), Machine(Stacked(W, v, below), <<v[x]>> \o lifted))
    BY <1>7, <1>8
  <2>2. MoveToAltStack(a, x) = [layout |-> W, code |-> c]
    BY <1>10
  <2> HIDE DEF c
  <2> QED BY <1>2, <1>4, <2>1, <2>2 DEF Reached, s
<1> QED BY <1>2, <1>11, <1>12 DEF M, W

\* emit_drop_bindings: whatever the layout and the names, the code takes the stack of the
\* layout to the stack of the names that stay, in their old order and with their values.
THEOREM DroppingKeepsTheOthers ==
  ASSUME NEW N, NEW Items, Nat \subseteq Items, NEW L \in Layouts(N), NEW names,
         NEW v \in Values(N, Items), NEW below \in Seq(Items), NEW alt
  PROVE  Reached(DropBindings(L, names), N, L, names, v, below, alt, alt)
<1> DEFINE n == Len(L)
           first == [layout |-> L, code |-> <<>>]
           gone(k) == {L[i] : i \in {j \in 1 .. k : L[j] \in names}}
           Body(f) == [k \in 0 .. n |-> IF k = 0 THEN first
                                        ELSE IF L[k] \in names THEN DropSlot(f[k - 1], L[k]) ELSE f[k - 1]]
           all == [layout : Layouts(N), code : Seq(Instructions)]
           G == [k \in 0 .. n |-> {a \in all : Reached(a, N, L, gone(k), v, below, alt, alt)}]
           step == [k \in 1 .. n |-> [a \in G[k - 1] |-> IF L[k] \in names THEN DropSlot(a, L[k]) ELSE a]]
           f == CHOOSE h : h = Body(h)
<1>1. n \in Nat /\ L \in Seq(N) /\ \A i \in 1 .. n : L[i] \in Names(L) /\ \A j \in 1 .. n : L[i] = L[j] => i = j
  BY IndexOfName DEF Layouts
<1>2. /\ gone(0) = {}
      /\ \A k \in 1 .. n : /\ L[k] \in names => gone(k) = gone(k - 1) \cup {L[k]} /\ L[k] \in Names(L) \ gone(k - 1)
                           /\ L[k] \notin names => gone(k) = gone(k - 1)
  <2>1. gone(0) = {}
    OBVIOUS
  <2>2. ASSUME NEW k \in 1 .. n
        PROVE  /\ L[k] \in names => gone(k) = gone(k - 1) \cup {L[k]} /\ L[k] \in Names(L) \ gone(k - 1)
               /\ L[k] \notin names => gone(k) = gone(k - 1)
    <3>1. 1 .. k = (1 .. k - 1) \cup {k} /\ k \notin 1 .. k - 1
      BY <1>1
    <3>2. \A j \in 1 .. k - 1 : j \in 1 .. n
      BY <1>1
    <3> HIDE DEF n
    <3> QED BY <1>1, <3>1, <3>2
  <2> QED BY <2>1, <2>2
<1>3. \A i \in 1 .. n : L[i] \in names => L[i] \in gone(n)
  BY <1>1
<1>4. Names(L) \ gone(n) = Names(L) \ names
  <2>1. gone(n) \subseteq names
    OBVIOUS
  <2>2. \A x \in Names(L) : \E i \in 1 .. n : L[i] = x
    BY <1>1, LenProperties DEF Names
  <2> HIDE DEF gone, n
  <2> QED BY <1>3, <2>1, <2>2
<1> HIDE DEF gone
<1>5. first \in all /\ \A k \in 0 .. n, a \in all : Reached(a, N, L, gone(k), v, below, alt, alt) => a \in G[k]
  <2>1. first \in all
    OBVIOUS
  <2> HIDE DEF all, first
  <2> QED BY <2>1
<1>6. first \in G[0]
  <2>1. Reached(first, N, L, gone(0), v, below, alt, alt)
    <3>1. Reached(first, N, L, {}, v, below, alt, alt)
      BY ReachedAtFirst
    <3> HIDE DEF first
    <3> QED BY <1>2, <3>1
  <2> HIDE DEF G, first, all
  <2> QED BY <1>1, <1>5, <2>1
<1>7. ASSUME NEW k \in 1 .. n, NEW a, a \in G[k - 1]
      PROVE  (IF L[k] \in names THEN DropSlot(a, L[k]) ELSE a) \in G[k]
  <2>1. k - 1 \in 0 .. n /\ k \in 0 .. n
    BY <1>1
  <2>2. a \in all /\ Reached(a, N, L, gone(k - 1), v, below, alt, alt)
    <3> HIDE DEF all, n
    <3> QED BY <1>7, <2>1
  <2> HIDE DEF G
  <2>3. CASE L[k] \in names
    <3> DEFINE b == DropSlot(a, L[k])
    <3>1. Reached(b, N, L, gone(k - 1) \cup {L[k]}, v, below, alt, alt)
      BY <1>2, <2>2, <2>3, ReachedNext
    <3> HIDE DEF b
    <3>2. b \in all
      BY <3>1 DEF Reached
    <3>3. Reached(b, N, L, gone(k), v, below, alt, alt)
      BY <1>2, <2>3, <3>1
    <3> HIDE DEF all
    <3> QED BY <1>5, <2>1, <2>3, <3>2, <3>3 DEF b
  <2>4. CASE L[k] \notin names
    <3>1. Reached(a, N, L, gone(k), v, below, alt, alt)
      BY <1>2, <2>2, <2>4
    <3> HIDE DEF all
    <3> QED BY <1>5, <2>1, <2>2, <2>4, <3>1
  <2> QED BY <2>3, <2>4
<1>8. PICK g : Staged(g, n, G, first, step)
  <2>1. \A k \in 1 .. n : \A a \in G[k - 1] : step[k][a] \in G[k]
    <3> HIDE DEF G
    <3> QED BY <1>7
  <2> HIDE DEF G, step, first, n
  <2> QED BY <1>1, <1>6, <2>1, StagedRecursion, Zenon
<1>9. g = Body(g)
  <2>1. ASSUME NEW k \in 1 .. n
        PROVE  g[k] = IF L[k] \in names THEN DropSlot(g[k - 1], L[k]) ELSE g[k - 1]
    <3> HIDE DEF G
    <3> QED BY <1>8 DEF Staged
  <2> HIDE DEF G, step, first
  <2>2. \A k \in 0 .. n : k = 0 \/ k \in 1 .. n
    BY <1>1
  <2> QED BY <1>8, <2>1, <2>2 DEF Staged
<1>10. f = Body(f)
  <2> HIDE DEF Body
  <2> QED BY <1>9
<1>11. DropBindings(L, names) = f[n]
  BY DEF DropBindings
<1> HIDE DEF f
<1>12. f[0] = first /\ \A k \in 1 .. n : f[k] = IF L[k] \in names THEN DropSlot(f[k - 1], L[k]) ELSE f[k - 1]
  <2> HIDE DEF first
  <2>1. \A k \in 0 .. n : f[k] = Body(f)[k]
    <3> HIDE DEF Body
    <3> QED BY <1>10
  <2>2. 0 \in 0 .. n /\ \A k \in 1 .. n : k \in 0 .. n /\ k # 0
    BY <1>1
  <2> QED BY <2>1, <2>2
<1>13. f[n] \in G[n]
  <2>1. \A k \in 1 .. n : f[k - 1] \in G[k - 1] => f[k] \in G[k]
    <3> HIDE DEF G, first
    <3> QED BY <1>7, <1>12
  <2>2. f[0] \in G[0]
    BY <1>6, <1>12
  <2> HIDE DEF G, n
  <2>3. \A k \in 0 .. n : f[k] \in G[k]
    BY <1>1, <2>1, <2>2, StagesHold
  <2>4. n \in 0 .. n
    BY <1>1
  <2> QED BY <2>3, <2>4
<1>14. Reached(f[n], N, L, gone(n), v, below, alt, alt)
  <2>1. n \in 0 .. n
    BY <1>1
  <2> HIDE DEF all, n
  <2> QED BY <1>13, <2>1
<1> HIDE DEF n
<1> QED BY <1>4, <1>11, <1>14 DEF Reached

-----------------------------------------------------------------------------
\* Layouts of the same names have the same length.
LEMMA SameNamesSameLength ==
  ASSUME NEW N, NEW L \in Layouts(N), NEW M \in Layouts(N), Names(L) = Names(M)
  PROVE  Len(L) = Len(M)
<1>1. ASSUME NEW K \in Layouts(N) PROVE Cardinality(Names(K)) = Len(K)
  <2>1. /\ Len(K) \in Nat /\ DOMAIN K = 1 .. Len(K)
        /\ \A i \in 1 .. Len(K) : K[i] \in Names(K)
        /\ \A i, j \in 1 .. Len(K) : K[i] = K[j] => i = j
        /\ \A x \in Names(K) : \E i \in 1 .. Len(K) : K[i] = x
    BY IndexOfName DEF Layouts
  <2>2. K \in [1 .. Len(K) -> Names(K)]
    <3>1. K \in Seq(N)
      BY IndexOfName
    <3> QED BY <2>1, <3>1, LenProperties
  <2>3. K \in Bijection(1 .. Len(K), Names(K))
    BY <2>1, <2>2 DEF Bijection, Injection, Surjection, IsInjective
  <2>4. ExistsBijection(1 .. Len(K), Names(K))
    BY <2>3 DEF ExistsBijection
  <2> QED BY <2>1, <2>4, FS_CountingElements
<1> QED BY <1>1

\* Layouts of the same names in the same order are the same.
LEMMA SameOrderSameLayout ==
  ASSUME NEW N, NEW L \in Layouts(N), NEW M \in Layouts(N), NEW R \in Layouts(N),
         InOrder(M, L), InOrder(R, L), Names(M) = Names(R), Names(M) \subseteq Names(L)
  PROVE  M = R
<1> DEFINE n == Len(M)
           Bad == {i \in 1 .. n : M[i] # R[i]}
<1>1. /\ n \in Nat /\ Len(R) = n /\ M \in Seq(N) /\ R \in Seq(N)
      /\ \A i, j \in 1 .. n : (M[i] = M[j] => i = j) /\ (R[i] = R[j] => i = j)
  <2>1. Len(R) = n
    BY SameNamesSameLength
  <2>2. n \in Nat /\ M \in Seq(N) /\ R \in Seq(N)
    BY IndexOfName
  <2>3. /\ \A i, j \in 1 .. Len(M) : M[i] = M[j] => i = j
        /\ \A i, j \in 1 .. Len(R) : R[i] = R[j] => i = j
    BY DEF Layouts
  <2> QED BY <2>1, <2>2, <2>3
<1>2. /\ \A i \in 1 .. n : M[i] \in Names(R) /\ R[i] \in Names(M)
      /\ \A i \in 1 .. n : \E j \in 1 .. n : M[i] = R[j]
      /\ \A i \in 1 .. n : \E j \in 1 .. n : R[i] = M[j]
  <2>1. /\ \A i \in 1 .. n : M[i] \in Names(M) /\ R[i] \in Names(R)
        /\ \A x \in Names(M) : \E j \in 1 .. n : M[j] = x
        /\ \A x \in Names(R) : \E j \in 1 .. n : R[j] = x
    <3>1. /\ \A i \in 1 .. Len(M) : M[i] \in Names(M)
          /\ \A x \in Names(M) : IndexOf(M, x) \in 1 .. Len(M) /\ M[IndexOf(M, x)] = x
      BY IndexOfName
    <3>2. /\ \A i \in 1 .. Len(R) : R[i] \in Names(R)
          /\ \A x \in Names(R) : IndexOf(R, x) \in 1 .. Len(R) /\ R[IndexOf(R, x)] = x
      BY IndexOfName
    <3> HIDE DEF n
    <3>3. Len(M) = n /\ Len(R) = n
      BY <1>1 DEF n
    <3> QED BY <3>1, <3>2, <3>3
  <2> HIDE DEF n
  <2> QED BY <2>1
<1>3. \A i, j \in 1 .. n : i < j => IndexOf(L, M[i]) < IndexOf(L, M[j]) /\ IndexOf(L, R[i]) < IndexOf(L, R[j])
  BY <1>1 DEF InOrder
<1>4. \A x \in Names(M) : IndexOf(L, x) \in Int
  <2>1. \A x \in Names(L) : IndexOf(L, x) \in 1 .. Len(L) /\ Len(L) \in Nat
    BY IndexOfName
  <2> QED BY <2>1
<1>5. ASSUME Bad # {} PROVE FALSE
  <2>1. Bad \in SUBSET Nat
    BY <1>1
  <2>2. PICK i \in Bad : \A k \in Bad : i <= k
    <3> HIDE DEF Bad
    <3> QED BY <1>5, <2>1, LeastNat
  <2>3. i \in 1 .. n /\ M[i] # R[i] /\ \A k \in 1 .. n : k < i => M[k] = R[k]
    BY <1>1, <2>2
  <2>4. PICK j \in 1 .. n : M[i] = R[j]
    BY <1>2, <2>3
  <2>5. PICK k \in 1 .. n : R[i] = M[k]
    BY <1>2, <2>3
  <2>6. i < j /\ i < k
    <3>1. ~ (j < i) /\ ~ (k < i) /\ j # i /\ k # i
      BY <1>1, <2>3, <2>4, <2>5
    <3> HIDE DEF n, Bad
    <3> QED BY <1>1, <2>3, <3>1
  <2>7. IndexOf(L, R[i]) < IndexOf(L, M[i]) /\ IndexOf(L, M[i]) < IndexOf(L, R[i])
    BY <1>3, <2>3, <2>4, <2>5, <2>6
  <2>8. IndexOf(L, R[i]) \in Int /\ IndexOf(L, M[i]) \in Int
    BY <1>2, <1>4, <2>3
  <2> QED BY <2>7, <2>8
<1> HIDE DEF Bad
<1>6. \A i \in 1 .. n : M[i] = R[i]
  BY <1>5 DEF Bad
<1> QED BY <1>1, <1>6, SeqEqual
-----------------------------------------------------------------------------
(* The opcodes of the local plans turn the top of the stack: what comes to a  *)
(* position, and from where.                                                  *)
Locals == {"Swap", "Rot", "TwoSwap", "TwoRot"}
By == [Swap |-> 1, Rot |-> 2, TwoSwap |-> 2, TwoRot |-> 4]
Turn(local, i) ==
    IF i > LocalWidth[local] THEN i ELSE 1 + ((i + By[local] - 1) % LocalWidth[local])

\* Items on top of what lies below as many topmost slots.
LEMMA TopReplaced ==
  ASSUME NEW Items, NEW s \in Seq(Items), NEW t \in Seq(Items), Len(t) <= Len(s)
  PROVE  /\ t \o Below(s, Len(t)) \in Seq(Items) /\ Len(t \o Below(s, Len(t))) = Len(s)
         /\ \A i \in 1 .. Len(s) : (t \o Below(s, Len(t)))[i] = IF i <= Len(t) THEN t[i] ELSE s[i]
<1> DEFINE k == Len(t)
           b == Below(s, k)
<1>1. k \in Nat /\ Len(s) \in Nat /\ k \in 0 .. Len(s)
  BY LenProperties
<1> HIDE DEF k
<1>2. b \in Seq(Items) /\ Len(b) = Len(s) - k /\ \A i \in 1 .. Len(s) - k : b[i] = s[i + k]
  BY <1>1, WhatIsBelow
<1> HIDE DEF b
<1> DEFINE u == t \o b
<1>3. u \in Seq(Items) /\ Len(u) = Len(t) + Len(b)
      /\ \A i \in 1 .. Len(t) + Len(b) : u[i] = IF i <= Len(t) THEN t[i] ELSE b[i - Len(t)]
  <2>1. b \in Seq(Items)
    BY <1>2
  <2> QED BY <2>1, ConcatProperties
<1> HIDE DEF u
<1>4. Len(u) = Len(s) /\ \A i \in 1 .. Len(s) : u[i] = IF i <= k THEN t[i] ELSE b[i - k]
  <2>1. k + (Len(s) - k) = Len(s)
    BY <1>1
  <2> QED BY <1>2, <1>3, <2>1 DEF k
<1>5. \A i \in 1 .. Len(s) : ~ (i <= k) => i - k \in 1 .. Len(s) - k /\ (i - k) + k = i
  BY <1>1
<1>6. \A i \in 1 .. Len(s) : u[i] = IF i <= k THEN t[i] ELSE s[i]
  BY <1>2, <1>4, <1>5
<1> QED BY <1>3, <1>4, <1>6 DEF u, b, k

\* The turns, position by position.
LEMMA TurnTable ==
  /\ Turn("Swap", 1) = 2 /\ Turn("Swap", 2) = 1
  /\ Turn("Rot", 1) = 3 /\ Turn("Rot", 2) = 1 /\ Turn("Rot", 3) = 2
  /\ Turn("TwoSwap", 1) = 3 /\ Turn("TwoSwap", 2) = 4 /\ Turn("TwoSwap", 3) = 1 /\ Turn("TwoSwap", 4) = 2
  /\ Turn("TwoRot", 1) = 5 /\ Turn("TwoRot", 2) = 6 /\ Turn("TwoRot", 3) = 1 /\ Turn("TwoRot", 4) = 2
  /\ Turn("TwoRot", 5) = 3 /\ Turn("TwoRot", 6) = 4
<1>1. /\ LocalWidth["Swap"] = 2 /\ LocalWidth["Rot"] = 3 /\ LocalWidth["TwoSwap"] = 4 /\ LocalWidth["TwoRot"] = 6
      /\ By["Swap"] = 1 /\ By["Rot"] = 2 /\ By["TwoSwap"] = 2 /\ By["TwoRot"] = 4
  BY DEF LocalWidth, By
<1>2. /\ 1 % 2 = 1 /\ 2 % 2 = 0 /\ 2 % 3 = 2 /\ 3 % 3 = 0 /\ 4 % 3 = 1
      /\ 2 % 4 = 2 /\ 3 % 4 = 3 /\ 4 % 4 = 0 /\ 5 % 4 = 1
      /\ 4 % 6 = 4 /\ 5 % 6 = 5 /\ 6 % 6 = 0 /\ 7 % 6 = 1 /\ 8 % 6 = 2 /\ 9 % 6 = 3
  OBVIOUS
<1> QED BY <1>1, <1>2 DEF Turn

\* A turn stays within any stack that is wide enough, and moves the top of it only.
LEMMA TurnsStay ==
  ASSUME NEW local \in Locals, NEW n \in Nat, LocalWidth[local] <= n
  PROVE  /\ \A i \in 1 .. n : Turn(local, i) \in 1 .. n
         /\ \A i \in Nat : i > n => Turn(local, i) = i
<1>1. LocalWidth[local] \in 1 .. n /\ LocalWidth[local] \in {2, 3, 4, 6} /\ By[local] \in Nat
  BY DEF Locals, LocalWidth, By
<1>2. \A m \in Nat, w \in {2, 3, 4, 6} : m % w \in 0 .. w - 1
  OBVIOUS
<1>3. ASSUME NEW i \in 1 .. n PROVE Turn(local, i) \in 1 .. n
  <2> DEFINE w == LocalWidth[local]
             m == i + By[local] - 1
  <2>1. m \in Nat
    BY <1>1
  <2>2. w \in {2, 3, 4, 6} /\ w \in 1 .. n
    BY <1>1
  <2>3. Turn(local, i) = IF i > w THEN i ELSE 1 + (m % w)
    BY DEF Turn
  <2> HIDE DEF w, m
  <2>4. m % w \in 0 .. w - 1
    BY <1>2, <2>1, <2>2
  <2> DEFINE r == m % w
  <2> HIDE DEF r
  <2>5. r \in 0 .. w - 1 /\ Turn(local, i) = IF i > w THEN i ELSE 1 + r
    BY <2>3, <2>4 DEF r
  <2> QED BY <2>2, <2>5
<1>4. ASSUME NEW i \in Nat, i > n PROVE Turn(local, i) = i
  <2>1. i > LocalWidth[local]
    BY <1>1, <1>4
  <2> QED BY <2>1 DEF Turn
<1> QED BY <1>3, <1>4

\* apply_local_opcode on any sequence that is long enough.
LEMMA LocalTurns ==
  ASSUME NEW Items, NEW s \in Seq(Items), NEW local \in Locals
  PROVE  /\ LocalWidth[local] > Len(s) => ApplyLocal(s, local) = <<>>
         /\ LocalWidth[local] <= Len(s) => ApplyLocal(s, local) = [i \in 1 .. Len(s) |-> s[Turn(local, i)]]
<1>1. DOMAIN s = 1 .. Len(s) /\ Len(s) \in Nat
  BY LenProperties
<1>2. ASSUME LocalWidth[local] > Len(s) PROVE ApplyLocal(s, local) = <<>>
  <2>1. LocalWidth[local] \in Nat
    BY DEF Locals, LocalWidth
  <2> QED BY <1>1, <1>2, <2>1 DEF ApplyLocal
<1>3. ASSUME LocalWidth[local] <= Len(s)
      PROVE  ApplyLocal(s, local) = [i \in 1 .. Len(s) |-> s[Turn(local, i)]]
  <2>0. LocalWidth[local] \in Nat /\ ~ (Len(s) < LocalWidth[local])
    BY <1>1, <1>3 DEF Locals, LocalWidth
  <2>1. ApplyLocal(s, local) = RotateLeft(s, LocalWidth[local], By[local])
    <3>1. CASE local = "Swap"
      BY <2>0, <3>1 DEF ApplyLocal, LocalWidth, By
    <3>2. CASE local = "Rot"
      BY <2>0, <3>2 DEF ApplyLocal, LocalWidth, By
    <3>3. CASE local = "TwoSwap"
      BY <2>0, <3>3 DEF ApplyLocal, LocalWidth, By
    <3>4. CASE local = "TwoRot"
      BY <2>0, <3>4 DEF ApplyLocal, LocalWidth, By
    <3> QED BY <3>1, <3>2, <3>3, <3>4 DEF Locals
  <2>2. \A i \in 1 .. Len(s) : (IF i > LocalWidth[local] THEN s[i]
                                ELSE s[1 + ((i + By[local] - 1) % LocalWidth[local])]) = s[Turn(local, i)]
    BY Zenon DEF Turn
  <2> QED BY <1>1, <2>1, <2>2 DEF RotateLeft
<1> QED BY <1>2, <1>3

\* The engine's opcode does to the whole stack what the search takes it to do.
LEMMA LocalsAreOpcodes ==
  ASSUME NEW Items, NEW s \in Seq(Items), NEW local \in Locals, LocalWidth[local] <= Len(s)
  PROVE  /\ OpName(local) \in PlainOpcodes /\ Width(OpName(local)) = LocalWidth[local]
         /\ Shuffle(OpName(local), 0, s) \in Seq(Items)
         /\ Len(Shuffle(OpName(local), 0, s)) = Len(s)
         /\ \A i \in 1 .. Len(s) : Shuffle(OpName(local), 0, s)[i] = s[Turn(local, i)]
<1>0. Len(s) \in Nat /\ \A i \in 1 .. Len(s) : s[i] \in Items
  BY LenProperties, ElementOfSeq
<1>1. CASE local = "Swap"
  <2> DEFINE t == <<s[2], s[1]>>
  <2>1. OpName(local) = "Swap" /\ LocalWidth[local] = 2 /\ Width("Swap") = 2 /\ 2 <= Len(s)
    BY <1>1 DEF OpName, LocalWidth, Width, Needed
  <2>2. t \in Seq(Items) /\ Len(t) = 2 /\ t[1] = s[2] /\ t[2] = s[1]
    BY <1>0, <2>1
  <2>3. Shuffle("Swap", 0, s) = t \o Below(s, 2)
    BY DEF Shuffle
  <2> HIDE DEF t
  <2>4. /\ t \o Below(s, 2) \in Seq(Items) /\ Len(t \o Below(s, 2)) = Len(s)
        /\ \A i \in 1 .. Len(s) : (t \o Below(s, 2))[i] = IF i <= 2 THEN t[i] ELSE s[i]
    <3>1. t \in Seq(Items) /\ Len(t) <= Len(s)
      BY <2>1, <2>2
    <3>2. /\ t \o Below(s, Len(t)) \in Seq(Items) /\ Len(t \o Below(s, Len(t))) = Len(s)
          /\ \A i \in 1 .. Len(s) : (t \o Below(s, Len(t)))[i] = IF i <= Len(t) THEN t[i] ELSE s[i]
      BY <3>1, TopReplaced
    <3> QED BY <2>2, <3>2
  <2>5. \A i \in 1 .. Len(s) : (i <= 2 => i \in {1, 2}) /\ (~ (i <= 2) => Turn(local, i) = i)
    BY <2>1 DEF Turn
  <2>6. \A i \in 1 .. Len(s) : (t \o Below(s, 2))[i] = s[Turn(local, i)]
    BY <1>1, <2>2, <2>4, <2>5, TurnTable
  <2> QED BY <2>1, <2>3, <2>4, <2>6 DEF PlainOpcodes
<1>2. CASE local = "Rot"
  <2> DEFINE t == <<s[3], s[1], s[2]>>
  <2>1. OpName(local) = "Rot" /\ LocalWidth[local] = 3 /\ Width("Rot") = 3 /\ 3 <= Len(s)
    BY <1>2 DEF OpName, LocalWidth, Width, Needed
  <2>2. t \in Seq(Items) /\ Len(t) = 3 /\ t[1] = s[3] /\ t[2] = s[1] /\ t[3] = s[2]
    BY <1>0, <2>1
  <2>3. Shuffle("Rot", 0, s) = t \o Below(s, 3)
    BY DEF Shuffle
  <2> HIDE DEF t
  <2>4. /\ t \o Below(s, 3) \in Seq(Items) /\ Len(t \o Below(s, 3)) = Len(s)
        /\ \A i \in 1 .. Len(s) : (t \o Below(s, 3))[i] = IF i <= 3 THEN t[i] ELSE s[i]
    <3>1. t \in Seq(Items) /\ Len(t) <= Len(s)
      BY <2>1, <2>2
    <3>2. /\ t \o Below(s, Len(t)) \in Seq(Items) /\ Len(t \o Below(s, Len(t))) = Len(s)
          /\ \A i \in 1 .. Len(s) : (t \o Below(s, Len(t)))[i] = IF i <= Len(t) THEN t[i] ELSE s[i]
      BY <3>1, TopReplaced
    <3> QED BY <2>2, <3>2
  <2>5. \A i \in 1 .. Len(s) : (i <= 3 => i \in {1, 2, 3}) /\ (~ (i <= 3) => Turn(local, i) = i)
    BY <2>1 DEF Turn
  <2>6. \A i \in 1 .. Len(s) : (t \o Below(s, 3))[i] = s[Turn(local, i)]
    BY <1>2, <2>2, <2>4, <2>5, TurnTable
  <2> QED BY <2>1, <2>3, <2>4, <2>6 DEF PlainOpcodes
<1>3. CASE local = "TwoSwap"
  <2> DEFINE t == <<s[3], s[4], s[1], s[2]>>
  <2>1. OpName(local) = "2Swap" /\ LocalWidth[local] = 4 /\ Width("2Swap") = 4 /\ 4 <= Len(s)
    BY <1>3 DEF OpName, LocalWidth, Width
  <2>2. t \in Seq(Items) /\ Len(t) = 4 /\ t[1] = s[3] /\ t[2] = s[4] /\ t[3] = s[1] /\ t[4] = s[2]
    BY <1>0, <2>1
  <2>3. Shuffle("2Swap", 0, s) = t \o Below(s, 4)
    BY DEF Shuffle
  <2> HIDE DEF t
  <2>4. /\ t \o Below(s, 4) \in Seq(Items) /\ Len(t \o Below(s, 4)) = Len(s)
        /\ \A i \in 1 .. Len(s) : (t \o Below(s, 4))[i] = IF i <= 4 THEN t[i] ELSE s[i]
    <3>1. t \in Seq(Items) /\ Len(t) <= Len(s)
      BY <2>1, <2>2
    <3>2. /\ t \o Below(s, Len(t)) \in Seq(Items) /\ Len(t \o Below(s, Len(t))) = Len(s)
          /\ \A i \in 1 .. Len(s) : (t \o Below(s, Len(t)))[i] = IF i <= Len(t) THEN t[i] ELSE s[i]
      BY <3>1, TopReplaced
    <3> QED BY <2>2, <3>2
  <2>5. \A i \in 1 .. Len(s) : (i <= 4 => i \in {1, 2, 3, 4}) /\ (~ (i <= 4) => Turn(local, i) = i)
    BY <2>1 DEF Turn
  <2>6. \A i \in 1 .. Len(s) : (t \o Below(s, 4))[i] = s[Turn(local, i)]
    BY <1>3, <2>2, <2>4, <2>5, TurnTable
  <2> QED BY <2>1, <2>3, <2>4, <2>6 DEF PlainOpcodes
<1>4. CASE local = "TwoRot"
  <2> DEFINE t == <<s[5], s[6], s[1], s[2], s[3], s[4]>>
  <2>1. OpName(local) = "2Rot" /\ LocalWidth[local] = 6 /\ Width("2Rot") = 6 /\ 6 <= Len(s)
    BY <1>4 DEF OpName, LocalWidth, Width
  <2>2. /\ t \in Seq(Items) /\ Len(t) = 6
        /\ t[1] = s[5] /\ t[2] = s[6] /\ t[3] = s[1] /\ t[4] = s[2] /\ t[5] = s[3] /\ t[6] = s[4]
    BY <1>0, <2>1
  <2>3. Shuffle("2Rot", 0, s) = t \o Below(s, 6)
    BY DEF Shuffle
  <2> HIDE DEF t
  <2>4. /\ t \o Below(s, 6) \in Seq(Items) /\ Len(t \o Below(s, 6)) = Len(s)
        /\ \A i \in 1 .. Len(s) : (t \o Below(s, 6))[i] = IF i <= 6 THEN t[i] ELSE s[i]
    <3>1. t \in Seq(Items) /\ Len(t) <= Len(s)
      BY <2>1, <2>2
    <3>2. /\ t \o Below(s, Len(t)) \in Seq(Items) /\ Len(t \o Below(s, Len(t))) = Len(s)
          /\ \A i \in 1 .. Len(s) : (t \o Below(s, Len(t)))[i] = IF i <= Len(t) THEN t[i] ELSE s[i]
      BY <3>1, TopReplaced
    <3> QED BY <2>2, <3>2
  <2>5. \A i \in 1 .. Len(s) : (i <= 6 => i \in {1, 2, 3, 4, 5, 6}) /\ (~ (i <= 6) => Turn(local, i) = i)
    BY <2>1 DEF Turn
  <2>6. \A i \in 1 .. Len(s) : (t \o Below(s, 6))[i] = s[Turn(local, i)]
    BY <1>4, <2>2, <2>4, <2>5, TurnTable
  <2> QED BY <2>1, <2>3, <2>4, <2>6 DEF PlainOpcodes
<1> QED BY <1>1, <1>2, <1>3, <1>4 DEF Locals
\* One opcode of a plan on the machine.
LEMMA LocalRuns ==
  ASSUME NEW Items, NEW s \in Seq(Items), NEW alt, NEW local \in Locals, LocalWidth[local] <= Len(s)
  PROVE  \E u \in Seq(Items) :
            /\ Len(u) = Len(s) /\ \A i \in 1 .. Len(s) : u[i] = s[Turn(local, i)]
            /\ Ops(<<OpName(local)>>) \in Seq(Instructions)
            /\ Runs(Ops(<<OpName(local)>>), Machine(s, alt), Machine(u, alt))
<1> DEFINE op == OpName(local)
           u == Shuffle(op, 0, s)
<1>1. /\ op \in PlainOpcodes /\ Width(op) <= Len(s) /\ u \in Seq(Items) /\ Len(u) = Len(s)
      /\ \A i \in 1 .. Len(s) : u[i] = s[Turn(local, i)]
  BY LocalsAreOpcodes
<1> HIDE DEF op
<1>2. Ops(<<op>>) \in Seq(Instructions) /\ Runs(Ops(<<op>>), Machine(s, alt), Machine(u, alt))
  BY <1>1, OneOpcode
<1> HIDE DEF u
<1> QED BY <1>1, <1>2 DEF op

\* The searched plans are one opcode, or one and another.
LEMMA PlansListed ==
  ASSUME NEW k \in DOMAIN LocalPlans
  PROVE  /\ k \in Nat
         /\ \/ \E a \in Locals : LocalPlans[k] = <<a>>
            \/ \E a, b \in Locals : LocalPlans[k] = <<a, b>>
<1> DEFINE one == [j \in 1 .. 4 |-> <<LocalOps[j]>>]
           two == [j \in 1 .. 16 |-> <<LocalOps[(j - 1) \div 4 + 1], LocalOps[((j - 1) % 4) + 1]>>]
           Plans == {<<a>> : a \in Locals} \cup {<<a, b>> : a, b \in Locals}
<1>1. \A j \in 1 .. 4 : LocalOps[j] \in Locals
  BY DEF LocalOps, Locals
<1>2. one \in Seq(Plans) /\ Len(one) = 4
  BY <1>1
<1>3. two \in Seq(Plans) /\ Len(two) = 16
  <2>1. \A j \in 1 .. 16 : (j - 1) \div 4 + 1 \in 1 .. 4 /\ ((j - 1) % 4) + 1 \in 1 .. 4
    OBVIOUS
  <2>2. \A j \in 1 .. 16 : <<LocalOps[(j - 1) \div 4 + 1], LocalOps[((j - 1) % 4) + 1]>> \in Plans
    <3> SUFFICES ASSUME NEW j \in 1 .. 16
                 PROVE  <<LocalOps[(j - 1) \div 4 + 1], LocalOps[((j - 1) % 4) + 1]>> \in Plans
      OBVIOUS
    <3> DEFINE a == LocalOps[(j - 1) \div 4 + 1]
               b == LocalOps[((j - 1) % 4) + 1]
    <3>1. a \in Locals /\ b \in Locals
      BY <1>1, <2>1
    <3> HIDE DEF a, b
    <3>2. <<a, b>> \in Plans
      BY <3>1
    <3> QED BY <3>2 DEF a, b
  <2> HIDE DEF Plans
  <2>3. two \in [1 .. 16 -> Plans]
    BY <2>2
  <2> HIDE DEF one, two
  <2>4. ASSUME NEW m \in Nat, NEW f \in [1 .. m -> Plans] PROVE f \in Seq(Plans) /\ Len(f) = m
    OBVIOUS
  <2> QED BY <2>3, <2>4
<1>4. LocalPlans = one \o two
  BY DEF LocalPlans
<1> HIDE DEF one, two, Plans
<1>5. LocalPlans \in Seq(Plans)
  BY <1>2, <1>3, <1>4, ConcatProperties
<1>6. k \in 1 .. Len(LocalPlans) /\ Len(LocalPlans) \in Nat
  BY <1>5, LenProperties
<1>7. LocalPlans[k] \in Plans
  BY <1>5, <1>6, ElementOfSeq
<1> QED BY <1>6, <1>7 DEF Plans

PlanCode(k) == [j \in DOMAIN LocalPlans[k] |-> Op(OpName(LocalPlans[k][j]))]

\* local_stack_reordering_opcodes: a plan that makes p of the positions moves the slots of
\* any stack as p says, and nothing below them.
LEMMA PlansReach ==
  ASSUME NEW Items, NEW s \in Seq(Items), NEW alt, NEW p \in Seq(Nat), 0 < Len(p), Len(p) <= Len(s),
         NEW k \in Planned(p)
  PROVE  \E u \in Seq(Items) :
            /\ Len(u) = Len(s) /\ \A i \in 1 .. Len(p) : p[i] \in 1 .. Len(p) /\ u[i] = s[p[i]]
            /\ \A i \in 1 .. Len(s) : i > Len(p) => u[i] = s[i]
            /\ Runs(PlanCode(k), Machine(s, alt), Machine(u, alt))
<1> DEFINE n == Len(p)
           plan == LocalPlans[k]
           id == [i \in 1 .. n |-> i]
           code == [j \in DOMAIN plan |-> Op(OpName(plan[j]))]
           Goal(u) == /\ Len(u) = Len(s) /\ \A i \in 1 .. n : p[i] \in 1 .. n /\ u[i] = s[p[i]]
                      /\ \A i \in 1 .. Len(s) : i > n => u[i] = s[i]
                      /\ Runs(code, Machine(s, alt), Machine(u, alt))
<1>0. Len(s) \in Nat /\ n \in Nat /\ 0 < n /\ n <= Len(s) /\ DOMAIN p = 1 .. n /\ p # <<>>
  BY LenProperties, EmptySeq
<1>1. id \in Seq(Nat) /\ Len(id) = n /\ \A i \in 1 .. n : id[i] = i
  <2> HIDE DEF n
  <2> QED BY <1>0
<1>2. p = PlanResult(plan, id) /\ k \in DOMAIN LocalPlans
  <2> HIDE DEF n
  <2> QED BY <1>0 DEF Planned
<1> HIDE DEF id, plan, n
<1>3. ASSUME NEW a \in Locals, LocalWidth[a] <= n
      PROVE  /\ ApplyLocal(id, a) \in Seq(Nat) /\ Len(ApplyLocal(id, a)) = n
             /\ \A i \in 1 .. n : Turn(a, i) \in 1 .. n /\ ApplyLocal(id, a)[i] = Turn(a, i)
             /\ \A i \in 1 .. Len(s) : i > n => Turn(a, i) = i
             /\ LocalWidth[a] <= Len(s)
  <2>1. /\ \A i \in 1 .. n : Turn(a, i) \in 1 .. n
        /\ \A i \in 1 .. Len(s) : i > n => Turn(a, i) = i
    BY <1>0, <1>3, TurnsStay
  <2> DEFINE q == ApplyLocal(id, a)
  <2>2. q = [i \in 1 .. n |-> id[Turn(a, i)]]
    BY <1>1, <1>3, LocalTurns
  <2> HIDE DEF q
  <2>3. q \in [1 .. n -> Nat] /\ \A i \in 1 .. n : q[i] = Turn(a, i)
    BY <1>1, <2>1, <2>2
  <2>4. q \in Seq(Nat) /\ Len(q) = n
    BY <1>0, <2>3
  <2>5. LocalWidth[a] <= Len(s)
    <3>1. LocalWidth[a] \in Nat
      BY DEF Locals, LocalWidth
    <3> QED BY <1>0, <1>3, <3>1
  <2> QED BY <2>1, <2>3, <2>4, <2>5 DEF q
<1>4. ASSUME NEW a \in Locals PROVE LocalWidth[a] \in Nat /\ LocalWidth[a] > 0 /\ ApplyLocal(<<>>, a) = <<>>
  <2>1. LocalWidth[a] \in Nat /\ LocalWidth[a] > 0
    BY DEF Locals, LocalWidth
  <2> QED BY <2>1 DEF ApplyLocal
<1>5. ASSUME NEW a \in Locals, plan = <<a>> PROVE \E u \in Seq(Items) : Goal(u)
  <2>1. p = ApplyLocal(id, a)
    BY <1>2, <1>5 DEF PlanResult
  <2>2. LocalWidth[a] <= n
    BY <1>1, <1>4, <2>1, LocalTurns
  <2>3. code = Ops(<<OpName(a)>>)
    <3>1. code = [j \in {1} |-> Op(OpName(a))]
      BY <1>5
    <3>2. Ops(<<OpName(a)>>) = [j \in {1} |-> Op(OpName(a))]
      BY DEF Ops
    <3> QED BY <3>1, <3>2
  <2> HIDE DEF code
  <2>4. PICK u \in Seq(Items) : /\ Len(u) = Len(s) /\ \A i \in 1 .. Len(s) : u[i] = s[Turn(a, i)]
                                /\ Runs(Ops(<<OpName(a)>>), Machine(s, alt), Machine(u, alt))
    BY <1>3, <2>2, LocalRuns
  <2>5. \A i \in 1 .. n : i \in 1 .. Len(s)
    BY <1>0
  <2>6. Goal(u)
    BY <1>3, <2>1, <2>2, <2>3, <2>4, <2>5
  <2> QED BY <2>6
<1>6. ASSUME NEW a \in Locals, NEW b \in Locals, plan = <<a, b>> PROVE \E u \in Seq(Items) : Goal(u)
  <2> DEFINE q == ApplyLocal(id, a)
  <2>1. p = ApplyLocal(q, b)
    BY <1>2, <1>6 DEF PlanResult
  <2>2. LocalWidth[a] <= n
    BY <1>1, <1>4, <2>1, LocalTurns
  <2>3. /\ q \in Seq(Nat) /\ Len(q) = n /\ \A i \in 1 .. n : q[i] = Turn(a, i)
    BY <1>3, <2>2
  <2> HIDE DEF q
  <2>4. LocalWidth[b] <= n
    BY <1>4, <2>1, <2>3, LocalTurns
  <2>5. \A i \in 1 .. n : p[i] = Turn(a, Turn(b, i)) /\ p[i] \in 1 .. n /\ Turn(b, i) \in 1 .. n
    <3>1. p = [i \in 1 .. n |-> q[Turn(b, i)]]
      BY <2>1, <2>3, <2>4, LocalTurns
    <3> SUFFICES ASSUME NEW i \in 1 .. n
                 PROVE  p[i] = Turn(a, Turn(b, i)) /\ p[i] \in 1 .. n /\ Turn(b, i) \in 1 .. n
      OBVIOUS
    <3> DEFINE m == Turn(b, i)
    <3>2. m \in 1 .. n
      BY <1>3, <2>4
    <3>3. p[i] = q[m]
      BY <3>1
    <3> HIDE DEF m
    <3>4. q[m] = Turn(a, m) /\ Turn(a, m) \in 1 .. n
      BY <1>3, <2>2, <2>3, <3>2
    <3> QED BY <3>2, <3>3, <3>4 DEF m
  <2>6. code = Ops(<<OpName(a), OpName(b)>>)
    <3>1. code = <<Op(OpName(a)), Op(OpName(b))>>
      BY <1>6
    <3>2. Ops(<<OpName(a), OpName(b)>>) = <<Op(OpName(a)), Op(OpName(b))>>
      BY DEF Ops
    <3> QED BY <3>1, <3>2
  <2>7. Ops(<<OpName(a), OpName(b)>>) = Ops(<<OpName(a)>>) \o Ops(<<OpName(b)>>)
    <3>1. OpName(a) \in Opcodes /\ OpName(b) \in Opcodes
      BY DEF Locals, OpName, Opcodes, PlainOpcodes
    <3> QED BY <3>1, TwoOpcodes
  <2> HIDE DEF code
  <2>8. PICK t \in Seq(Items) : /\ Len(t) = Len(s) /\ \A i \in 1 .. Len(s) : t[i] = s[Turn(a, i)]
                                /\ Ops(<<OpName(a)>>) \in Seq(Instructions)
                                /\ Runs(Ops(<<OpName(a)>>), Machine(s, alt), Machine(t, alt))
    BY <1>3, <2>2, LocalRuns
  <2>9. PICK u \in Seq(Items) : /\ Len(u) = Len(t) /\ \A i \in 1 .. Len(t) : u[i] = t[Turn(b, i)]
                                /\ Ops(<<OpName(b)>>) \in Seq(Instructions)
                                /\ Runs(Ops(<<OpName(b)>>), Machine(t, alt), Machine(u, alt))
    BY <1>3, <2>4, <2>8, LocalRuns
  <2>10. Runs(code, Machine(s, alt), Machine(u, alt))
    BY <2>6, <2>7, <2>8, <2>9, RunsThen
  <2>11. \A i \in 1 .. n : i \in 1 .. Len(s)
    BY <1>0
  <2>12. \A i \in 1 .. n : u[i] = s[p[i]]
    BY <2>5, <2>8, <2>9, <2>11
  <2>13. \A i \in 1 .. Len(s) : i > n => u[i] = s[i]
    BY <1>3, <2>2, <2>4, <2>8, <2>9
  <2>14. Goal(u)
    BY <2>5, <2>8, <2>9, <2>10, <2>12, <2>13
  <2> QED BY <2>14
<1>7. \/ \E a \in Locals : plan = <<a>>
      \/ \E a, b \in Locals : plan = <<a, b>>
  BY <1>2, PlansListed DEF plan
<1>8. \E u \in Seq(Items) : Goal(u)
  <2> HIDE DEF Goal
  <2> QED BY <1>5, <1>6, <1>7
<1> QED BY <1>8 DEF plan, n, PlanCode
-----------------------------------------------------------------------------
\* Permutation::from_orders: the target's slots, each at its position in the current layout.
LEMMA PermutationPlaces ==
  ASSUME NEW N, NEW current \in Layouts(N), NEW target \in Layouts(N), Names(current) = Names(target),
         current # target
  PROVE  LET p == Permutation(current, target)
             n == Len(target)
         IN  /\ n \in Nat /\ 0 < n /\ Len(current) = n /\ p \in Seq(Nat) /\ Len(p) = n /\ DOMAIN p = 1 .. n
             /\ \A i \in 1 .. n : p[i] \in 1 .. n /\ p[i] = IndexOf(current, target[i]) /\ current[p[i]] = target[i]
<1> DEFINE p == Permutation(current, target)
           n == Len(target)
<1>1. n \in Nat /\ Len(current) = n /\ DOMAIN target = 1 .. n /\ target \in Seq(N) /\ current \in Seq(N)
  BY SameNamesSameLength, IndexOfName
<1>2. 0 < n
  <2>1. CASE n = 0
    <3>1. target = <<>> /\ current = <<>>
      BY <1>1, <2>1, EmptySeq
    <3> QED BY <3>1
  <2> QED BY <1>1, <2>1
<1>3. \A i \in 1 .. n : target[i] \in Names(current)
  <2>1. \A i \in 1 .. Len(target) : target[i] \in Names(target)
    BY IndexOfName
  <2> QED BY <2>1
<1>4. \A i \in 1 .. n : /\ IndexOf(current, target[i]) \in 1 .. n
                        /\ current[IndexOf(current, target[i])] = target[i]
  <2>1. \A x \in Names(current) : IndexOf(current, x) \in 1 .. Len(current) /\ current[IndexOf(current, x)] = x
    BY IndexOfName
  <2> QED BY <1>1, <1>3, <2>1
<1>5. p = [i \in 1 .. n |-> IndexOf(current, target[i])]
  BY <1>1 DEF Permutation
<1> HIDE DEF p, n
<1>6. p \in [1 .. n -> Nat] /\ \A i \in 1 .. n : p[i] = IndexOf(current, target[i])
  BY <1>1, <1>4, <1>5
<1>7. p \in Seq(Nat) /\ Len(p) = n /\ DOMAIN p = 1 .. n
  BY <1>1, <1>6
<1> QED BY <1>1, <1>2, <1>4, <1>6, <1>7 DEF p, n

\* A plan found by the search takes the stack of the one layout to that of the other.
LEMMA PlannedReorders ==
  ASSUME NEW N, NEW Items, NEW current \in Layouts(N), NEW target \in Layouts(N),
         Names(current) = Names(target), current # target,
         NEW v \in Values(N, Items), NEW below \in Seq(Items), NEW alt,
         NEW k \in Planned(Permutation(current, target))
  PROVE  Runs(PlanCode(k), Machine(Stacked(current, v, below), alt), Machine(Stacked(target, v, below), alt))
<1> DEFINE p == Permutation(current, target)
           n == Len(target)
           s == Stacked(current, v, below)
           t == Stacked(target, v, below)
<1>1. /\ n \in Nat /\ 0 < n /\ Len(current) = n /\ p \in Seq(Nat) /\ Len(p) = n /\ DOMAIN p = 1 .. n
      /\ \A i \in 1 .. n : p[i] \in 1 .. n /\ current[p[i]] = target[i]
  BY PermutationPlaces
<1>2. k \in Planned(p)
  OBVIOUS
<1>3. current \in Seq(N) /\ target \in Seq(N) /\ Len(below) \in Nat
  BY IndexOfName, LenProperties
<1>4. s \in Seq(Items) /\ Len(s) = n + Len(below) /\ t \in Seq(Items) /\ Len(t) = n + Len(below)
  BY <1>1, <1>3, StackIsStack
<1>5. \A i \in 1 .. n + Len(below) :
         /\ s[i] = IF i <= n THEN v[current[i]] ELSE below[i - n]
         /\ t[i] = IF i <= n THEN v[target[i]] ELSE below[i - n]
  BY <1>1 DEF Stacked
<1> HIDE DEF p, n, s, t
<1>7. Len(p) <= Len(s) /\ 0 < Len(p)
  BY <1>1, <1>3, <1>4
<1>8. PICK u \in Seq(Items) :
            /\ Len(u) = Len(s) /\ \A i \in 1 .. n : p[i] \in 1 .. n /\ u[i] = s[p[i]]
            /\ \A i \in 1 .. Len(s) : i > n => u[i] = s[i]
            /\ Runs(PlanCode(k), Machine(s, alt), Machine(u, alt))
  <2>1. \E u \in Seq(Items) :
            /\ Len(u) = Len(s) /\ \A i \in 1 .. Len(p) : p[i] \in 1 .. Len(p) /\ u[i] = s[p[i]]
            /\ \A i \in 1 .. Len(s) : i > Len(p) => u[i] = s[i]
            /\ Runs(PlanCode(k), Machine(s, alt), Machine(u, alt))
    BY <1>1, <1>2, <1>4, <1>7, PlansReach
  <2> QED BY <1>1, <2>1
<1>9. ASSUME NEW i \in 1 .. n + Len(below) PROVE u[i] = t[i]
  <2>1. CASE i <= n
    <3> DEFINE j == p[i]
    <3>1. i \in 1 .. n /\ j \in 1 .. n + Len(below) /\ j <= n
      BY <1>1, <1>3, <2>1
    <3>2. current[j] = target[i] /\ u[i] = s[j]
      BY <1>1, <1>8, <3>1
    <3> HIDE DEF j
    <3>3. s[j] = v[current[j]] /\ t[i] = v[target[i]]
      BY <1>5, <2>1, <3>1
    <3> QED BY <3>2, <3>3
  <2>2. CASE i > n
    <3>1. ~ (i <= n)
      BY <1>1, <2>2
    <3> QED BY <1>4, <1>5, <1>8, <2>2, <3>1
  <2> QED BY <1>1, <2>1, <2>2
<1>10. u = t
  BY <1>4, <1>8, <1>9, SeqEqual
<1> QED BY <1>8, <1>10 DEF s, t

-----------------------------------------------------------------------------
\* longest_keepable_suffix_start: the positions after the moved prefix increase.
LEMMA KeptSuffix ==
  ASSUME NEW p \in Seq(Nat), 0 < Len(p)
  PROVE  /\ MovedPrefix(p) \in 0 .. Len(p) - 1
         /\ \A i, j \in MovedPrefix(p) + 1 .. Len(p) : i < j => p[i] < p[j]
<1> DEFINE n == Len(p)
           Kept(k) == \A i \in k + 1 .. n - 1 : p[i] < p[i + 1]
           Good == {k \in 0 .. n - 1 : Kept(k)}
           K == MovedPrefix(p)
<1>1. n \in Nat /\ 0 < n /\ \A i \in 1 .. n : p[i] \in Nat
  BY LenProperties, ElementOfSeq
<1> HIDE DEF n
<1>2. Good \in SUBSET Nat /\ n - 1 \in Good
  BY <1>1
<1>3. PICK m \in Good : \A k \in Good : m <= k
  <2> HIDE DEF Good
  <2> QED BY <1>2, LeastNat
<1>4. ASSUME m > 0 PROVE p[m] >= p[m + 1]
  <2>1. m - 1 \in 0 .. n - 1 /\ m - 1 \notin Good
    BY <1>1, <1>3, <1>4
  <2>2. PICK i \in (m - 1) + 1 .. n - 1 : ~ (p[i] < p[i + 1])
    BY <2>1
  <2>3. i = m
    <3>1. i \in m + 1 .. n - 1 => p[i] < p[i + 1]
      BY <1>3
    <3> QED BY <1>1, <1>3, <2>2, <3>1
  <2>4. p[m] \in Nat /\ p[m + 1] \in Nat
    BY <1>1, <1>4, <2>2, <2>3
  <2> QED BY <2>2, <2>3, <2>4
<1>5. K \in 0 .. n - 1 /\ Kept(K)
  <2>1. \E k \in 0 .. n - 1 : Kept(k) /\ (k > 0 => p[k] >= p[k + 1])
    BY <1>3, <1>4
  <2>2. K = CHOOSE k \in 0 .. n - 1 : Kept(k) /\ (k > 0 => p[k] >= p[k + 1])
    BY DEF MovedPrefix, n
  <2> HIDE DEF Kept, K
  <2> QED BY <2>1, <2>2
<1>6. ASSUME NEW i \in K + 1 .. n, NEW j \in K + 1 .. n, i < j PROVE p[i] < p[j]
  <2> DEFINE Bad == {h \in i + 1 .. n : ~ (p[i] < p[h])}
  <2> HIDE DEF K
  <2>1. CASE Bad = {}
    <3>1. j \in i + 1 .. n
      BY <1>1, <1>5, <1>6
    <3>2. j \notin Bad
      BY <2>1
    <3> QED BY <3>1, <3>2
  <2>2. CASE Bad # {}
    <3>1. Bad \in SUBSET Nat
      BY <1>1, <1>5
    <3>2. PICK h \in Bad : \A k \in Bad : h <= k
      <4> HIDE DEF Bad
      <4> QED BY <2>2, <3>1, LeastNat
    <3>3. h - 1 \in K + 1 .. n - 1 /\ (h - 1) + 1 = h
      BY <1>1, <1>5, <3>2
    <3>4. p[h - 1] < p[h]
      BY <1>5, <3>3
    <3>5. h - 1 = i \/ p[i] < p[h - 1]
      <4>1. h - 1 \notin Bad
        BY <1>1, <1>5, <3>2
      <4> QED BY <1>1, <1>5, <3>2, <4>1
    <3>6. p[i] \in Nat /\ p[h] \in Nat /\ p[h - 1] \in Nat
      BY <1>1, <1>5, <3>2, <3>3
    <3>7. ~ (p[i] < p[h])
      BY <3>2
    <3>8. CASE h - 1 = i
      BY <3>4, <3>7, <3>8
    <3>9. CASE p[i] < p[h - 1]
      BY <3>4, <3>6, <3>7, <3>9
    <3> QED BY <3>5, <3>8, <3>9
  <2> QED BY <2>1, <2>2
<1> QED BY <1>5, <1>6 DEF n

(* What of T follows its first k names, and those names as the alt stack has them. *)
Rest(T, k) == [i \in 1 .. Len(T) - k |-> T[k + i]]
Reversed(T, k) == [i \in 1 .. k |-> T[k + 1 - i]]

LEMMA PrefixIsSequence ==
  ASSUME NEW N, NEW T \in Seq(N), NEW k \in 0 .. Len(T)
  PROVE  /\ Rest(T, k) \in Seq(N) /\ Len(Rest(T, k)) = Len(T) - k
         /\ Reversed(T, k) \in Seq(N) /\ Len(Reversed(T, k)) = k
<1>1. Len(T) \in Nat /\ \A i \in 1 .. Len(T) : T[i] \in N
  BY LenProperties, ElementOfSeq
<1>2. ASSUME NEW m \in Nat, NEW f \in [1 .. m -> N] PROVE f \in Seq(N) /\ Len(f) = m
  OBVIOUS
<1>3. Rest(T, k) \in [1 .. Len(T) - k -> N] /\ Len(T) - k \in Nat
  BY <1>1 DEF Rest
<1>4. Reversed(T, k) \in [1 .. k -> N] /\ k \in Nat
  BY <1>1 DEF Reversed
<1> HIDE DEF Rest, Reversed
<1> QED BY <1>2, <1>3, <1>4

\* One name less in the rest is one name more in the prefix.
LEMMA PrefixMoves ==
  ASSUME NEW N, NEW T \in Seq(N), NEW k \in 1 .. Len(T)
  PROVE  OnTop(Rest(T, k - 1), T[k], Rest(T, k)) /\ OnTop(Reversed(T, k), T[k], Reversed(T, k - 1))
<1> DEFINE x == T[k]
           r == Rest(T, k)
           q == Rest(T, k - 1)
           a == Reversed(T, k - 1)
           b == Reversed(T, k)
<1>1. Len(T) \in Nat /\ x \in N /\ x = T[k] /\ k \in 0 .. Len(T) /\ k - 1 \in 0 .. Len(T)
  BY LenProperties, ElementOfSeq
<1>2. /\ r \in Seq(N) /\ Len(r) = Len(T) - k /\ q \in Seq(N) /\ Len(q) = Len(T) - (k - 1)
      /\ a \in Seq(N) /\ Len(a) = k - 1 /\ b \in Seq(N) /\ Len(b) = k
  BY <1>1, PrefixIsSequence
<1>3. /\ \A i \in 1 .. Len(T) - k : r[i] = T[k + i]
      /\ \A i \in 1 .. Len(T) - (k - 1) : q[i] = T[(k - 1) + i]
      /\ \A i \in 1 .. k - 1 : a[i] = T[(k - 1) + 1 - i]
      /\ \A i \in 1 .. k : b[i] = T[k + 1 - i]
  BY DEF Rest, Reversed
<1> HIDE DEF r, q, a, b, x
<1>4. q = <<x>> \o r
  <2> DEFINE u == <<x>> \o r
  <2>0. x \in N /\ r \in Seq(N)
    BY <1>1, <1>2
  <2>1. u \in Seq(N) /\ Len(u) = Len(r) + 1 /\ u[1] = x /\ \A i \in 1 .. Len(r) + 1 : i # 1 => u[i] = r[i - 1]
    BY <2>0, PushedSlots
  <2> HIDE DEF u
  <2>2. Len(u) = Len(q)
    BY <1>1, <1>2, <2>1
  <2>3. ASSUME NEW i \in 1 .. Len(q) PROVE q[i] = u[i]
    <3>1. CASE i = 1
      <4>1. (k - 1) + 1 = k /\ 1 \in 1 .. Len(T) - (k - 1)
        BY <1>1
      <4> QED BY <1>1, <1>3, <2>1, <3>1, <4>1
    <3>2. CASE i # 1
      <4>1. i - 1 \in 1 .. Len(T) - k /\ k + (i - 1) = (k - 1) + i /\ i \in 1 .. Len(r) + 1 /\ i \in 1 .. Len(T) - (k - 1)
        BY <1>1, <1>2, <3>2
      <4> QED BY <1>3, <2>1, <3>2, <4>1
    <3> QED BY <3>1, <3>2
  <2>4. q = u
    BY <1>2, <2>1, <2>2, <2>3, SeqEqual
  <2> QED BY <2>4 DEF u
<1>5. b = <<x>> \o a
  <2> DEFINE u == <<x>> \o a
  <2>0. x \in N /\ a \in Seq(N)
    BY <1>1, <1>2
  <2>1. u \in Seq(N) /\ Len(u) = Len(a) + 1 /\ u[1] = x /\ \A i \in 1 .. Len(a) + 1 : i # 1 => u[i] = a[i - 1]
    BY <2>0, PushedSlots
  <2> HIDE DEF u
  <2>2. Len(u) = Len(b)
    BY <1>1, <1>2, <2>1
  <2>3. ASSUME NEW i \in 1 .. Len(b) PROVE b[i] = u[i]
    <3>1. CASE i = 1
      <4>1. k + 1 - 1 = k /\ 1 \in 1 .. k
        BY <1>1
      <4> QED BY <1>1, <1>3, <2>1, <3>1, <4>1
    <3>2. CASE i # 1
      <4>1. i - 1 \in 1 .. k - 1 /\ (k - 1) + 1 - (i - 1) = k + 1 - i /\ i \in 1 .. Len(a) + 1 /\ i \in 1 .. k
        BY <1>1, <1>2, <3>2
      <4> QED BY <1>3, <2>1, <3>2, <4>1
    <3> QED BY <3>1, <3>2
  <2>4. b = u
    BY <1>2, <2>1, <2>2, <2>3, SeqEqual
  <2> QED BY <2>4 DEF u
<1> QED BY <1>4, <1>5 DEF OnTop, q, r, a, b, x

\* The lifted slots return: the last one lifted comes back first and ends up lowest.
LEMMA ReturnFromAlt ==
  ASSUME NEW N, NEW Items, NEW T \in Seq(N), NEW K \in 0 .. Len(T), NEW v \in Values(N, Items),
         NEW below \in Seq(Items), NEW alt \in Seq(Items)
  PROVE  LET back == [i \in 1 .. K |-> Op("FromAltStack")]
         IN  /\ back \in Seq(Instructions)
             /\ Runs(back, Machine(Stacked(Rest(T, K), v, below), Stacked(Reversed(T, K), v, alt)),
                     Machine(Stacked(T, v, below), alt))
<1> DEFINE back == [i \in 1 .. K |-> Op("FromAltStack")]
           at(k) == Machine(Stacked(Rest(T, k), v, below), Stacked(Reversed(T, k), v, alt))
           trace == [j \in 0 .. K |-> at(K - j)]
<1>0. Len(T) \in Nat /\ K \in Nat /\ K <= Len(T) /\ Len(alt) \in Nat
  BY LenProperties
<1>1. back \in Seq(Instructions) /\ Len(back) = K /\ \A i \in 1 .. K : back[i] = Op("FromAltStack")
  <2>1. Op("FromAltStack") \in Instructions
    BY OpcodesAreCode DEF Opcodes
  <2> DEFINE i == Op("FromAltStack")
  <2> HIDE DEF i
  <2>2. i \in Instructions => [h \in 1 .. K |-> i] \in Seq(Instructions) /\ Len([h \in 1 .. K |-> i]) = K
    BY <1>0
  <2> QED BY <2>1, <2>2 DEF i
<1>2. at(0) = Machine(Stacked(T, v, below), alt)
  <2>1. Rest(T, 0) = T
    <3>1. Rest(T, 0) \in Seq(N) /\ Len(Rest(T, 0)) = Len(T)
      BY <1>0, PrefixIsSequence
    <3>2. \A i \in 1 .. Len(T) : Rest(T, 0)[i] = T[i]
      BY <1>0 DEF Rest
    <3> QED BY <3>1, <3>2, SeqEqual
  <2>2. Stacked(Reversed(T, 0), v, alt) = alt
    <3>1. Reversed(T, 0) \in Seq(N) /\ Len(Reversed(T, 0)) = 0
      BY <1>0, PrefixIsSequence
    <3> DEFINE a == Stacked(Reversed(T, 0), v, alt)
    <3>2. a = [i \in 1 .. Len(alt) |-> alt[i]]
      BY <1>0, <3>1 DEF Stacked
    <3>3. a \in Seq(Items) /\ Len(a) = 0 + Len(alt)
      BY <3>1, StackIsStack
    <3> HIDE DEF a
    <3>4. a = alt
      BY <1>0, <3>2, <3>3, SeqEqual
    <3> QED BY <3>4 DEF a
  <2> QED BY <2>1, <2>2
<1>3. ASSUME NEW k \in 1 .. K
      PROVE  Enough(at(k), Op("FromAltStack")) /\ at(k - 1) = Effect(at(k), Op("FromAltStack"))
  <2> DEFINE x == T[k]
             y == v[x]
             r == Stacked(Rest(T, k), v, below)
             q == Stacked(Rest(T, k - 1), v, below)
             a == Stacked(Reversed(T, k - 1), v, alt)
             b == Stacked(Reversed(T, k), v, alt)
  <2>1. x \in N /\ k \in 0 .. Len(T) /\ k - 1 \in 0 .. Len(T) /\ k \in 1 .. Len(T)
    BY <1>0, ElementOfSeq
  <2>2. Rest(T, k) \in Seq(N) /\ Reversed(T, k - 1) \in Seq(N)
    BY <2>1, PrefixIsSequence
  <2>3. OnTop(Rest(T, k - 1), x, Rest(T, k)) /\ OnTop(Reversed(T, k), x, Reversed(T, k - 1))
    BY <2>1, PrefixMoves
  <2>4. OnTop(q, y, r)
    BY <2>1, <2>2, <2>3, StackWithName
  <2>5. OnTop(b, y, a)
    BY <2>1, <2>2, <2>3, StackWithName
  <2>6. a \in Seq(Items) /\ y \in Items
    <3>1. y \in Items
      BY <2>1 DEF Values
    <3> QED BY <2>2, <3>1, StackIsStack
  <2> HIDE DEF x, y, r, q, a, b
  <2>7. b \in Seq(Items) /\ Len(b) = Len(a) + 1 /\ b[1] = y /\ Below(b, 1) = a
    BY <2>5, <2>6, WhatIsPushed DEF OnTop
  <2>8. b # <<>>
    <3>1. Len(a) \in Nat
      BY <2>6, LenProperties
    <3>2. Len(b) # 0
      BY <2>7, <3>1
    <3> QED BY <3>2
  <2>9. Op("FromAltStack").op = "FromAltStack"
    BY DEF Op
  <2>10. Enough(Machine(r, b), Op("FromAltStack"))
    BY <2>8, <2>9 DEF Enough, Machine
  <2>11. Effect(Machine(r, b), Op("FromAltStack")) = Machine(q, a)
    BY <2>4, <2>7, <2>9 DEF Effect, Machine, OnTop
  <2> QED BY <2>10, <2>11 DEF r, b, q, a
<1> HIDE DEF at, back
<1>4. trace[0] = at(K) /\ trace[K] = at(0)
  <2>1. 0 \in 0 .. K /\ K \in 0 .. K /\ K - 0 = K /\ K - K = 0
    BY <1>0
  <2> QED BY <2>1
<1>5. ASSUME NEW j \in 1 .. K
      PROVE  Enough(trace[j - 1], back[j]) /\ trace[j] = Effect(trace[j - 1], back[j])
  <2> DEFINE k == K - (j - 1)
  <2>1. k \in 1 .. K /\ k - 1 = K - j /\ j \in 0 .. K /\ j - 1 \in 0 .. K
    BY <1>0
  <2>2. trace[j - 1] = at(k) /\ trace[j] = at(k - 1)
    BY <2>1
  <2> HIDE DEF k, trace
  <2> QED BY <1>1, <1>3, <2>1, <2>2
<1> HIDE DEF trace
<1>6. Runs(back, at(K), at(0))
  BY <1>1, <1>4, <1>5 DEF Runs
<1> QED BY <1>1, <1>2, <1>6 DEF at, back

(* The layout and the code once the first K names of T are lifted from L. *)
PrefixGone(a, N, L, T, K, v, below, alt) ==
  /\ Reached(a, N, L, {T[i] : i \in 1 .. K}, v, below, alt, Stacked(Reversed(T, K), v, alt))
  /\ RebuildPrefix(L, SubSeq(T, 1, K)) = a.code \o [i \in 1 .. K |-> Op("FromAltStack")]

\* The first names of the target, lifted one after the other.
LEMMA PrefixLifted ==
  ASSUME NEW N, NEW Items, Nat \subseteq Items, NEW L \in Layouts(N), NEW T \in Layouts(N), Names(T) \subseteq Names(L),
         NEW K \in 0 .. Len(T), NEW v \in Values(N, Items), NEW below \in Seq(Items), NEW alt \in Seq(Items)
  PROVE  \E a : PrefixGone(a, N, L, T, K, v, below, alt)
<1> DEFINE moved == SubSeq(T, 1, K)
           first == [layout |-> L, code |-> <<>>]
           gone(k) == {T[i] : i \in 1 .. k}
           lifted(k) == Stacked(Reversed(T, k), v, alt)
           Body(f) == [k \in 0 .. K |-> IF k = 0 THEN first ELSE MoveToAltStack(f[k - 1], moved[k])]
           all == [layout : Layouts(N), code : Seq(Instructions)]
           G == [k \in 0 .. K |-> {a \in all : Reached(a, N, L, gone(k), v, below, alt, lifted(k))}]
           step == [k \in 1 .. K |-> [a \in G[k - 1] |-> MoveToAltStack(a, moved[k])]]
           f == CHOOSE h : h = Body(h)
<1>1. /\ T \in Seq(N) /\ Len(T) \in Nat /\ K \in Nat /\ K <= Len(T) /\ Len(alt) \in Nat
      /\ \A i \in 1 .. Len(T) : T[i] \in N /\ T[i] \in Names(L)
      /\ \A i, j \in 1 .. Len(T) : T[i] = T[j] => i = j
  <2>1. T \in Seq(N) /\ Len(T) \in Nat /\ \A i \in 1 .. Len(T) : T[i] \in N /\ T[i] \in Names(T)
    BY IndexOfName
  <2> QED BY <2>1, LenProperties DEF Layouts
<1>2. moved \in Seq(N) /\ Len(moved) = K /\ DOMAIN moved = 1 .. K /\ \A i \in 1 .. K : moved[i] = T[i]
  <2>1. \A i \in 1 .. K : T[i] \in N
    BY <1>1
  <2>2. /\ moved \in Seq(N) /\ Len(moved) = IF 1 <= K THEN K - 1 + 1 ELSE 0
        /\ \A i \in 1 .. K - 1 + 1 : moved[i] = T[1 + i - 1]
    <3>1. 1 \in Int /\ K \in Int
      BY <1>1
    <3> QED BY <2>1, <3>1, SubSeqProperties
  <2> HIDE DEF moved
  <2>3. moved \in Seq(N) /\ Len(moved) = K /\ \A i \in 1 .. K : moved[i] = T[i]
    BY <1>1, <2>2
  <2> QED BY <2>3, LenProperties
<1>3. /\ gone(0) = {} /\ lifted(0) = alt
      /\ \A k \in 1 .. K : /\ gone(k) = gone(k - 1) \cup {T[k]} /\ T[k] \in Names(L) \ gone(k - 1)
                           /\ lifted(k) = <<v[T[k]]>> \o lifted(k - 1)
  <2>1. gone(0) = {}
    OBVIOUS
  <2>2. lifted(0) = alt
    <3>1. Reversed(T, 0) \in Seq(N) /\ Len(Reversed(T, 0)) = 0
      <4>1. 0 \in 0 .. Len(T)
        BY <1>1
      <4> QED BY <1>1, <4>1, PrefixIsSequence
    <3> DEFINE a == Stacked(Reversed(T, 0), v, alt)
    <3>2. a = [i \in 1 .. Len(alt) |-> alt[i]]
      BY <1>1, <3>1 DEF Stacked
    <3>3. a \in Seq(Items) /\ Len(a) = 0 + Len(alt)
      BY <3>1, StackIsStack
    <3> HIDE DEF a
    <3>4. a = alt
      BY <1>1, <3>2, <3>3, SeqEqual
    <3> QED BY <3>4 DEF a
  <2>3. ASSUME NEW k \in 1 .. K
        PROVE  /\ gone(k) = gone(k - 1) \cup {T[k]} /\ T[k] \in Names(L) \ gone(k - 1)
               /\ lifted(k) = <<v[T[k]]>> \o lifted(k - 1)
    <3>1. 1 .. k = (1 .. k - 1) \cup {k} /\ k \notin 1 .. k - 1 /\ k \in 1 .. Len(T) /\ k - 1 \in 0 .. Len(T)
      BY <1>1
    <3>2. \A j \in 1 .. k - 1 : j \in 1 .. Len(T)
      BY <1>1
    <3>3. gone(k) = gone(k - 1) \cup {T[k]} /\ T[k] \in Names(L) \ gone(k - 1)
      <4>1. T[k] \notin gone(k - 1)
        BY <1>1, <3>1, <3>2
      <4> QED BY <1>1, <3>1, <4>1
    <3> DEFINE x == T[k]
    <3>4. x \in N /\ Reversed(T, k - 1) \in Seq(N) /\ OnTop(Reversed(T, k), x, Reversed(T, k - 1))
      <4>1. Reversed(T, k - 1) \in Seq(N)
        BY <1>1, <3>1, PrefixIsSequence
      <4>2. OnTop(Reversed(T, k), x, Reversed(T, k - 1))
        BY <1>1, <3>1, PrefixMoves
      <4> QED BY <1>1, <3>1, <4>1, <4>2
    <3> HIDE DEF x
    <3>5. OnTop(Stacked(Reversed(T, k), v, alt), v[x], Stacked(Reversed(T, k - 1), v, alt))
      BY <3>4, StackWithName
    <3> QED BY <3>3, <3>5 DEF OnTop, x
  <2> QED BY <2>1, <2>2, <2>3
<1> HIDE DEF gone, lifted
<1>5. first \in all /\ \A k \in 0 .. K, a \in all : Reached(a, N, L, gone(k), v, below, alt, lifted(k)) => a \in G[k]
  <2>1. first \in all
    OBVIOUS
  <2> HIDE DEF all, first
  <2> QED BY <2>1
<1>6. first \in G[0]
  <2>1. Reached(first, N, L, gone(0), v, below, alt, lifted(0))
    <3>1. Reached(first, N, L, {}, v, below, alt, alt)
      BY ReachedAtFirst
    <3> HIDE DEF first
    <3> QED BY <1>3, <3>1
  <2> HIDE DEF G, first, all
  <2> QED BY <1>1, <1>5, <2>1
<1>7. ASSUME NEW k \in 1 .. K, NEW a, a \in G[k - 1] PROVE MoveToAltStack(a, moved[k]) \in G[k]
  <2>1. k - 1 \in 0 .. K /\ k \in 0 .. K
    BY <1>1
  <2>2. a \in all /\ Reached(a, N, L, gone(k - 1), v, below, alt, lifted(k - 1))
    <3> HIDE DEF all
    <3> QED BY <1>7, <2>1
  <2> HIDE DEF G
  <2> DEFINE x == T[k]
             b == MoveToAltStack(a, x)
  <2>3. /\ x \in Names(L) \ gone(k - 1) /\ gone(k) = gone(k - 1) \cup {x}
        /\ lifted(k) = <<v[x]>> \o lifted(k - 1)
    BY <1>3
  <2> HIDE DEF x
  <2>4. Reached(b, N, L, gone(k - 1) \cup {x}, v, below, alt, <<v[x]>> \o lifted(k - 1))
    BY <2>2, <2>3, ReachedNext
  <2>5. moved[k] = x
    BY <1>2 DEF x
  <2> HIDE DEF b
  <2>6. b \in all /\ Reached(b, N, L, gone(k), v, below, alt, lifted(k))
    <3>1. b \in all
      BY <2>4 DEF Reached
    <3> QED BY <2>3, <2>4, <3>1
  <2> HIDE DEF all
  <2>7. b \in G[k]
    BY <1>5, <2>1, <2>6
  <2> QED BY <2>5, <2>7 DEF b
<1> HIDE DEF moved
<1>8. PICK g : Staged(g, K, G, first, step)
  <2>1. \A k \in 1 .. K : \A a \in G[k - 1] : step[k][a] \in G[k]
    <3> HIDE DEF G
    <3> QED BY <1>7
  <2> HIDE DEF G, step, first
  <2> QED BY <1>1, <1>6, <2>1, StagedRecursion, Zenon
<1>9. g = Body(g)
  <2>1. ASSUME NEW k \in 1 .. K PROVE g[k] = MoveToAltStack(g[k - 1], moved[k])
    <3> HIDE DEF G
    <3> QED BY <1>8 DEF Staged
  <2> HIDE DEF G, step, first
  <2>2. \A k \in 0 .. K : k = 0 \/ k \in 1 .. K
    BY <1>1
  <2> QED BY <1>8, <2>1, <2>2 DEF Staged
<1>10. f = Body(f)
  <2> HIDE DEF Body
  <2> QED BY <1>9
<1>11. RebuildPrefix(L, moved) = f[K].code \o [i \in 1 .. K |-> Op("FromAltStack")]
  BY <1>2 DEF RebuildPrefix
<1> HIDE DEF f
<1>12. f[0] = first /\ \A k \in 1 .. K : f[k] = MoveToAltStack(f[k - 1], moved[k])
  <2> HIDE DEF first
  <2>1. \A k \in 0 .. K : f[k] = Body(f)[k]
    <3> HIDE DEF Body
    <3> QED BY <1>10
  <2>2. 0 \in 0 .. K /\ \A k \in 1 .. K : k \in 0 .. K /\ k # 0
    BY <1>1
  <2> QED BY <2>1, <2>2
<1>13. f[K] \in G[K]
  <2>1. \A k \in 1 .. K : f[k - 1] \in G[k - 1] => f[k] \in G[k]
    <3> HIDE DEF G, first
    <3> QED BY <1>7, <1>12
  <2>2. f[0] \in G[0]
    BY <1>6, <1>12
  <2> HIDE DEF G
  <2>3. \A k \in 0 .. K : f[k] \in G[k]
    BY <1>1, <2>1, <2>2, StagesHold
  <2>4. K \in 0 .. K
    BY <1>1
  <2> QED BY <2>3, <2>4
<1>14. Reached(f[K], N, L, gone(K), v, below, alt, lifted(K))
  <2>1. K \in 0 .. K
    BY <1>1
  <2> HIDE DEF all
  <2> QED BY <1>13, <2>1
<1>15. PrefixGone(f[K], N, L, T, K, v, below, alt)
  BY <1>11, <1>14 DEF gone, lifted, moved, PrefixGone
<1> QED BY <1>15
\* What follows the moved prefix is what stays, in the order it already has.
LEMMA RestStays ==
  ASSUME NEW N, NEW current \in Layouts(N), NEW target \in Layouts(N), Names(current) = Names(target),
         current # target
  PROVE  LET K == MovedPrefix(Permutation(current, target))
         IN  /\ K \in 0 .. Len(target) - 1 /\ Rest(target, K) \in Layouts(N)
             /\ Names(Rest(target, K)) = Names(current) \ {target[i] : i \in 1 .. K}
             /\ InOrder(Rest(target, K), current)
<1> DEFINE p == Permutation(current, target)
           n == Len(target)
           K == MovedPrefix(p)
           r == Rest(target, K)
<1>1. /\ n \in Nat /\ 0 < n /\ p \in Seq(Nat) /\ Len(p) = n
      /\ \A i \in 1 .. n : p[i] = IndexOf(current, target[i])
  BY PermutationPlaces
<1>2. target \in Seq(N) /\ \A i, j \in 1 .. n : target[i] = target[j] => i = j
  BY DEF Layouts
<1>3. Names(target) = {target[i] : i \in 1 .. n}
  BY IndexOfName DEF Names
<1> HIDE DEF p, n
<1>4. K \in 0 .. n - 1 /\ \A i, j \in K + 1 .. n : i < j => p[i] < p[j]
  BY <1>1, KeptSuffix
<1> HIDE DEF K
<1>5. r \in Seq(N) /\ Len(r) = n - K
  <2>1. K \in 0 .. Len(target)
    BY <1>1, <1>4 DEF n
  <2> QED BY <1>2, <2>1, PrefixIsSequence DEF n
<1>6. \A i \in 1 .. n - K : r[i] = target[K + i] /\ K + i \in K + 1 .. n /\ K + i \in 1 .. n
  <2>1. \A i \in 1 .. n - K : K + i \in K + 1 .. n /\ K + i \in 1 .. n
    BY <1>1, <1>4
  <2> QED BY <2>1 DEF Rest, n
<1> HIDE DEF r
<1>7. r \in Layouts(N)
  <2>1. ASSUME NEW i \in 1 .. n - K, NEW j \in 1 .. n - K, r[i] = r[j] PROVE i = j
    <3>1. K + i = K + j
      BY <1>2, <1>6, <2>1 DEF n
    <3> QED BY <1>1, <1>4, <3>1
  <2> QED BY <1>5, <2>1 DEF Layouts
<1>8. InOrder(r, current)
  <2>1. ASSUME NEW i \in 1 .. n - K, NEW j \in 1 .. n - K, i < j
        PROVE  IndexOf(current, r[i]) < IndexOf(current, r[j])
    <3>1. K + i < K + j /\ K + i \in K + 1 .. n /\ K + j \in K + 1 .. n
      BY <1>1, <1>4, <1>6, <2>1
    <3>2. p[K + i] < p[K + j]
      BY <1>4, <3>1
    <3> QED BY <1>1, <1>6, <3>2
  <2> QED BY <1>5, <2>1 DEF InOrder
<1>9. Names(r) = Names(target) \ {target[i] : i \in 1 .. K}
  <2>1. Names(r) = {r[i] : i \in 1 .. n - K}
    BY <1>5, <1>7, IndexOfName DEF Names
  <2>2. ASSUME NEW i \in 1 .. n - K PROVE r[i] \in Names(target) \ {target[h] : h \in 1 .. K}
    <3>1. ASSUME NEW h \in 1 .. K PROVE target[K + i] # target[h]
      <4>1. h \in 1 .. n /\ h # K + i
        BY <1>1, <1>4, <1>6
      <4> QED BY <1>2, <1>6, <4>1 DEF n
    <3> QED BY <1>3, <1>6, <3>1
  <2>3. ASSUME NEW i \in 1 .. n, target[i] \notin {target[h] : h \in 1 .. K}
        PROVE  \E j \in 1 .. n - K : r[j] = target[i]
    <3>1. i \notin 1 .. K
      BY <2>3
    <3>2. i - K \in 1 .. n - K /\ K + (i - K) = i
      BY <1>1, <1>4, <3>1
    <3> QED BY <1>6, <3>2
  <2> QED BY <1>3, <2>1, <2>2, <2>3
<1>10. K \in 0 .. Len(target) - 1
  BY <1>4 DEF n
<1> QED BY <1>7, <1>8, <1>9, <1>10 DEF r, K, p

\* emit_stack_reordering: for any two layouts of the same names, by a searched plan or by
\* lifting the prefix, the code takes the stack of the one to the stack of the other: every
\* name keeps its value, what lies below and on the alt stack is as it was, and no opcode
\* ever finds too few slots.
THEOREM ReorderingReaches ==
  ASSUME NEW N, NEW Items, Nat \subseteq Items, NEW current \in Layouts(N), NEW target \in Layouts(N),
         Names(current) = Names(target),
         NEW v \in Values(N, Items), NEW below \in Seq(Items), NEW alt \in Seq(Items)
  PROVE  Runs(Reordering(current, target),
              Machine(Stacked(current, v, below), alt), Machine(Stacked(target, v, below), alt))
<1> DEFINE p == Permutation(current, target)
           K == MovedPrefix(p)
           from == Machine(Stacked(current, v, below), alt)
           to == Machine(Stacked(target, v, below), alt)
<1>1. CASE current = target
  <2>1. Reordering(current, target) = <<>>
    BY <1>1 DEF Reordering
  <2> QED BY <1>1, <2>1, RunsNothing
<1>2. CASE current # target /\ Planned(p) # {}
  <2> DEFINE k == CHOOSE k \in Planned(p) : \A j \in Planned(p) : k <= j
  <2>1. Planned(p) \in SUBSET Nat
    BY PlansListed DEF Planned
  <2>2. \E m \in Planned(p) : \A j \in Planned(p) : m <= j
    <3> HIDE DEF p
    <3> QED BY <1>2, <2>1, LeastNat
  <2>3. k \in Planned(p)
    BY <2>2
  <2>4. Reordering(current, target) = PlanCode(k)
    BY <1>2 DEF Reordering, PlanCode
  <2> HIDE DEF k
  <2>5. Runs(PlanCode(k), from, to)
    BY <1>2, <2>3, PlannedReorders
  <2> QED BY <2>4, <2>5
<1>3. CASE current # target /\ Planned(p) = {}
  <2> DEFINE moved == {target[i] : i \in 1 .. K}
             back == [i \in 1 .. K |-> Op("FromAltStack")]
             lifted == Stacked(Reversed(target, K), v, alt)
             r == Rest(target, K)
  <2>1. K \in 0 .. Len(target) - 1 /\ r \in Layouts(N) /\ Names(r) = Names(current) \ moved /\ InOrder(r, current)
    BY <1>3, RestStays
  <2>2. Reordering(current, target) = RebuildPrefix(current, SubSeq(target, 1, K))
    BY <1>3 DEF Reordering
  <2> HIDE DEF K
  <2>3. target \in Seq(N) /\ Len(target) \in Nat /\ K \in 0 .. Len(target)
    BY <2>1, IndexOfName
  <2>4. PICK a : /\ Reached(a, N, current, moved, v, below, alt, lifted)
                 /\ RebuildPrefix(current, SubSeq(target, 1, K)) = a.code \o back
    <3>1. Names(target) \subseteq Names(current)
      OBVIOUS
    <3>2. PICK a : PrefixGone(a, N, current, target, K, v, below, alt)
      BY <2>3, <3>1, PrefixLifted
    <3> QED BY <3>2 DEF PrefixGone
  <2>5. /\ back \in Seq(Instructions)
        /\ Runs(back, Machine(Stacked(r, v, below), lifted), to)
    BY <2>3, ReturnFromAlt
  <2> HIDE DEF moved, back, lifted, r
  <2> DEFINE M == a.layout
             c == a.code
  <2>6. /\ M \in Layouts(N) /\ c \in Seq(Instructions) /\ Names(M) = Names(current) \ moved /\ InOrder(M, current)
        /\ Runs(c, from, Machine(Stacked(M, v, below), lifted))
    BY <2>4 DEF Reached
  <2>7. RebuildPrefix(current, SubSeq(target, 1, K)) = c \o back
    BY <2>4
  <2> HIDE DEF M, c
  <2>8. M = r
    BY <2>1, <2>6, SameOrderSameLayout
  <2>9. Runs(c \o back, from, to)
    <3> HIDE DEF from, to
    <3> QED BY <2>5, <2>6, <2>8, RunsThen
  <2> QED BY <2>2, <2>7, <2>9
<1> QED BY <1>1, <1>2, <1>3
=============================================================================
