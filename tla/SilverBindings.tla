--------------------------- MODULE SilverBindings ---------------------------
(***************************************************************************)
(* Which name sits at which depth of the script stack, and the opcodes the *)
(* compiler emits to copy, rebind, drop and reorder named slots.           *)
(*                                                                         *)
(* A layout is the sequence of the bound names, the top of the stack       *)
(* first, so that the depth of a name is its index less one.               *)
(***************************************************************************)
EXTENDS Integers, Sequences, SequencesExt

(* Instructions: an opcode, a number pushed in its shortest form, or data. *)
Op(name) == [op |-> name, n |-> 0, data |-> <<>>]
Ops(names) == [i \in DOMAIN names |-> Op(names[i])]
PushNum(n) == <<[op |-> "num", n |-> n, data |-> <<>>]>>
PushData(b) == <<[op |-> "data", n |-> 0, data |-> b]>>

(* What the node's stack opcodes do to a stack s; n is the number on top of it. *)
Below(s, k) == SubSeq(s, k + 1, Len(s))
Shuffle(op, n, s) ==
    CASE op = "Drop" -> Below(s, 1)
      [] op = "Nip" -> <<s[1]>> \o Below(s, 2)
      [] op = "Dup" -> <<s[1], s[1]>> \o Below(s, 1)
      [] op = "Over" -> <<s[2], s[1], s[2]>> \o Below(s, 2)
      [] op = "Swap" -> <<s[2], s[1]>> \o Below(s, 2)
      [] op = "Rot" -> <<s[3], s[1], s[2]>> \o Below(s, 3)
      [] op = "2Swap" -> <<s[3], s[4], s[1], s[2]>> \o Below(s, 4)
      [] op = "2Rot" -> <<s[5], s[6], s[1], s[2], s[3], s[4]>> \o Below(s, 6)
      [] op = "Pick" -> <<s[n + 2]>> \o Below(s, 1)
      [] op = "Roll" -> <<s[n + 2]>> \o SubSeq(s, 2, n + 1) \o Below(s, n + 2)

(* Short forms for the depths that have one. *)
DropFromDepth(depth) ==
    CASE depth = 0 -> Ops(<<"Drop">>)
      [] depth = 1 -> Ops(<<"Nip">>)
      [] depth = 2 -> Ops(<<"Rot", "Drop">>)
      [] OTHER -> PushNum(depth) \o Ops(<<"Roll", "Drop">>)

PickFromDepth(depth) ==
    CASE depth = 0 -> Ops(<<"Dup">>)
      [] depth = 1 -> Ops(<<"Over">>)
      [] OTHER -> PushNum(depth) \o Ops(<<"Pick">>)

RollFromDepth(depth) ==
    CASE depth = 0 -> <<>>
      [] depth = 1 -> Ops(<<"Swap">>)
      [] depth = 2 -> Ops(<<"Rot">>)
      [] OTHER -> PushNum(depth) \o Ops(<<"Roll">>)

Names(layout) == {layout[i] : i \in DOMAIN layout}
IndexOf(layout, name) == CHOOSE i \in DOMAIN layout : layout[i] = name
DepthOf(layout, name) == IndexOf(layout, name) - 1
PushBinding(layout, name) == <<name>> \o layout
Without(layout, name) == RemoveAt(layout, IndexOf(layout, name))
MoveToTop(layout, name) == <<name>> \o Without(layout, name)

(* A copy of a named slot, under the temporaries an expression has pushed. *)
CopyToTop(layout, name, temporaries) == PickFromDepth(DepthOf(layout, name) + temporaries)

(* A plausible bug: the slot is looked up as if the new value were not on top of it. *)
UpdateWithoutTheNewValue(layout, name) == DropFromDepth(DepthOf(layout, name))
(* The new value of name is on top: its old slot goes, and the name is the top. *)
UpdateForRebinding(layout, name) == DropFromDepth(DepthOf(layout, name) + 1)

(* Remove names, from the top of the stack down, one slot at a time. *)
DropSlot(a, name) == [layout |-> Without(a.layout, name),
                      code |-> a.code \o DropFromDepth(DepthOf(a.layout, name))]
DropBindings(layout, names) ==
    LET after[k \in 0 .. Len(layout)] ==
            IF k = 0 THEN [layout |-> layout, code |-> <<>>]
            ELSE IF layout[k] \in names THEN DropSlot(after[k - 1], layout[k]) ELSE after[k - 1]
    IN  after[Len(layout)]

(* Reordering: position i of the target takes position p[i] of the current stack. *)
Permutation(current, target) == [i \in DOMAIN target |-> IndexOf(current, target[i])]

RotateLeft(p, width, by) ==
    [i \in DOMAIN p |-> IF i > width THEN p[i] ELSE p[1 + ((i + by - 1) % width)]]
LocalWidth == [Swap |-> 2, Rot |-> 3, TwoSwap |-> 4, TwoRot |-> 6]
LocalOps == <<"Swap", "Rot", "TwoSwap", "TwoRot">>
OpName(local) == CASE local = "TwoSwap" -> "2Swap" [] local = "TwoRot" -> "2Rot" [] OTHER -> local

(* What one local opcode does to the top of a permutation; <<>> if the stack is too short. *)
ApplyLocal(p, local) ==
    IF Len(p) < LocalWidth[local] THEN <<>>
    ELSE CASE local = "Swap" -> RotateLeft(p, 2, 1)
           [] local = "Rot" -> RotateLeft(p, 3, 2)
           [] local = "TwoSwap" -> RotateLeft(p, 4, 2)
           [] local = "TwoRot" -> RotateLeft(p, 6, 4)

(* The searched plans, in the order the search meets them, and what each makes of a stack. *)
LocalPlans == [k \in 1 .. 4 |-> <<LocalOps[k]>>] \o
              [k \in 1 .. 16 |-> <<LocalOps[(k - 1) \div 4 + 1], LocalOps[((k - 1) % 4) + 1]>>]
PlanResult(plan, start) ==
    LET first == ApplyLocal(start, plan[1]) IN IF Len(plan) = 1 THEN first ELSE ApplyLocal(first, plan[2])
Planned(p) == {k \in DOMAIN LocalPlans : PlanResult(LocalPlans[k], [i \in DOMAIN p |-> i]) = p}

(* How many of the target's first slots must move: what follows them is in stack order already. *)
MovedPrefix(p) ==
    CHOOSE k \in 0 .. Len(p) - 1 :
        /\ \A i \in k + 1 .. Len(p) - 1 : p[i] < p[i + 1]
        /\ k > 0 => p[k] >= p[k + 1]

MoveToAltStack(a, name) == [layout |-> Without(a.layout, name),
                            code |-> a.code \o RollFromDepth(DepthOf(a.layout, name)) \o Ops(<<"ToAltStack">>)]
RebuildPrefix(current, moved) ==
    LET after[k \in 0 .. Len(moved)] ==
            IF k = 0 THEN [layout |-> current, code |-> <<>>] ELSE MoveToAltStack(after[k - 1], moved[k])
    IN  after[Len(moved)].code \o [i \in DOMAIN moved |-> Op("FromAltStack")]

Reordering(current, target) ==
    LET p == Permutation(current, target)
        plan == LocalPlans[CHOOSE k \in Planned(p) : \A j \in Planned(p) : k <= j]
    IN  IF current = target THEN <<>>
        ELSE IF Planned(p) # {} THEN [i \in DOMAIN plan |-> Op(OpName(plan[i]))]
        ELSE RebuildPrefix(current, SubSeq(target, 1, MovedPrefix(p)))
=============================================================================
