--------------------------- MODULE SilverRecorder ---------------------------
(***************************************************************************)
(* The debug records of a compilation: the steps that say which bytes of   *)
(* the script belong to which source statement, at which depth of inlined  *)
(* calls and in which frame.                                               *)
(*                                                                         *)
(* The inliner numbers the statements it puts out and notes for each call  *)
(* the numbers its body lies between (a plan).  Code generation numbers    *)
(* the statements it meets again, and a step is in the frame whose plan    *)
(* holds its number.  The two count apart from each other.                 *)
(*                                                                         *)
(* A source statement has a kind k: "def", "set", "require", "console",    *)
(* "call" (a statement that is only a call), "if", "loop" (n rounds with   *)
(* constant bounds) or "while" (at most n rounds, bounds known at run      *)
(* time); its span; the calls in its expressions in order; body and els.   *)
(* A call has the function f, a span, for each argument the calls in it,   *)
(* and the number of results it binds.                                     *)
(***************************************************************************)
EXTENDS Integers, SequencesExt

CONSTANT Functions          \* f |-> its body; the number of its parameters is that of the arguments

Statement(k, span) ==
    [k |-> k, span |-> span, calls |-> <<>>, body |-> <<>>, els |-> <<>>, n |-> 0, frame |-> 0]

(***************************************************************************)
(* The inliner's side.  st.out are the statements put out, st.index counts *)
(* them, st.open are the calls being inlined.                              *)
(***************************************************************************)
RECURSIVE SlotCount(_)
SlotCount(s) == FoldLeft(LAMBDA n, t : n + SlotCount(t), 1, s.body \o s.els)
(* A statement put out with the frame it is in. *)
RecordLowered(st, s) ==
    LET frame == IF st.open = <<>> THEN 0 ELSE Last(st.open).frame IN
    [st EXCEPT !.index = @ + SlotCount(s), !.out = Append(@, [s EXCEPT !.calls = <<>>, !.frame = frame])]
Define(st, span) == RecordLowered(st, Statement("def", span))
BeginInline(st, call) ==
    [st EXCEPT !.open = Append(@, [f |-> call.f, span |-> call.span, frame |-> st.next,
                                   depth |-> Len(st.open) + 1, start |-> st.index]),
               !.next = @ + 1]
FinishInline(st) ==
    LET call == Last(st.open) IN
    [st EXCEPT !.open = Front(@),
               !.plans = IF st.index <= call.start THEN @ ELSE Append(@, [stop |-> st.index] @@ call)]

RECURSIVE LowerStatement(_, _)
RECURSIVE CallInExpr(_, _)
LowerBlock(st, ss) == FoldLeft(LowerStatement, st, ss)
CallsIn(st, calls) == FoldLeft(CallInExpr, st, calls)
InlineCall(st, call, args) ==
    LET argument(a, calls) == Define(CallsIn(a, calls), call.span)
        result(a, i) == Define(a, call.span)
        entered == FoldLeft(argument, BeginInline(st, call), args)
        left == LowerBlock(entered, Functions[call.f])
    IN FinishInline(FoldLeft(result, left, [i \in 1 .. call.results |-> i]))
(* The arguments of a call in an expression are lowered before the call begins. *)
CallInExpr(st, call) == InlineCall(CallsIn(st, FlattenSeq(call.args)), call, [i \in DOMAIN call.args |-> <<>>])
LowerStatement(st, s) ==
    LET inside(a, ss) == LowerBlock([a EXCEPT !.out = <<>>], ss)
        nested(a, outer) ==
            LET body == inside(a, s.body)
                els == inside(body, s.els)
            IN RecordLowered([els EXCEPT !.out = outer.out], [s EXCEPT !.body = body.out, !.els = els.out])
    IN  CASE s.k = "call" -> InlineCall(st, s.calls[1], s.calls[1].args)
          [] s.k = "if" -> LET pre == CallsIn(st, s.calls) IN nested(pre, pre)
          [] s.k \in {"loop", "while"} -> nested(st, st)
          [] OTHER -> RecordLowered(CallsIn(st, s.calls), s)
LowerFunction(body) == LowerBlock([out |-> <<>>, index |-> 0, next |-> 1, plans |-> <<>>, open |-> <<>>], body)

(* A loop becomes a block or a guarded copy for each round, all with the loop's span. *)
RECURSIVE LowerLoops(_)
LowerLoop(s) ==
    LET own(k) == [s EXCEPT !.k = k, !.body = <<>>]
        body == LowerLoops(s.body)
        copy(k, ss) == [i \in 1 .. s.n |-> [s EXCEPT !.k = k, !.body = ss]]
    IN  CASE s.k = "loop" -> copy("block", <<own("def")>> \o body)
          [] s.k = "while" -> <<own("def"), own("require")>> \o copy("if", <<own("def")>> \o body \o <<own("set")>>)
          [] OTHER -> <<[s EXCEPT !.body = body, !.els = LowerLoops(s.els)]>>
LowerLoops(ss) == FlattenSeq([i \in DOMAIN ss |-> LowerLoop(ss[i])])

(***************************************************************************)
(* The code generator's side.  r.code is the script so far, r.stack are    *)
(* the statements being compiled, r.pending[d] the one last finished under *)
(* d - 1 others, as a set of at most one, r.plans the inliner's.           *)
(***************************************************************************)
InFrame(p, index) == p.start <= index /\ index < p.stop
FrameContext(r, index) ==
    LET holding == {p \in Range(r.plans) : InFrame(p, index)} IN
    IF holding = {} THEN [depth |-> 0, frame |-> 0] ELSE CHOOSE p \in holding : \A q \in holding : q.depth <= p.depth
(* One call further out: of several the last one in the order of the plans. *)
ParentOf(r, plan, Holds(_), else) ==
    LET parents == SelectSeq(r.plans, LAMBDA p : p.depth + 1 = plan.depth /\ Holds(p)) IN
    IF parents = <<>> THEN else ELSE Last(parents)

RecordStep(r, kind, span, start, end, depth, frame, s) ==
    [r EXCEPT !.steps = Append(@, [kind |-> kind, span |-> span, start |-> start, end |-> end, seq |-> Len(@),
                                   depth |-> depth, frame |-> frame, k |-> s.k, of |-> s.frame])]
Boundary(p) == [k |-> "call", frame |-> p.frame]
Plans(r, P(_), Before(_, _)) == SetToSortSeq({p \in Range(r.plans) : P(p)}, Before)
Outer(p, q) == p.depth < q.depth
Inner(p, q) == p.depth > q.depth
EmitEnters(r, index) ==
    FoldLeft(LAMBDA a, p : RecordStep(a, "enter", p.span, Len(a.code), Len(a.code), p.depth - 1, p.frame, Boundary(p)),
             r, Plans(r, LAMBDA p : p.start = index, Outer))
EmitExits(r, at) ==
    LET parent(p) == ParentOf(r, p, LAMBDA q : InFrame(q, r.next - 1), [frame |-> 0]) IN
    FoldLeft(LAMBDA a, p : RecordStep(a, "exit", p.span, at, at, p.depth - 1, parent(p).frame, Boundary(p)),
             r, Plans(r, LAMBDA p : p.stop = r.next, Inner))
EmitResumes(r, index) ==
    LET parent(p) == ParentOf(r, p, LAMBDA q : q.start <= p.stop /\ p.stop <= q.stop, [depth |-> p.depth - 1, frame |-> 0]) IN
    FoldLeft(LAMBDA a, p : RecordStep(a, "source", p.span, Len(a.code), Len(a.code), parent(p).depth, parent(p).frame, Boundary(p)),
             r, Plans(r, LAMBDA p : p.stop = index, Inner))

SourceStep(r, slot, end) ==
    LET context == FrameContext(r, slot.index) IN
    RecordStep(r, "source", slot.span, slot.start, end, context.depth, context.frame, slot)
FlushSlot(r, slot) == EmitExits(IF slot.records /\ ~slot.recorded THEN SourceStep(r, slot, slot.end) ELSE r, slot.end)
Take(seq, n) == IF n < Len(seq) THEN SubSeq(seq, 1, n) ELSE seq
(* The pending statements from a depth on, the deepest first. *)
FlushFrom(r, depth) ==
    FoldRight(LAMBDA slots, a : FoldLeft(FlushSlot, a, SetToSeq(slots)),
              SubSeq(r.pending, depth + 1, Len(r.pending)),
              [r EXCEPT !.pending = Take(@, depth)])

NewSlot(r, s) ==
    LET path == Append([i \in DOMAIN r.stack |-> r.stack[i].span], s.span)
        reuses == (\E i \in DOMAIN r.stack : r.stack[i].continued) /\ path \in DOMAIN r.paths
        index == IF reuses THEN r.paths[path] ELSE r.next
        slot == [index |-> index, span |-> s.span, start |-> Len(r.code), end |-> Len(r.code), continued |-> FALSE,
                 records |-> s.k # "block", recorded |-> FALSE, k |-> s.k, frame |-> s.frame]
        numbered == IF reuses THEN r ELSE [r EXCEPT !.next = @ + 1, !.paths = (path :> index) @@ @]
    IN [EmitEnters(EmitResumes(numbered, index), index) EXCEPT !.stack = Append(@, slot)]
BeginStatement(r, s) ==
    LET d == Len(r.stack) + 1
        flushed == FlushFrom(r, d)
        pending == IF d \in DOMAIN flushed.pending THEN flushed.pending[d] ELSE {}
        taken == [flushed EXCEPT !.pending = Take(@, d - 1)]
        same == {slot \in pending : slot.span = s.span}
    IN  IF same = {} THEN NewSlot(FoldLeft(FlushSlot, taken, SetToSeq(pending)), s)
        ELSE [taken EXCEPT !.stack = Append(@, [(CHOOSE slot \in same : TRUE) EXCEPT !.continued = TRUE])]
RecordCurrentStep(r) ==
    IF Last(r.stack).recorded THEN r
    ELSE [SourceStep(r, Last(r.stack), Len(r.code)) EXCEPT !.stack[Len(r.stack)].recorded = TRUE]
FinishStatement(r, s) ==
    LET slot == [Last(r.stack) EXCEPT !.end = Len(r.code), !.records = @ \/ s.k # "block"]
        d == Len(r.stack)
        flushed == FlushFrom([r EXCEPT !.stack = Front(@)], d)
        outer(i) == IF i \in DOMAIN flushed.pending THEN flushed.pending[i] ELSE {}
    IN [flushed EXCEPT !.pending = [i \in 1 .. d |-> IF i = d THEN {slot} ELSE outer(i)]]

(* An opcode is one byte: "if", "else", "endif", "verify", which may fail, or another. *)
Emit(r, ops) == [r EXCEPT !.code = @ \o ops]
OpsOf(k) == CASE k \in {"def", "set"} -> <<"op", "op">> [] k = "require" -> <<"op", "verify">> [] k = "if" -> <<"op", "if">>
              [] OTHER -> <<>>
DropLocals(ss) == IF \E i \in DOMAIN ss : ss[i].k = "def" THEN <<"op">> ELSE <<>>
RECURSIVE CompileStatement(_, _)
CompileBlock(r, ss) == Emit(FoldLeft(CompileStatement, r, ss), DropLocals(ss))
CompileIf(r, s) ==
    LET then == CompileBlock(RecordCurrentStep(Emit(r, OpsOf("if"))), s.body)
        both == IF s.els = <<>> THEN then ELSE CompileBlock(Emit(then, <<"else">>), s.els)
    IN Emit(both, <<"endif">>)
CompileStatement(r, s) ==
    LET begun == BeginStatement(r, s) IN
    FinishStatement(CASE s.k = "if" -> CompileIf(begun, s)
                      [] s.k = "block" -> CompileBlock(begun, s.body)
                      [] OTHER -> Emit(begun, OpsOf(s.k)), s)
FinishEntrypoint(r) == EmitResumes(r, r.next)
CompileEntrypoint(body) ==
    LET lowered == LowerFunction(body)
        begun == [code |-> <<>>, steps |-> <<>>, stack |-> <<>>, pending |-> <<>>, next |-> 0,
                  paths |-> <<>>, plans |-> lowered.plans]
    IN FinishEntrypoint(FlushFrom(Emit(FoldLeft(CompileStatement, begun, LowerLoops(lowered.out)), <<"op">>), 0))

(* The script of a contract: its fields, then the only entrypoint or a chain of selectors. *)
Appended(info, e) ==
    [code |-> info.code \o e.code,
     steps |-> info.steps \o
         [i \in DOMAIN e.steps |-> [e.steps[i] EXCEPT !.start = @ + Len(info.code), !.end = @ + Len(info.code),
                                                      !.seq = @ + Len(info.steps)]]]
BuildContractScript(compiled) ==
    LET selected(info, e) ==
            [Appended([info EXCEPT !.code = @ \o <<"op", "select", "op">>], e) EXCEPT !.code = Append(@, "else")]
        all == FoldLeft(selected, [code |-> <<"op">>, steps |-> <<>>], compiled)
    IN  IF Len(compiled) = 1 THEN Appended([code |-> <<"op">>, steps |-> <<>>], compiled[1])
        ELSE [all EXCEPT !.code = @ \o <<"op", "fail">> \o [i \in DOMAIN compiled |-> "endif"]]
CompileContract(entrypoints) == BuildContractScript([i \in DOMAIN entrypoints |-> CompileEntrypoint(entrypoints[i])])
=============================================================================
