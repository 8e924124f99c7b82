--------------------------- MODULE SilverDebugger ---------------------------
(***************************************************************************)
(* A session of the source-level debugger: the script engine runs one      *)
(* opcode at a time and a cursor follows it over the recorded steps.  The  *)
(* commands of the prompt move to a step chosen beforehand and give it up  *)
(* when the engine is already behind it.                                   *)
(*                                                                         *)
(* A step covers the bytes start .. end - 1, or only the place start when  *)
(* it has none.  Steps are named by their place in the session's order.    *)
(* The values of variables, the evaluation of expressions in a shadow run  *)
(* and the views of covenant declarations are left out: no command's move  *)
(* depends on them.                                                        *)
(***************************************************************************)
EXTENDS Integers, FiniteSetsExt, SequencesExt

CONSTANTS Contracts,        \* a set of [code, steps], as SilverRecorder compiles them
          Lines,            \* the lines a user may type after "break"
          MaxBreakpoints    \* bound on the breakpoints set

(* What a compilation records: steps are numbered as they are put out.  A script without any, *)
(* on which the commands would execute single opcodes, is left out.                           *)
Recorded == [kind : {"source", "enter", "exit"}, span : Seq(Nat), start : Nat, end : Nat,
             seq : Nat, depth : Nat, frame : Nat, k : STRING, of : Nat]
ASSUME ContractsAssumption ==
    \A c \in Contracts : /\ c.code \in Seq(STRING) /\ c.steps \in Seq(Recorded) /\ c.steps # <<>>
                         /\ \A i \in DOMAIN c.steps : c.steps[i].seq = i - 1

VARIABLES steps,            \* the recorded steps in the order of a session
          script,           \* the opcodes
          live,             \* live[o + 1]: the engine executes at offset o
          failing,          \* the opcode that fails, 0 for none
          pc,               \* opcodes executed so far
          cursor,           \* the current step, 0 before the first
          executed,         \* the steps marked as executed
          printed,          \* the steps whose console messages were shown
          breakpoints,      \* lines
          status            \* "new", "stopped", "ended" or "failed"
fixed == <<steps, script, live, failing>>
vars == <<fixed, pc, cursor, executed, printed, breakpoints, status>>

(***************************************************************************)
(* The engine's conditions: whether each offset is executed, when taken    *)
(* are the conditional opcodes whose condition holds.                      *)
(***************************************************************************)
Live(code, taken) ==
    LET all(conds) == \A i \in DOMAIN conds : conds[i]
        next(conds, i) ==
            CASE code[i] \in {"if", "select"} -> Append(conds, all(conds) /\ i \in taken)
              [] code[i] = "else" -> Append(Front(conds), all(Front(conds)) /\ ~Last(conds))
              [] code[i] = "endif" -> Front(conds)
              [] OTHER -> conds
        conditions[n \in 0 .. Len(code)] == IF n = 0 THEN <<>> ELSE next(conditions[n - 1], n)
    IN [n \in 1 .. Len(code) + 1 |-> all(conditions[n - 1])]
At(code, op) == {i \in DOMAIN code : code[i] = op}

(***************************************************************************)
(* The order of a session, and which steps s the inliner generated around  *)
(* a call: .post are those of the call's line after it, .skip those that   *)
(* no command stops at.                                                    *)
(***************************************************************************)
Before(s, t) == s.start < t.start \/ (s.start = t.start /\ s.seq < t.seq)
Order(all) ==
    LET earlier(i) == {j \in DOMAIN all : Before(all[j], all[i])}
    IN  [n \in DOMAIN all |-> all[CHOOSE i \in DOMAIN all : Cardinality(earlier(i)) = n - 1]]
Same(s, i, j) == s[i].frame = s[j].frame /\ s[i].span = s[j].span
(* The nearest earlier step that is not of the same source text and frame, 0 for none. *)
Origin(s, i) == Max({j \in 1 .. i - 1 : ~(s[j].kind = "source" /\ Same(s, i, j))} \cup {0})
GeneratedBy(s, i, kind) ==
    s[i].kind = "source" /\ \E j \in {Origin(s, i)} \ {0} : s[j].kind = kind /\ Same(s, i, j)
PostInlineCallSource(s, i) == GeneratedBy(s, i, "exit")
SkipGeneratedStop(s, i) == GeneratedBy(s, i, "enter") \/ (PostInlineCallSource(s, i) /\ i - Origin(s, i) > 1)
Mark(s, i) == [x \in DOMAIN s[i] \cup {"post", "skip"} |->
                  CASE x = "post" -> PostInlineCallSource(s, i) [] x = "skip" -> SkipGeneratedStop(s, i) [] OTHER -> s[i][x]]
Marked(s) == [i \in DOMAIN s |-> Mark(s, i)]

Steps == DOMAIN steps
step(i) == steps[i]
Steppable(i) == step(i).kind # "exit"
Covers(i, offset) ==
    IF step(i).start = step(i).end THEN offset = step(i).start ELSE step(i).start <= offset /\ offset < step(i).end

(***************************************************************************)
(* d is a session's state inside a command; the status "no" tells that the *)
(* step looked for was passed without being executed.                      *)
(***************************************************************************)
Sessions == {d \in [pc : 0 .. Len(script), cursor : {0} \cup Steps, executed : SUBSET Steps, printed : SUBSET Steps,
                    status : {"new", "stopped", "ended", "failed", "no"}] : d.printed \subseteq d.executed}
Stopped(d) == d.status = "stopped"
(* A loop of the code: next, as long as d is in going.  The rounds are limited by more than *)
(* any of the loops takes.                                                                  *)
MaxRounds == Len(script) + Len(steps) + 2
While(going, next, d) ==
    LET after[k \in 0 .. MaxRounds] ==
            [e \in DOMAIN next |-> IF k = 0 \/ e \notin going THEN e ELSE after[k - 1][next[e]]]
    IN  after[MaxRounds][d]

First(S) == IF S = {} THEN 0 ELSE Min(S)
MarkExecuted(d, i) ==
    LET boundary == {j \in 1 .. i - 1 : ~Steppable(j) /\ step(j).start = step(i).start /\ step(j).seq < step(i).seq}
        skipped == {j \in 1 .. i - 1 : /\ step(j).skip
                                       /\ step(j).seq < step(i).seq
                                       /\ step(j).start <= step(i).start
                                       /\ step(j).end <= step(i).end}
        before == d.executed \cup boundary \cup skipped
    IN [d EXCEPT !.cursor = i, !.executed = before \cup {i},
                 !.printed = IF step(i).k = "console" /\ i \notin before THEN @ \cup {i} ELSE @]

IndexForOffset(d, min) ==
    LET ahead == {i \in Steps : Steppable(i) /\ step(i).seq >= min}
        ends == d.cursor # 0 /\ ~step(d.cursor).post /\ step(d.cursor).end = d.pc
        starting == {i \in ahead : ends /\ step(i).start = d.pc}
    IN First(IF starting # {} THEN starting ELSE {i \in ahead : Covers(i, d.pc)})
SyncOrForget(d) ==
    LET i == IndexForOffset(d, IF d.cursor = 0 THEN 0 ELSE step(d.cursor).seq) IN
    IF i = 0 THEN [d EXCEPT !.cursor = 0] ELSE MarkExecuted(d, i)
Sync(d) ==
    LET i == IndexForOffset(d, IF d.cursor = 0 THEN 0 ELSE step(d.cursor).seq) IN
    IF i = 0 \/ i < d.cursor THEN d ELSE MarkExecuted(d, i)
StepOpcode(d) ==
    IF d.pc = Len(script) THEN [d EXCEPT !.status = "ended"]
    ELSE IF d.pc + 1 = failing THEN [d EXCEPT !.status = "failed"]
    ELSE Sync([d EXCEPT !.pc = @ + 1])

OpcodeOnce == [d \in Sessions |-> StepOpcode(d)]
RunUntilEnd(d) == While({e \in Sessions : Stopped(e)}, OpcodeOnce, d)

Reached(d, i) == Covers(i, d.pc) /\ live[d.pc + 1]
GoneBy(d, i) == d.pc > step(i).start \/ d.pc = Len(script)
AdvanceTo(d, i) ==
    LET e == While({x \in Sessions : Stopped(x) /\ ~Reached(x, i) /\ ~GoneBy(x, i)}, OpcodeOnce, d) IN
    IF ~Stopped(e) THEN e ELSE IF Reached(e, i) THEN MarkExecuted(e, i) ELSE [e EXCEPT !.status = "no"]

PostInlineAfter(i, sameEnd, among) ==
    LET width(j) == step(j).end - step(j).start
        around == {j \in among : /\ step(j).post /\ step(j).seq > step(i).seq
                                 /\ step(j).start <= step(i).start
                                 /\ IF sameEnd THEN step(j).end = step(i).end ELSE step(j).end >= step(i).end}
    IN First({j \in around : \A k \in around : width(j) <= width(k)})
NextStep(from, among) ==
    LET enter == from # 0 /\ step(from).kind = "enter"
        post == from # 0 /\ step(from).post
        narrow == IF enter THEN PostInlineAfter(from, TRUE, among) ELSE 0
        wide == IF enter \/ post THEN PostInlineAfter(from, FALSE, among) ELSE 0
        repeats(i) == /\ post /\ step(i).kind = "source"
                      /\ step(i).start = step(from).start /\ step(i).start = step(i).end
        later == {i \in among : /\ i > from /\ Steppable(i) /\ ~step(i).skip /\ ~repeats(i)
                                /\ (from # 0 => step(i).seq >= step(from).seq)}
    IN IF narrow # 0 THEN narrow ELSE IF wide # 0 THEN wide ELSE First(later)

Depth(d) == IF d.cursor = 0 THEN 0 ELSE step(d.cursor).depth
Span(d) == IF d.cursor = 0 THEN <<>> ELSE step(d.cursor).span
(* One step after another is tried, from the cursor on. *)
Hunts == [at : {0} \cup Steps, d : Sessions]
Try(h, among) ==
    LET i == NextStep(h.at, among)
        d == [h.d EXCEPT !.status = "stopped"]
    IN  [at |-> i, d |-> IF i = 0 THEN RunUntilEnd(d) ELSE AdvanceTo(d, i)]
Search(d, among) ==
    While({h \in Hunts : h.d.status = "no"}, [h \in Hunts |-> Try(h, among)],
          [at |-> d.cursor, d |-> [d EXCEPT !.status = "no"]]).d
StepAtDepth(d, deepest) == Search(d, {i \in Steps : step(i).depth = deepest})
StepWithin(d, deepest) == Search(d, {i \in Steps : step(i).depth <= deepest})
StepAnywhere(d) == Search(d, Steps)

AtEnter(d) == d.cursor # 0 /\ step(d.cursor).kind = "enter"
Follows(d, span) ==
    LET i == d.cursor IN
    /\ AtEnter(d) /\ step(i).span # span
    /\ \E j \in d.executed : /\ step(j).kind = "source" /\ step(j).span = step(i).span /\ step(j).depth = step(i).depth
                             /\ step(j).frame # step(i).frame /\ step(j).seq < step(i).seq
LeaveEnters(d, span) ==
    While({e \in Sessions : Stopped(e) /\ AtEnter(e) /\ (Span(e) = span \/ Follows(e, span))},
          [e \in Sessions |-> StepAnywhere(e)], d)
Into(d) == LeaveEnters(StepAnywhere(d), Span(d))

FollowEnters(d, span) == While({e \in Sessions : Stopped(e) /\ Follows(e, span)}, [e \in Sessions |-> Into(e)], d)
OneOver(d, span) == FollowEnters(StepWithin(d, Depth(d)), span)
LeaveSpan(d, span) ==
    While({e \in Sessions : Stopped(e) /\ Span(e) = span}, [e \in Sessions |-> OneOver(e, span)], d)
Over(d) == LeaveSpan(OneOver(d, Span(d)), Span(d))

EveryCall(d) == SelectSeq([i \in 1 .. d.cursor |-> i], LAMBDA i : step(i).kind = "enter")
ActiveCalls(d) ==
    LET visit(calls, i) ==
            CASE step(i).kind = "enter" -> Append(calls, i)
              [] step(i).kind = "exit" /\ calls # <<>> -> Front(calls)
              [] OTHER -> calls
    IN FoldLeft(visit, <<>>, [i \in 1 .. d.cursor |-> i])
OutAtTheSameDepth(d) == StepWithin(d, Depth(d))
Out(d) ==
    LET calls == ActiveCalls(d)
        e == StepWithin(d, Depth(d) - 1)
    IN IF Stopped(e) /\ calls # <<>> /\ Span(e) = step(Last(calls)).span THEN Over(e) ELSE e

LinesOf(i) == step(i).span[1] .. step(i).span[2]
Between(lines) == {e \in Sessions : Stopped(e) /\ LinesOf(e.cursor) \cap lines = {}}
OverUntilBreakpoint(d, lines) == While(Between(lines), [e \in Sessions |-> Over(e)], Over(d))
UntilBreakpoint(d, lines) == While(Between(lines), [e \in Sessions |-> Into(e)], Into(d))

AtStatement(d) == live[d.pc + 1] /\ IndexForOffset(d, 0) # 0
ToFirstStatement(d) ==
    LET e == While({x \in Sessions : Stopped(x) /\ x.pc < Len(script) /\ ~AtStatement(x)}, OpcodeOnce, d) IN
    IF Stopped(e) /\ e.pc < Len(script) THEN MarkExecuted(e, IndexForOffset(e, 0)) ELSE e

(***************************************************************************)
(* The session.                                                            *)
(***************************************************************************)
Init ==
    /\ \E compiled \in Contracts : steps = Marked(Order(compiled.steps)) /\ script = compiled.code
    /\ \E taken \in SUBSET At(script, "if"), chosen \in SUBSET At(script, "select") :
          /\ At(script, "select") = {} \/ Cardinality(chosen) = 1
          /\ \A i \in taken : Live(script, taken \cup chosen)[i]
          /\ live = Live(script, taken \cup chosen)
    /\ failing \in {0} \cup {i \in At(script, "verify") : live[i]}
    /\ breakpoints = {}
    /\ pc = 0 /\ cursor = 0 /\ executed = {} /\ printed = {} /\ status = "new"

Session == [pc |-> pc, cursor |-> cursor, executed |-> executed, printed |-> printed, status |-> status]
Move(before, after) ==
    /\ status = before
    /\ \E d \in {after} :
          pc' = d.pc /\ cursor' = d.cursor /\ executed' = d.executed /\ printed' = d.printed /\ status' = d.status
    /\ UNCHANGED <<fixed, breakpoints>>
Start == Move("new", ToFirstStatement([Session EXCEPT !.status = "stopped"]))
Si == Move("stopped", StepOpcode(Session))
StepInto == Move("stopped", Into(Session))
StepOver == Move("stopped", Over(Session))
StepOut == Move("stopped", Out(Session))
Continue == Move("stopped", UntilBreakpoint(Session, breakpoints))
BreakAnywhere(line) ==
    /\ status = "stopped" /\ Cardinality(breakpoints) < MaxBreakpoints
    /\ breakpoints' = breakpoints \cup {line}
    /\ UNCHANGED <<fixed, pc, cursor, executed, printed, status>>
Break(line) ==
    /\ status = "stopped"
    /\ line \notin breakpoints /\ Cardinality(breakpoints) < MaxBreakpoints
    /\ \E i \in Steps : Steppable(i) /\ line \in LinesOf(i)
    /\ breakpoints' = breakpoints \cup {line}
    /\ UNCHANGED <<fixed, pc, cursor, executed, printed, status>>
Next == Start \/ Si \/ StepInto \/ StepOver \/ StepOut \/ Continue \/ \E line \in Lines : Break(line)
Spec == Init /\ [][Next]_vars

(***************************************************************************)
(* Properties.                                                             *)
(***************************************************************************)
(* Everything stays in its range; breakpoints are on lines that have a step to stop at. *)
TypeOK ==
    /\ live \in [1 .. Len(script) + 1 -> BOOLEAN]
    /\ failing \in 0 .. Len(script)
    /\ pc \in 0 .. Len(script)
    /\ cursor \in 0 .. Len(steps)
    /\ printed \subseteq executed /\ executed \subseteq Steps
    /\ breakpoints \subseteq UNION {LinesOf(i) : i \in {j \in Steps : Steppable(j)}}
    /\ status \in {"new", "stopped", "ended", "failed"}

(* Whatever commands are mixed, single opcodes included, neither the engine nor the cursor goes  *)
(* back: the sequence numbers of the statements shown never fall (session.rs, "Keep cursor       *)
(* monotonic"; steps of a call share offsets, so that an offset alone would show an earlier one). *)
NeverBack == [][/\ pc' >= pc
                /\ cursor # 0 => cursor' # 0 /\ step(cursor').seq >= step(cursor).seq]_vars

(* The statements that the engine executes between here and the next state, both places excepted. *)
Passed == {i \in Steps : /\ step(i).kind = "source" /\ step(i).start < step(i).end /\ live[step(i).start + 1]
                         /\ pc < step(i).start /\ step(i).start < pc'}
(* "c" never runs past an executed statement whose line has a breakpoint, at any depth of inlined *)
(* calls and in any round of a loop, although it steps from record to record, gives up records    *)
(* that it passed, skips the generated ones and leaves call boundaries (continue_to_breakpoint).  *)
ContinueStopsAtBreakpoints ==
    [][(\E i \in Passed : LinesOf(i) \cap breakpoints # {}) => ~Continue]_vars

(* "n" never runs past an executed statement of another line at the depth where it began or in a *)
(* caller (session.rs:303, "advance to next source step at the same or shallower call depth"),    *)
(* although it gives up records that the engine has passed, takes the rest of a split line with   *)
(* it and may walk into calls meanwhile (step_over).                                              *)
OverSkipsNothing ==
    [][(cursor # 0 /\ \E i \in Passed : step(i).depth <= step(cursor).depth /\ step(i).span # step(cursor).span)
       => ~StepOver]_vars

(* The contracts whose statements are all recorded in the frame they were inlined in.  The two    *)
(* numberings part, and records land in other frames, when a call is followed by more statements  *)
(* than one number (several arguments), by a loop's rounds or stands inside a branch or a loop.   *)
Aligned == \A i \in Steps : step(i).kind = "source" /\ step(i).k # "call" => step(i).frame = step(i).of
(* "finish" leaves the inlined call, also when the call is the last statement of its caller       *)
(* (step_out, which steps over the call's own line when it comes back to it).                     *)
OutLeavesTheCall ==
    [][status' = "stopped" /\ step(cursor').depth >= Depth(Session) => ~StepOut]_vars
(* The calls shown are those open at the cursor: one for each level of a statement's depth, and   *)
(* the one being entered at a call's boundary; repeated calls do not nest (call_stack_with_spans; *)
(* debug_session_tests.rs, "repeated inline calls should not nest call frames").  The line of a   *)
(* call that ends its function is shown again after both have returned, one level too deep.       *)
CallsShownAreOpen ==
    status = "stopped" /\ cursor # 0 /\ Aligned =>
        LET calls == Len(ActiveCalls(Session)) IN
        IF AtEnter(Session) THEN calls = step(cursor).depth + 1
        ELSE step(cursor).k # "call" => calls = step(cursor).depth
=============================================================================
