-------------------------- MODULE MCSilverDebugger --------------------------
(***************************************************************************)
(* Small contracts to debug, most of them those of debug_session_tests.rs, *)
(* with the line numbers they have there.                                  *)
(***************************************************************************)
EXTENDS SilverDebugger, SilverRecorder

At1(line) == <<line, line, 1>>
Def(line) == Statement("def", At1(line))
Set(line) == Statement("set", At1(line))
Require(line) == Statement("require", At1(line))
Console(line) == Statement("console", At1(line))
CallOf(f, column, line, args, results) ==
    [f |-> f, span |-> <<line, line, column>>, args |-> args, results |-> results]
Call(line, f, args, results) == [Statement("call", At1(line)) EXCEPT !.calls = <<CallOf(f, 1, line, args, results)>>]
Using(s, calls) == [s EXCEPT !.calls = calls]
If(first, last, body, els) == [Statement("if", <<first, last, 1>>) EXCEPT !.body = body, !.els = els]
Loop(k, first, last, n, body) == [Statement(k, <<first, last, 1>>) EXCEPT !.body = body, !.n = n]

OneArg == <<<<>>>>
MCFunctions ==
    [inc    |-> <<Def(5), Require(6)>>,
     inner  |-> <<Def(5), Require(6)>>,
     outer  |-> <<Call(10, "inner", <<>>, 0), Require(11)>>,
     last   |-> <<Require(9), Call(10, "inner", <<>>, 0)>>,
     pair   |-> <<Def(10), Def(11), Require(12)>>,
     addOne |-> <<Def(5)>>,
     branch |-> <<If(5, 7, <<Require(6)>>, <<>>), Require(8)>>,
     walk   |-> <<Def(5), Loop("loop", 6, 8, 2, <<Set(7)>>), Require(9)>>]
Programs ==
    [nested    |-> <<<<Call(15, "outer", <<>>, 0), Require(16)>>>>,
     twice     |-> <<<<Call(14, "last", <<>>, 0), Call(15, "last", <<>>, 0), Require(16)>>>>,
     pairs     |-> <<<<Def(16), Call(17, "pair", <<<<>>, <<>>>>, 0), Call(18, "inc", OneArg, 0), Require(19)>>>>,
     repeat    |-> <<<<Call(10, "inc", OneArg, 0), Call(11, "inc", OneArg, 0), Require(12)>>>>,
     addOne    |-> <<<<Call(10, "addOne", OneArg, 1), Require(11)>>>>,
     operands  |-> <<<<Using(Require(10), <<CallOf("addOne", 5, 10, <<<<CallOf("addOne", 12, 10, OneArg, 1)>>>>, 1),
                                            CallOf("addOne", 20, 10, OneArg, 1)>>), Require(11)>>>>,
     ifElse    |-> <<<<Def(5), If(7, 13, <<Console(8), Require(10)>>, <<Require(12)>>), Console(14), Require(15)>>>>,
     rounds    |-> <<<<Def(5), Loop("loop", 6, 8, 2, <<Set(7)>>), Require(9)>>>>,
     inCallee  |-> <<<<Def(13), Call(14, "walk", OneArg, 0), Require(15)>>>>,
     inLoop    |-> <<<<Def(13), Loop("loop", 14, 17, 2, <<Call(15, "inc", OneArg, 0), Set(16)>>), Require(18)>>>>,
     inBranch  |-> <<<<Def(10), If(11, 13, <<Call(12, "inc", OneArg, 0)>>, <<Call(13, "inc", OneArg, 0)>>), Require(14)>>>>,
     branching |-> <<<<Call(10, "branch", OneArg, 0), Def(11), Require(12)>>>>,
     bounded   |-> <<<<Def(5), Loop("while", 6, 8, 2, <<Set(7)>>), Require(9)>>>>,
     two       |-> <<<<Def(5), Console(6), Require(7)>>, <<If(11, 14, <<Console(12), Require(13)>>, <<>>), Require(15)>>>>]
MCContracts == {CompileContract(Programs[p]) : p \in DOMAIN Programs}
MCLines == 4 .. 19
=============================================================================
