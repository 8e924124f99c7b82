--------------------------- MODULE SilverCovenants ---------------------------
(***************************************************************************)
(* Covenant declarations.  A function marked #[covenant(...)] states what  *)
(* may become of the contract's state; it is kept as a policy, and the     *)
(* pass writes the entrypoints that read the states of the inputs, call    *)
(* the policy and check the states of the outputs.  With binding auth, one *)
(* input is bound to the outputs it authorizes; with binding cov, all the  *)
(* inputs of a covenant are bound to all its outputs by the first of them, *)
(* the leader, and the others only check that they are not the leader.     *)
(*                                                                         *)
(* An attribute is [path, args], its arguments [n, e].                     *)
(***************************************************************************)
EXTENDS SilverPasses

PolicyName(f) == "__covenant_policy_" \o f
AuthName(f) == "__covenant_entrypoint_auth_" \o f
LeaderName(f) == "__leader_" \o f
DelegateName(f) == "__delegate_" \o f

TState == TypeRef(StateType, <<>>)
TStates == ArrayOf(TState, Dynamic)
IsState(t) == t = TState
IsStateArray(t) == IsArray(t) /\ t.b = StateType

(***************************************************************************)
(* Reading the attribute.                                                  *)
(***************************************************************************)
Keys == {"binding", "from", "to", "mode", "groups", "termination"}
Options == [binding |-> {"auth", "cov"}, mode |-> {"verification", "transition"},
            groups |-> {"single", "multiple"}, termination |-> {"disallowed", "allowed"}]
Sugar(path) == IF Len(path) = 2 /\ path[1] = "covenant" /\ path[2] \in {"singleton", "fanout"} THEN path[2]
               ELSE IF path = <<"covenant">> THEN "canonical" ELSE "unknown"
Given(a) == {a.args[i].n : i \in DOMAIN a.args}
Argument(a, key, default) ==
    IF key \in Given(a) THEN (CHOOSE x \in Range(a.args) : x.n = key).e ELSE default
Choice(a, key, default) == Argument(a, key, Id(default)).n
(* A count is a constant and at least one; 0 stands for one that is not. *)
AtLeastOne(n) == IF n = <<>> THEN 0 ELSE Max({0, n[1]})
Count(e, consts) == AtLeastOne(ConstInt(e, consts))

Declaration(f, consts) ==
    LET a == f.attrs[1]
        sugar == Sugar(a.path)
        from == IF sugar = "canonical" THEN Argument(a, "from", NoExpr) ELSE IntLit(1)
        oneState == f.rets # <<>> /\ f.rets = <<TState>>
        mode == Choice(a, "mode", IF f.rets = <<>> THEN "verification" ELSE "transition")
        to == IF sugar = "singleton" THEN IntLit(1)
              ELSE Argument(a, "to", IF mode = "transition" /\ oneState /\ sugar = "canonical" THEN IntLit(1) ELSE NoExpr)
        binding == Choice(a, "binding", IF Count(from, consts) = 1 THEN "auth" ELSE "cov")
    IN  [binding |-> binding, mode |-> mode, singleton |-> sugar = "singleton", from |-> from, to |-> to,
         groups |-> Choice(a, "groups", IF binding = "auth" THEN "multiple" ELSE "single"),
         ends |-> Choice(a, "termination", "disallowed") = "allowed"]

(* The arguments an attribute may have. *)
ValidArguments(a) ==
    /\ Sugar(a.path) # "unknown"
    /\ Cardinality(Given(a)) = Len(a.args) /\ Given(a) \subseteq Keys
    /\ Sugar(a.path) = "canonical" => "from" \in Given(a)
    /\ Sugar(a.path) = "singleton" => {"from", "to"} \cap Given(a) = {}
    /\ Sugar(a.path) = "fanout" => "from" \notin Given(a)
    /\ \A i \in DOMAIN a.args : a.args[i].n \in DOMAIN Options =>
          a.args[i].e.k = "id" /\ a.args[i].e.n \in Options[a.args[i].n]

ValidDeclaration(f, d, from, to) ==
    /\ ~f.entry /\ Len(f.attrs) = 1 /\ ValidArguments(f.attrs[1])
    /\ from >= 1 /\ to >= 1
    /\ d.binding = "auth" => from = 1
    /\ d.binding = "cov" => d.groups = "single"
    /\ (d.mode = "verification") = (f.rets = <<>>)
    /\ "termination" \in Given(f.attrs[1]) => from = 1 /\ to = 1

(* The shape of a policy over a contract with state: the old states, then the new ones or a result. *)
One(d) == d.singleton /\ ~d.ends
(* A plausible bug: a singleton that may end is still asked for exactly one new state. *)
ShapeOfOne(f, d) ==
    LET ofType(i, Is(_)) == i \in DOMAIN f.params /\ Is(f.params[i].t) IN
    /\ IF d.binding = "auth" THEN ofType(1, IsState) ELSE ofType(1, IsStateArray)
    /\ d.mode = "verification" =>
          IF d.binding = "auth" /\ One(d) THEN ofType(2, IsState) ELSE ofType(2, IsStateArray)
    /\ d.mode = "transition" =>
          /\ Len(f.rets) = 1
          /\ \/ IsState(f.rets[1]) /\ d.to = IntLit(1)
             \/ IsStateArray(f.rets[1]) /\ ~d.singleton
ValidShape(f, d) ==
    LET ofType(i, Is(_)) == i \in DOMAIN f.params /\ Is(f.params[i].t) IN
    /\ IF d.binding = "auth" THEN ofType(1, IsState) ELSE ofType(1, IsStateArray)
    /\ d.mode = "verification" =>
          IF d.binding = "auth" /\ One(d) THEN ofType(2, IsState) ELSE ofType(2, IsStateArray)
    /\ d.mode = "transition" =>
          /\ Len(f.rets) = 1
          /\ \/ IsState(f.rets[1]) /\ d.to = IntLit(1)
             \/ IsStateArray(f.rets[1]) /\ ~One(d)

(***************************************************************************)
(* The entrypoints.                                                        *)
(***************************************************************************)
IntVar(x, e) == VarDef(TInt, x, e)
ActiveInput == Nullary("this.activeInputIndex")
CovId == VarDef(TByteN(32), "__cov_id", Call("OpInputCovenantId", <<ActiveInput>>))
Equals(l, r) == Require(Binary("==", l, r))
AtMost(l, r) == Require(Binary("<=", l, r))
ParamIds(f) == [i \in DOMAIN f.params |-> Id(f.params[i].n)]
OutIdx == "__cov_out_idx"

(* What is bound: the outputs' count, the index of one of them, and what is read into the policy's first parameter. *)
Outputs(d) ==
    IF d.binding = "auth"
    THEN [count |-> "__auth_out_count", idx |-> [k \in {"k", "zero"} |->
              Call("OpAuthOutputIdx", <<ActiveInput, IF k = "k" THEN Id("__cov_k") ELSE IntLit(0)>>)]]
    ELSE [count |-> "__cov_out_count", idx |-> [k \in {"k", "zero"} |->
              Call("OpCovOutputIdx", <<Id("__cov_id"), IF k = "k" THEN Id("__cov_k") ELSE IntLit(0)>>)]]

(* One output, in the state named x; or as many outputs as there are states in x, at most `to`. *)
CheckOne(d, x) ==
    LET out == Outputs(d) IN
    <<Equals(Id(out.count), IntLit(1)), IntVar(OutIdx, out.idx["zero"]),
      FunctionCall("validateOutputState", <<Id(OutIdx), Id(x)>>)>>
(* A plausible bug: the number of outputs is bounded but not compared with the number of states. *)
CheckListed(d, x) ==
    LET out == Outputs(d) IN
    <<AtMost(Id(out.count), d.to),
      For("__cov_k", IntLit(0), Id(out.count), d.to,
          <<IntVar(OutIdx, out.idx["k"]), FunctionCall("validateOutputState", <<Id(OutIdx), Index(Id(x), Id("__cov_k"))>>)>>)>>
CheckAll(d, x) ==
    LET out == Outputs(d) IN
    <<AtMost(Id(out.count), d.to), Equals(Id(out.count), Length(Id(x))),
      For("__cov_k", IntLit(0), Id(out.count), d.to,
          <<IntVar(OutIdx, out.idx["k"]), FunctionCall("validateOutputState", <<Id(OutIdx), Index(Id(x), Id("__cov_k"))>>)>>)>>

ReadState(c, p) ==
    LET names == [i \in DOMAIN c.fields |-> c.fields[i].n] IN
    <<VarDef(TState, p, StateObject(names, [i \in DOMAIN names |-> Id(names[i])]))>>
ReadStates(d, p) ==
    LET read == Call("readInputState", <<Call("OpCovInputIdx", <<Id("__cov_id"), Id("__cov_in_k")>>)>>) IN
    <<Declare(TStates, p),
      For("__cov_in_k", IntLit(0), Id("__cov_in_count"), d.from, <<Assign(p, AppendTo(Id(p), <<read>>))>>)>>

(* The old states, the policy, the new states. *)
Transfer(c, policy, d) ==
    LET prev == policy.params[1].n
        read == IF d.binding = "auth" THEN ReadState(c, prev) ELSE ReadStates(d, prev)
        call == FunctionCall(policy.n, ParamIds(policy))
        single == IsState(policy.rets[1])
        new == IF single THEN Param(TState, "__cov_new_state") ELSE Param(TStates, "__cov_new_states")
        x == policy.params[2].n
    IN  IF c.fields = <<>>
        THEN IF d.mode = "transition" THEN <<WrongStmt>> ELSE <<call, AtMost(Id(Outputs(d).count), d.to)>>
        ELSE IF d.mode = "transition"
        THEN read \o <<FunctionCallAssign(<<new>>, policy.n, ParamIds(policy))>>
                  \o (IF single THEN CheckOne(d, new.n) ELSE CheckAll(d, new.n))
        ELSE read \o <<call>> \o (IF d.binding = "auth" /\ One(d) THEN CheckOne(d, x) ELSE CheckAll(d, x))

AuthBody(c, policy, d) ==
    <<IntVar("__auth_out_count", Call("OpAuthOutputCount", <<ActiveInput>>))>>
    \o (IF d.groups = "single"
        THEN <<CovId, IntVar("__cov_shared_out_count", Call("OpCovOutputCount", <<Id("__cov_id")>>)),
               Equals(Id("__cov_shared_out_count"), Id("__auth_out_count"))>>
        ELSE <<>>)
    \o Transfer(c, policy, d)
LeaderIdx == Call("OpCovInputIdx", <<Id("__cov_id"), IntLit(0)>>)
LeaderBody(c, policy, d) ==
    <<CovId, Equals(LeaderIdx, ActiveInput),
      IntVar("__cov_in_count", Call("OpCovInputCount", <<Id("__cov_id")>>)), AtMost(Id("__cov_in_count"), d.from),
      IntVar("__cov_out_count", Call("OpCovOutputCount", <<Id("__cov_id")>>))>>
    \o Transfer(c, policy, d)
DelegateBody == <<CovId, Require(Binary("!=", LeaderIdx, ActiveInput))>>

(* The caller gives what the policy takes, except the states that are read. *)
Entrypoint(c, policy, name, body) ==
    [policy EXCEPT !.n = name, !.entry = TRUE, !.rets = <<>>, !.tuple = FALSE, !.body = body,
                   !.params = IF c.fields = <<>> THEN @ ELSE Tail(@)]
LowerPolicy(c, f, d, policy, consts) ==
    CASE ~ValidDeclaration(f, d, Count(d.from, consts), Count(d.to, consts)) \/ (c.fields # <<>> /\ ~ValidShape(f, d)) ->
            <<[policy EXCEPT !.body = <<WrongStmt>>, !.entry = TRUE]>>
      [] d.binding = "auth" -> <<policy, Entrypoint(c, policy, AuthName(f.n), AuthBody(c, policy, d))>>
      [] OTHER -> <<policy, Entrypoint(c, policy, LeaderName(f.n), LeaderBody(c, policy, d)),
                    [Entrypoint(c, policy, DelegateName(f.n), DelegateBody) EXCEPT !.params = <<>>]>>
LowerCovenant(c, f, consts) ==
    IF f.attrs = <<>> THEN <<f>>
    ELSE LowerPolicy(c, f, Declaration(f, consts), [f EXCEPT !.n = PolicyName(@), !.entry = FALSE, !.attrs = <<>>], consts)
LowerCovenants(c, consts) ==
    [c EXCEPT !.funs = FlattenSeq([i \in DOMAIN @ |-> LowerCovenant(c, @[i], consts)])]
=============================================================================
