------------------------ MODULE SilverDebuggerProofs ------------------------
(***************************************************************************)
(* Theorems of SilverDebugger for every set of recorded contracts: each    *)
(* command of the prompt ends, a command that stops has moved on to a      *)
(* later statement, and neither the engine nor the cursor ever goes back.  *)
(***************************************************************************)
EXTENDS SilverDebugger, NatInduction, SequenceTheorems

\* The rounds of a loop, each a function of where it starts.
Unrolled(f, S, going, next) ==
  \A k \in 0 .. MaxRounds : \A e \in S :
     f[k][e] = IF k = 0 \/ e \notin going THEN e ELSE f[k - 1][next[e]]

\* A loop is its rounds: the recursive function that defines it exists.
LEMMA WhileUnfolds ==
  ASSUME NEW S, NEW going, NEW next, DOMAIN next = S, \A e \in S : next[e] \in S, MaxRounds \in Nat, NEW d
  PROVE  \E f : While(going, next, d) = f[MaxRounds][d] /\ Unrolled(f, S, going, next)
<1> DEFINE Row(k, h) == [e \in S |-> IF k = 0 \/ e \notin going THEN e ELSE h[next[e]]]
           Rows(f) == [k \in 0 .. MaxRounds |-> [e \in DOMAIN next |-> IF k = 0 \/ e \notin going THEN e ELSE f[k - 1][next[e]]]]
           maps == [S -> S]
           s0 == [e \in S |-> e]
           round == [k \in 1 .. MaxRounds |-> [h \in maps |-> Row(k, h)]]
           f == CHOOSE g : g = Rows(g)
<1>1. s0 \in maps
  OBVIOUS
<1>2. round \in [1 .. MaxRounds -> [maps -> maps]]
  <2>1. ASSUME NEW k \in 1 .. MaxRounds, NEW h \in maps PROVE Row(k, h) \in maps
    OBVIOUS
  <2> HIDE DEF Row, maps
  <2> QED BY <2>1
<1>3. PICK g : Iterates(g, MaxRounds, maps, s0, round)
  <2> HIDE DEF maps, s0, round
  <2> QED BY <1>1, <1>2, RecursiveFunctionExists
<1>4. g = Rows(g)
  <2>1. g = [k \in 0 .. MaxRounds |-> g[k]] /\ \A k \in 0 .. MaxRounds : g[k] \in maps
    BY <1>3 DEF Iterates
  <2>2. ASSUME NEW k \in 0 .. MaxRounds
        PROVE  g[k] = [e \in DOMAIN next |-> IF k = 0 \/ e \notin going THEN e ELSE g[k - 1][next[e]]]
    <3>1. CASE k = 0
      <4>1. g[k] = s0
        BY <1>3, <3>1 DEF Iterates
      <4> QED BY <3>1, <4>1
    <3>2. CASE k # 0
      <4>1. k \in 1 .. MaxRounds /\ k - 1 \in 0 .. MaxRounds
        BY <3>2
      <4>2. g[k] = round[k][g[k - 1]] /\ g[k - 1] \in maps
        <5> HIDE DEF maps, s0, round
        <5> QED BY <1>3, <2>1, <4>1 DEF Iterates
      <4>3. g[k] = Row(k, g[k - 1])
        <5> HIDE DEF Row, maps
        <5> QED BY <4>1, <4>2
      <4> QED BY <4>3
    <3> QED BY <3>1, <3>2
  <2> HIDE DEF maps
  <2> QED BY <2>1, <2>2
<1>5. f = Rows(f)
  <2> HIDE DEF Rows
  <2> QED BY <1>4
<1>6. While(going, next, d) = f[MaxRounds][d]
  BY DEF While
<1> HIDE DEF f
<1>7. \A k \in 0 .. MaxRounds : \A e \in S : f[k][e] = IF k = 0 \/ e \notin going THEN e ELSE f[k - 1][next[e]]
  BY <1>5
<1> QED BY <1>6, <1>7 DEF Unrolled

\* A loop that never leaves S, started in G which it never leaves either, with a
\* measure that each round lowers and that is at most the limit: it ends in G, and
\* it ends because it is done.
LEMMA WhileEnds ==
  ASSUME NEW S, NEW going, NEW next, DOMAIN next = S, \A e \in S : next[e] \in S, MaxRounds \in Nat,
         NEW G \in SUBSET S, \A e \in G : e \in going => next[e] \in G,
         NEW mu, \A e \in G : mu[e] \in Nat /\ (e \in going => mu[next[e]] < mu[e]),
         NEW d \in G, mu[d] <= MaxRounds
  PROVE  While(going, next, d) \in G /\ While(going, next, d) \notin going
<1>0. PICK f : While(going, next, d) = f[MaxRounds][d] /\ Unrolled(f, S, going, next)
  BY WhileUnfolds
<1>1. /\ While(going, next, d) = f[MaxRounds][d]
      /\ \A k \in 0 .. MaxRounds : \A e \in S :
            f[k][e] = IF k = 0 \/ e \notin going THEN e ELSE f[k - 1][next[e]]
  BY <1>0 DEF Unrolled
<1> DEFINE ends(k) == \A e \in G : mu[e] <= k => f[k][e] \in G /\ f[k][e] \notin going
           good == {k \in Nat : k <= MaxRounds => ends(k)}
<1>2. 0 \in good
  <2>1. ASSUME NEW e \in G, mu[e] <= 0 PROVE f[0][e] \in G /\ f[0][e] \notin going
    <3>1. f[0][e] = e
      BY <1>1
    <3>2. e \notin going
      BY <2>1
    <3> QED BY <3>1, <3>2
  <2> QED BY <2>1
<1>3. ASSUME NEW k \in good PROVE k + 1 \in good
  <2> SUFFICES ASSUME k + 1 <= MaxRounds PROVE ends(k + 1)
    OBVIOUS
  <2>1. ends(k)
    BY <1>3
  <2>2. ASSUME NEW e \in G, mu[e] <= k + 1 PROVE f[k + 1][e] \in G /\ f[k + 1][e] \notin going
    <3>1. k + 1 \in 0 .. MaxRounds /\ k + 1 # 0 /\ (k + 1) - 1 = k
      OBVIOUS
    <3>2. f[k + 1][e] = IF e \notin going THEN e ELSE f[k][next[e]]
      BY <1>1, <3>1
    <3>3. CASE e \in going
      <4>1. next[e] \in G /\ mu[next[e]] < mu[e] /\ mu[next[e]] \in Nat /\ mu[e] \in Nat
        BY <3>3
      <4>2. mu[next[e]] <= k
        BY <2>2, <4>1
      <4> QED BY <2>1, <3>2, <3>3, <4>1, <4>2
    <3>4. CASE e \notin going
      BY <3>2, <3>4
    <3> QED BY <3>3, <3>4
  <2> HIDE DEF good
  <2> QED BY <2>2
<1>4. good = Nat
  <2>1. good \in SUBSET Nat
    OBVIOUS
  <2> HIDE DEF good
  <2> QED BY <1>2, <1>3, <2>1, NatSetInduction
<1>5. MaxRounds \in good
  <2> HIDE DEF good
  <2> QED BY <1>4
<1>6. ends(MaxRounds)
  BY <1>5
<1> QED BY <1>1, <1>6

-----------------------------------------------------------------------------
\* What the records of every compilation are, in the order of a session: numbered,
\* and no two with one number.
RecordsOK ==
  /\ Len(script) \in Nat /\ Len(steps) \in Nat /\ DOMAIN steps = 1 .. Len(steps)
  /\ \A i \in Steps : step(i).seq \in 0 .. Len(steps) - 1 /\ step(i).depth \in Nat
  /\ \A i, j \in Steps : step(i).seq = step(j).seq => i = j

Running == {"stopped", "ended", "failed"}
\* Not an earlier statement; a later one.
NotEarlier(c, i) == c # 0 => i # 0 /\ step(c).seq <= step(i).seq
Later(c, i) == i # 0 /\ (c # 0 => step(c).seq < step(i).seq)
\* The sessions that an engine at p and a cursor at c can come to, with a status of a set.
Since(p, c, statuses) ==
  {e \in Sessions : p <= e.pc /\ NotEarlier(c, e.cursor) /\ e.status \in statuses}
\* From d a command has come to e: nothing went back, and if it stopped it moved on.
Onward(d, e) == e \in Since(d.pc, d.cursor, Running) /\ (Stopped(e) => Later(d.cursor, e.cursor))

\* A session's state, field by field.
LEMMA SessionIs ==
  ASSUME NEW d
  PROVE  d \in Sessions <=>
           /\ d = [pc |-> d.pc, cursor |-> d.cursor, executed |-> d.executed, printed |-> d.printed, status |-> d.status]
           /\ d.pc \in 0 .. Len(script) /\ d.cursor \in {0} \cup Steps
           /\ d.printed \subseteq d.executed /\ d.executed \subseteq Steps
           /\ d.status \in {"new", "stopped", "ended", "failed", "no"}
BY DEF Sessions

\* The first of some steps is one of them, if there is any.
LEMMA FirstIsOne ==
  ASSUME NEW S \in SUBSET Steps, RecordsOK
  PROVE  First(S) \in {0} \cup S /\ (S # {} => First(S) \in S /\ First(S) # 0)
<1>1. S \in SUBSET Nat /\ 0 \notin S
  BY DEF RecordsOK, Steps
<1>2. CASE S = {}
  BY <1>2 DEF First
<1>3. CASE S # {}
  <2>1. \E m \in S : \A k \in S : m <= k
    BY <1>1, <1>3, LeastNat
  <2>2. Min(S) \in S
    BY <2>1 DEF Min
  <2> QED BY <1>1, <1>3, <2>2 DEF First
<1> QED BY <1>2, <1>3

\* Marking a step that is not an earlier one takes a session no way back.
LEMMA MarkStays ==
  ASSUME RecordsOK, NEW p \in Nat, NEW c \in {0} \cup Steps, NEW T, NEW d \in Since(p, c, T),
         NEW i \in Steps, NotEarlier(c, i)
  PROVE  /\ MarkExecuted(d, i) \in Since(p, c, T)
         /\ MarkExecuted(d, i).cursor = i /\ MarkExecuted(d, i).pc = d.pc /\ MarkExecuted(d, i).status = d.status
<1> DEFINE boundary == {j \in 1 .. i - 1 : ~Steppable(j) /\ step(j).start = step(i).start /\ step(j).seq < step(i).seq}
           skipped == {j \in 1 .. i - 1 : /\ step(j).skip
                                          /\ step(j).seq < step(i).seq
                                          /\ step(j).start <= step(i).start
                                          /\ step(j).end <= step(i).end}
           before == d.executed \cup boundary \cup skipped
           shown == IF step(i).k = "console" /\ i \notin before THEN d.printed \cup {i} ELSE d.printed
           e == MarkExecuted(d, i)
<1>1. d \in Sessions /\ p <= d.pc /\ d.status \in T
  BY DEF Since
<1>2. /\ d = [pc |-> d.pc, cursor |-> d.cursor, executed |-> d.executed, printed |-> d.printed, status |-> d.status]
      /\ d.pc \in 0 .. Len(script) /\ d.printed \subseteq d.executed /\ d.executed \subseteq Steps
      /\ d.status \in {"new", "stopped", "ended", "failed", "no"}
  BY <1>1, SessionIs
<1>3. before \subseteq Steps /\ shown \subseteq before \cup {i}
  BY <1>2 DEF RecordsOK, Steps
<1>4. e = [d EXCEPT !.cursor = i, !.executed = before \cup {i}, !.printed = shown]
  BY DEF MarkExecuted
<1> HIDE DEF before, shown, e
<1>5. e = [pc |-> d.pc, cursor |-> i, executed |-> before \cup {i}, printed |-> shown, status |-> d.status]
  BY <1>2, <1>4
<1>6. e.pc = d.pc /\ e.cursor = i /\ e.executed = before \cup {i} /\ e.printed = shown /\ e.status = d.status
  BY <1>5
<1>7. e \in Sessions
  <2>1. e = [pc |-> e.pc, cursor |-> e.cursor, executed |-> e.executed, printed |-> e.printed, status |-> e.status]
    BY <1>5, <1>6
  <2> QED BY <1>2, <1>3, <1>6, <2>1, SessionIs
<1> QED BY <1>1, <1>6, <1>7 DEF Since, e

\* Going on from where one has come to.
LEMMA SinceFurther ==
  ASSUME RecordsOK, NEW d \in Sessions, NEW S, NEW T, NEW e \in Since(d.pc, d.cursor, S), NEW x \in Since(e.pc, e.cursor, T)
  PROVE  x \in Since(d.pc, d.cursor, T)
<1>1. e \in Sessions /\ x \in Sessions
  BY DEF Since
<1>2. /\ d.pc \in Nat /\ e.pc \in Nat /\ x.pc \in Nat
      /\ d.cursor \in {0} \cup Steps /\ e.cursor \in {0} \cup Steps /\ x.cursor \in {0} \cup Steps
  BY <1>1, SessionIs
<1>3. \A i \in Steps : step(i).seq \in Nat
  BY DEF RecordsOK
<1> QED BY <1>1, <1>2, <1>3 DEF Since, NotEarlier

\* The step for an offset is not before the number asked for.
LEMMA IndexIsAhead ==
  ASSUME RecordsOK, NEW d, NEW min
  PROVE  IndexForOffset(d, min) \in {0} \cup {i \in Steps : step(i).seq >= min}
<1> DEFINE ahead == {i \in Steps : Steppable(i) /\ step(i).seq >= min}
           ends == d.cursor # 0 /\ ~step(d.cursor).post /\ step(d.cursor).end = d.pc
           starting == {i \in ahead : ends /\ step(i).start = d.pc}
           S == IF starting # {} THEN starting ELSE {i \in ahead : Covers(i, d.pc)}
<1>1. S \in SUBSET ahead
  OBVIOUS
<1>2. ahead \in SUBSET Steps /\ \A i \in ahead : step(i).seq >= min
  OBVIOUS
<1>3. IndexForOffset(d, min) = First(S)
  BY DEF IndexForOffset
<1> HIDE DEF S, ahead
<1>4. First(S) \in {0} \cup S
  BY <1>1, <1>2, FirstIsOne
<1> QED BY <1>1, <1>2, <1>3, <1>4

\* An opcode takes a session no way back, and advances the engine or ends the session.
LEMMA OpcodeStays ==
  ASSUME RecordsOK, NEW p \in Nat, NEW c \in {0} \cup Steps, NEW T, {"ended", "failed"} \subseteq T, NEW d \in Since(p, c, T)
  PROVE  LET e == StepOpcode(d) IN
         /\ e \in Since(p, c, T)
         /\ e.status \notin {"ended", "failed"} => e.pc = d.pc + 1 /\ d.pc < Len(script) /\ e.status = d.status
<1> DEFINE e == StepOpcode(d)
           n == [d EXCEPT !.pc = d.pc + 1]
           i == IndexForOffset(n, IF n.cursor = 0 THEN 0 ELSE step(n.cursor).seq)
<1>1. d \in Sessions /\ p <= d.pc /\ d.status \in T /\ NotEarlier(c, d.cursor)
  BY DEF Since
<1>2. /\ d = [pc |-> d.pc, cursor |-> d.cursor, executed |-> d.executed, printed |-> d.printed, status |-> d.status]
      /\ d.pc \in 0 .. Len(script) /\ d.printed \subseteq d.executed /\ d.executed \subseteq Steps
      /\ d.cursor \in {0} \cup Steps
      /\ d.status \in {"new", "stopped", "ended", "failed", "no"}
  BY <1>1, SessionIs
<1>3. ASSUME NEW outcome \in {"ended", "failed"}
      PROVE  [d EXCEPT !.status = outcome] \in Since(p, c, T) /\ [d EXCEPT !.status = outcome].status = outcome
  <2> DEFINE x == [d EXCEPT !.status = outcome]
  <2>1. x = [pc |-> d.pc, cursor |-> d.cursor, executed |-> d.executed, printed |-> d.printed, status |-> outcome]
    BY <1>2
  <2> HIDE DEF x
  <2>2. x.pc = d.pc /\ x.cursor = d.cursor /\ x.executed = d.executed /\ x.printed = d.printed /\ x.status = outcome
    BY <2>1
  <2>3. x \in Sessions
    BY <1>2, <2>1, <2>2, SessionIs
  <2> QED BY <1>1, <2>2, <2>3 DEF Since, x
<1>4. CASE d.pc = Len(script)
  BY <1>3, <1>4 DEF StepOpcode
<1>5. CASE d.pc # Len(script) /\ d.pc + 1 = failing
  BY <1>3, <1>5 DEF StepOpcode
<1>6. CASE d.pc # Len(script) /\ d.pc + 1 # failing
  <2>1. n = [pc |-> d.pc + 1, cursor |-> d.cursor, executed |-> d.executed, printed |-> d.printed, status |-> d.status]
    BY <1>2
  <2>2. e = Sync(n)
    BY <1>6 DEF StepOpcode
  <2>3. Sync(n) = IF i = 0 \/ i < n.cursor THEN n ELSE MarkExecuted(n, i)
    BY DEF Sync
  <2>4. i \in {0} \cup {j \in Steps : step(j).seq >= IF n.cursor = 0 THEN 0 ELSE step(n.cursor).seq}
    BY IndexIsAhead
  <2> HIDE DEF n, i, e
  <2>5. n.pc = d.pc + 1 /\ n.cursor = d.cursor /\ n.executed = d.executed /\ n.printed = d.printed /\ n.status = d.status
    BY <2>1
  <2>6. Len(script) \in Nat /\ d.pc < Len(script) /\ n.pc \in 0 .. Len(script)
    BY <1>2, <1>6, <2>5 DEF RecordsOK
  <2>7. n \in Since(p, c, T)
    <3>1. n \in Sessions
      BY <1>2, <2>1, <2>5, <2>6, SessionIs
    <3> QED BY <1>1, <1>2, <2>5, <2>6, <3>1 DEF Since
  <2>8. ASSUME i # 0 PROVE i \in Steps /\ NotEarlier(c, i)
    <3>1. \A j \in Steps : step(j).seq \in Nat
      BY DEF RecordsOK
    <3> QED BY <1>1, <1>2, <2>4, <2>5, <2>8, <3>1 DEF NotEarlier
  <2>9. e \in Since(p, c, T) /\ e.pc = n.pc /\ e.status = n.status
    <3>1. CASE i = 0 \/ i < n.cursor
      BY <2>2, <2>3, <2>7, <3>1
    <3>2. CASE ~(i = 0 \/ i < n.cursor)
      BY <2>2, <2>3, <2>7, <2>8, <3>2, MarkStays
    <3> QED BY <3>1, <3>2
  <2> QED BY <2>5, <2>6, <2>9 DEF e
<1> QED BY <1>2, <1>4, <1>5, <1>6

\* Loops over single opcodes end: each of them advances the engine or ends the session.
LEMMA OpcodesEnd ==
  ASSUME RecordsOK, NEW p \in Nat, NEW c \in {0} \cup Steps, NEW T, {"ended", "failed"} \subseteq T, NEW d \in Since(p, c, T),
         NEW going, \A e \in going : Stopped(e)
  PROVE  While(going, OpcodeOnce, d) \in Since(p, c, T) /\ While(going, OpcodeOnce, d) \notin going
<1> DEFINE G == Since(p, c, T)
           mu == [e \in Sessions |-> IF Stopped(e) THEN Len(script) - e.pc + 1 ELSE 0]
           all == {"new", "stopped", "ended", "failed", "no"}
<1>1. MaxRounds \in Nat /\ Len(script) + 1 <= MaxRounds
  BY DEF MaxRounds, RecordsOK
<1>2. DOMAIN OpcodeOnce = Sessions /\ \A e \in Sessions : OpcodeOnce[e] = StepOpcode(e)
  BY DEF OpcodeOnce
<1>3. ASSUME NEW e \in Sessions PROVE OpcodeOnce[e] \in Sessions
  <2>1. e \in Since(0, 0, all)
    BY SessionIs DEF Since, NotEarlier
  <2>2. StepOpcode(e) \in Since(0, 0, all)
    BY <2>1, OpcodeStays
  <2> QED BY <1>2, <2>2 DEF Since
<1>4. G \in SUBSET Sessions
  BY DEF Since
<1>5. ASSUME NEW e \in G PROVE OpcodeOnce[e] \in G
  <2>1. StepOpcode(e) \in Since(p, c, T)
    BY OpcodeStays
  <2> QED BY <1>2, <1>4, <2>1
<1>6. \A e \in Sessions : mu[e] \in Nat /\ mu[e] <= MaxRounds
  <2>1. \A e \in Sessions : e.pc \in 0 .. Len(script)
    BY SessionIs
  <2> QED BY <1>1, <2>1 DEF RecordsOK
<1>7. ASSUME NEW e \in G, e \in going PROVE mu[OpcodeOnce[e]] < mu[e]
  <2> DEFINE x == StepOpcode(e)
  <2>1. /\ x \in Since(p, c, T)
        /\ x.status \notin {"ended", "failed"} => x.pc = e.pc + 1 /\ e.pc < Len(script)
    BY OpcodeStays
  <2>2. Stopped(e) /\ e \in Sessions /\ OpcodeOnce[e] = x
    BY <1>2, <1>4, <1>7
  <2> HIDE DEF x
  <2>3. x \in Sessions /\ x.pc \in 0 .. Len(script) /\ e.pc \in 0 .. Len(script) /\ Len(script) \in Nat
    BY <2>1, <2>2, SessionIs DEF Since, RecordsOK
  <2>4. mu[e] = Len(script) - e.pc + 1 /\ mu[x] = IF Stopped(x) THEN Len(script) - x.pc + 1 ELSE 0
    BY <2>2, <2>3
  <2>5. CASE Stopped(x)
    <3>1. x.pc = e.pc + 1 /\ mu[x] = Len(script) - x.pc + 1
      BY <2>1, <2>4, <2>5 DEF Stopped
    <3> HIDE DEF mu
    <3> QED BY <2>2, <2>3, <2>4, <3>1
  <2>6. CASE ~Stopped(x)
    <3> HIDE DEF mu
    <3> QED BY <2>2, <2>3, <2>4, <2>6
  <2> QED BY <2>5, <2>6
<1> HIDE DEF G, mu
<1>8. d \in G
  BY DEF G
<1>9. While(going, OpcodeOnce, d) \in G /\ While(going, OpcodeOnce, d) \notin going
  BY <1>1, <1>2, <1>3, <1>4, <1>5, <1>6, <1>7, <1>8, WhileEnds
<1> QED BY <1>9 DEF G

-----------------------------------------------------------------------------
\* A session given another status.
WithStatus(d, outcome) == [d EXCEPT !.status = outcome]
LEMMA StatusSet ==
  ASSUME NEW p, NEW c, NEW T, NEW d \in Since(p, c, T),
         NEW outcome \in {"new", "stopped", "ended", "failed", "no"}, NEW U, outcome \in U
  PROVE  WithStatus(d, outcome) \in Since(p, c, U) /\ WithStatus(d, outcome).status = outcome
<1> DEFINE x == [d EXCEPT !.status = outcome]
<1>1. d \in Sessions /\ p <= d.pc /\ NotEarlier(c, d.cursor)
  BY DEF Since
<1>2. /\ d = [pc |-> d.pc, cursor |-> d.cursor, executed |-> d.executed, printed |-> d.printed, status |-> d.status]
      /\ d.pc \in 0 .. Len(script) /\ d.printed \subseteq d.executed /\ d.executed \subseteq Steps
      /\ d.cursor \in {0} \cup Steps
  BY <1>1, SessionIs
<1>3. x = [pc |-> d.pc, cursor |-> d.cursor, executed |-> d.executed, printed |-> d.printed, status |-> outcome]
  BY <1>2
<1> HIDE DEF x
<1>4. x.pc = d.pc /\ x.cursor = d.cursor /\ x.executed = d.executed /\ x.printed = d.printed /\ x.status = outcome
  BY <1>3
<1>5. x \in Sessions
  BY <1>2, <1>3, <1>4, SessionIs
<1> QED BY <1>1, <1>4, <1>5 DEF Since, x, WithStatus

LEMMA SinceTrue ==
  ASSUME NEW p, NEW c, NEW T, NEW d \in Since(p, c, T), NEW U, T \subseteq U
  PROVE  d \in Since(p, c, U)
BY DEF Since

\* The session runs to its end.
LEMMA RunEnds ==
  ASSUME RecordsOK, NEW p \in Nat, NEW c \in {0} \cup Steps, NEW d \in Since(p, c, Running)
  PROVE  RunUntilEnd(d) \in Since(p, c, Running) /\ ~Stopped(RunUntilEnd(d))
<1> DEFINE going == {e \in Sessions : Stopped(e)}
           e == While(going, OpcodeOnce, d)
<1>1. {"ended", "failed"} \subseteq Running /\ (\A x \in going : Stopped(x)) /\ RunUntilEnd(d) = e
  BY DEF Running, RunUntilEnd
<1> HIDE DEF going
<1>2. e \in Since(p, c, Running) /\ e \notin going
  BY <1>1, OpcodesEnd
<1> HIDE DEF e
<1>3. e \in Sessions
  BY <1>2 DEF Since
<1> QED BY <1>1, <1>2, <1>3 DEF going

\* The engine comes to the step, or past it, or the session ends.
LEMMA AdvanceEnds ==
  ASSUME RecordsOK, NEW p \in Nat, NEW c \in {0} \cup Steps, NEW d \in Since(p, c, Running),
         NEW i \in Steps, NotEarlier(c, i)
  PROVE  /\ AdvanceTo(d, i) \in Since(p, c, Running \cup {"no"})
         /\ Stopped(AdvanceTo(d, i)) => AdvanceTo(d, i).cursor = i
<1> DEFINE going == {x \in Sessions : Stopped(x) /\ ~Reached(x, i) /\ ~GoneBy(x, i)}
           e == While(going, OpcodeOnce, d)
<1>1. {"ended", "failed"} \subseteq Running /\ (\A x \in going : Stopped(x))
  BY DEF Running
<1>2. AdvanceTo(d, i) = IF ~Stopped(e) THEN e ELSE IF Reached(e, i) THEN MarkExecuted(e, i) ELSE [e EXCEPT !.status = "no"]
  BY DEF AdvanceTo
<1> HIDE DEF going
<1>3. e \in Since(p, c, Running)
  BY <1>1, OpcodesEnd
<1> HIDE DEF e
<1>4. CASE ~Stopped(e)
  BY <1>2, <1>3, <1>4, SinceTrue
<1>5. CASE Stopped(e) /\ Reached(e, i)
  <2>1. MarkExecuted(e, i) \in Since(p, c, Running) /\ MarkExecuted(e, i).cursor = i
    BY <1>3, MarkStays
  <2> QED BY <1>2, <1>5, <2>1, SinceTrue
<1>6. CASE Stopped(e) /\ ~Reached(e, i)
  <2>0. "no" \in {"new", "stopped", "ended", "failed", "no"} /\ "no" \in Running \cup {"no"}
    OBVIOUS
  <2>1. [e EXCEPT !.status = "no"] \in Since(p, c, Running \cup {"no"}) /\ [e EXCEPT !.status = "no"].status = "no"
    <3> DEFINE s == "no"
               U == Running \cup {"no"}
    <3>1. s \in {"new", "stopped", "ended", "failed", "no"} /\ s \in U
      BY <2>0
    <3> HIDE DEF s, U
    <3>2. WithStatus(e, s) \in Since(p, c, U) /\ WithStatus(e, s).status = s
      BY <1>3, <3>1, StatusSet
    <3> QED BY <3>2 DEF s, U, WithStatus
  <2>2. AdvanceTo(d, i) = [e EXCEPT !.status = "no"]
    BY <1>2, <1>6
  <2> QED BY <2>1, <2>2 DEF Stopped
<1> QED BY <1>4, <1>5, <1>6

\* The next step to try is one of those asked for, with a larger number.
LEMMA NextIsLater ==
  ASSUME RecordsOK, NEW from \in {0} \cup Steps, NEW among \in SUBSET Steps
  PROVE  NextStep(from, among) = 0 \/ (NextStep(from, among) \in among /\ Later(from, NextStep(from, among)))
<1> DEFINE enter == from # 0 /\ step(from).kind = "enter"
           post == from # 0 /\ step(from).post
           narrow == IF enter THEN PostInlineAfter(from, TRUE, among) ELSE 0
           wide == IF enter \/ post THEN PostInlineAfter(from, FALSE, among) ELSE 0
           repeats(i) == /\ post /\ step(i).kind = "source"
                         /\ step(i).start = step(from).start /\ step(i).start = step(i).end
           later == {i \in among : /\ i > from /\ Steppable(i) /\ ~step(i).skip /\ ~repeats(i)
                                   /\ (from # 0 => step(i).seq >= step(from).seq)}
<1>1. NextStep(from, among) = IF narrow # 0 THEN narrow ELSE IF wide # 0 THEN wide ELSE First(later)
  BY DEF NextStep
<1>2. ASSUME NEW same \in BOOLEAN
      PROVE  LET i == PostInlineAfter(from, same, among) IN i = 0 \/ (i \in among /\ step(i).seq > step(from).seq)
  <2> DEFINE width(j) == step(j).end - step(j).start
             around == {j \in among : /\ step(j).post /\ step(j).seq > step(from).seq
                                      /\ step(j).start <= step(from).start
                                      /\ IF same THEN step(j).end = step(from).end ELSE step(j).end >= step(from).end}
             least == {j \in around : \A k \in around : width(j) <= width(k)}
  <2>1. least \in SUBSET around /\ around \in SUBSET among /\ \A j \in around : step(j).seq > step(from).seq
    OBVIOUS
  <2>2. PostInlineAfter(from, same, among) = First(least)
    BY DEF PostInlineAfter
  <2> HIDE DEF least, around
  <2>3. least \in SUBSET Steps
    BY <2>1
  <2>4. First(least) \in {0} \cup least
    BY <2>3, FirstIsOne
  <2> QED BY <2>1, <2>2, <2>4
<1>3. 0 \notin Steps /\ \A i \in Steps : i \in Nat /\ step(i).seq \in Nat
  BY DEF RecordsOK, Steps
<1>4. narrow = 0 \/ (narrow \in among /\ Later(from, narrow))
  <2>1. narrow = 0 \/ (narrow \in among /\ step(narrow).seq > step(from).seq /\ from # 0)
    BY <1>2
  <2> HIDE DEF narrow
  <2> QED BY <1>3, <2>1 DEF Later
<1>5. wide = 0 \/ (wide \in among /\ Later(from, wide))
  <2>1. wide = 0 \/ (wide \in among /\ step(wide).seq > step(from).seq /\ from # 0)
    BY <1>2
  <2> HIDE DEF wide
  <2> QED BY <1>3, <2>1 DEF Later
<1>6. First(later) = 0 \/ (First(later) \in among /\ Later(from, First(later)))
  <2>1. later \in SUBSET among /\ \A i \in later : i > from /\ (from # 0 => step(i).seq >= step(from).seq)
    OBVIOUS
  <2> HIDE DEF later
  <2>2. First(later) \in {0} \cup later
    BY <2>1, FirstIsOne
  <2>3. ASSUME NEW i \in later PROVE Later(from, i)
    <3>1. i \in Steps /\ i # 0 /\ i # from
      BY <1>3, <2>1
    <3>2. from # 0 => step(i).seq # step(from).seq
      BY <3>1 DEF RecordsOK
    <3> QED BY <1>3, <2>1, <3>1, <3>2 DEF Later
  <2> QED BY <2>1, <2>2, <2>3
<1> HIDE DEF narrow, wide, later
<1> QED BY <1>1, <1>4, <1>5, <1>6

-----------------------------------------------------------------------------
\* A hunt that started from a cursor c: its session has gone back nowhere, what it tries
\* next is not before c, and where it stopped is behind c and among the steps asked for.
HuntsFrom(p, c, among) ==
  {h \in Hunts : /\ h.d \in Since(p, c, Running \cup {"no"})
                 /\ h.d.status = "no" => NotEarlier(c, h.at)
                 /\ Stopped(h.d) => Later(c, h.d.cursor) /\ h.d.cursor \in among}

LEMMA HuntIs ==
  ASSUME NEW at \in {0} \cup Steps, NEW d \in Sessions
  PROVE  [at |-> at, d |-> d] \in Hunts
BY DEF Hunts

LEMMA TryStays ==
  ASSUME RecordsOK, NEW p \in Nat, NEW c \in {0} \cup Steps, NEW T, NEW h \in Hunts, h.d \in Since(p, c, T),
         NotEarlier(c, h.at), NEW among \in SUBSET Steps
  PROVE  /\ Try(h, among) \in HuntsFrom(p, c, among)
         /\ Try(h, among).d.status = "no" => Later(h.at, Try(h, among).at)
<1> DEFINE i == NextStep(h.at, among)
           d == [h.d EXCEPT !.status = "stopped"]
           x == IF i = 0 THEN RunUntilEnd(d) ELSE AdvanceTo(d, i)
           U == Running \cup {"no"}
<1>1. h.at \in {0} \cup Steps /\ h.d \in Sessions
  BY DEF Hunts
<1>2. d \in Since(p, c, Running)
  <2> DEFINE s == "stopped"
  <2>1. s \in {"new", "stopped", "ended", "failed", "no"} /\ s \in Running
    BY DEF Running
  <2> HIDE DEF s
  <2>2. WithStatus(h.d, s) \in Since(p, c, Running)
    BY <2>1, StatusSet
  <2> QED BY <2>2 DEF s, WithStatus
<1>3. i = 0 \/ (i \in among /\ Later(h.at, i))
  BY <1>1, NextIsLater
<1>4. Try(h, among) = [at |-> i, d |-> x]
  BY DEF Try
<1>5. ASSUME i # 0 PROVE i \in Steps /\ NotEarlier(c, i) /\ Later(c, i)
  <2>1. i \in Steps /\ Later(h.at, i)
    BY <1>3, <1>5
  <2> HIDE DEF i
  <2>2. (\A j \in Steps : step(j).seq \in Nat /\ j # 0) /\ (c # 0 => c \in Steps) /\ (h.at # 0 => h.at \in Steps)
    BY <1>1 DEF RecordsOK, Steps
  <2> QED BY <2>1, <2>2 DEF NotEarlier, Later
<1> HIDE DEF d, i
<1>6. x \in Since(p, c, U) /\ (x.status = "no" => i # 0) /\ (Stopped(x) => i # 0 /\ x.cursor = i)
  <2>1. CASE i = 0
    <3>1. RunUntilEnd(d) \in Since(p, c, Running) /\ ~Stopped(RunUntilEnd(d))
      BY <1>2, RunEnds
    <3>2. RunUntilEnd(d).status # "no"
      BY <3>1 DEF Since, Running
    <3> QED BY <2>1, <3>1, <3>2, SinceTrue
  <2>2. CASE i # 0
    <3>1. AdvanceTo(d, i) \in Since(p, c, U) /\ (Stopped(AdvanceTo(d, i)) => AdvanceTo(d, i).cursor = i)
      BY <1>2, <1>5, <2>2, AdvanceEnds
    <3> QED BY <2>2, <3>1
  <2> QED BY <2>1, <2>2
<1> HIDE DEF x
<1>7. i \in {0} \cup Steps /\ x \in Sessions
  BY <1>5, <1>6 DEF Since
<1> DEFINE y == [at |-> i, d |-> x]
<1>8. y \in Hunts /\ y.at = i /\ y.d = x
  BY <1>7, HuntIs
<1> HIDE DEF y
<1>9. y \in HuntsFrom(p, c, among)
  BY <1>3, <1>5, <1>6, <1>8 DEF HuntsFrom, U
<1>10. y.d.status = "no" => Later(h.at, y.at)
  BY <1>3, <1>6, <1>8
<1> QED BY <1>4, <1>9, <1>10 DEF y

\* The search ends: each step it tries has a larger number than the one before.
LEMMA SearchEnds ==
  ASSUME RecordsOK, NEW d \in Sessions, NEW among \in SUBSET Steps
  PROVE  /\ Onward(d, Search(d, among))
         /\ Stopped(Search(d, among)) => Search(d, among).cursor \in among
<1> DEFINE going == {h \in Hunts : h.d.status = "no"}
           next == [h \in Hunts |-> Try(h, among)]
           start == [at |-> d.cursor, d |-> [d EXCEPT !.status = "no"]]
           G == HuntsFrom(d.pc, d.cursor, among)
           Left(i) == IF i = 0 THEN Len(steps) + 1 ELSE Len(steps) - step(i).seq
           mu == [h \in Hunts |-> IF h.d.status = "no" THEN 1 + Left(h.at) ELSE 0]
           all == {"new", "stopped", "ended", "failed", "no"}
           y == While(going, next, start)
<1>1. MaxRounds \in Nat /\ Len(steps) + 2 <= MaxRounds
  BY DEF MaxRounds, RecordsOK
<1>2. DOMAIN next = Hunts /\ \A h \in Hunts : next[h] = Try(h, among)
  OBVIOUS
<1>3. /\ d.pc \in Nat /\ d.cursor \in {0} \cup Steps
      /\ (\A j \in Steps : step(j).seq \in Nat /\ step(j).seq <= Len(steps) - 1 /\ j # 0) /\ Len(steps) \in Nat
  BY SessionIs DEF RecordsOK, Steps
<1>4. \A h \in Hunts : h.at \in {0} \cup Steps /\ h.d \in Sessions
  BY DEF Hunts
<1>5. ASSUME NEW h \in Hunts PROVE next[h] \in Hunts
  <2>1. h.d \in Since(0, 0, all) /\ NotEarlier(0, h.at)
    BY <1>4, SessionIs DEF Since, NotEarlier
  <2>2. Try(h, among) \in HuntsFrom(0, 0, among)
    BY <2>1, TryStays
  <2> QED BY <1>2, <2>2 DEF HuntsFrom
<1>6. G \in SUBSET Hunts
  BY DEF HuntsFrom
<1>7. ASSUME NEW h \in G, h \in going
      PROVE  next[h] \in G /\ (next[h].d.status = "no" => Later(h.at, next[h].at))
  <2>1. h \in Hunts /\ h.d.status = "no" /\ h.d \in Since(d.pc, d.cursor, Running \cup {"no"}) /\ NotEarlier(d.cursor, h.at)
    BY <1>7 DEF HuntsFrom
  <2>2. Try(h, among) \in G /\ (Try(h, among).d.status = "no" => Later(h.at, Try(h, among).at))
    BY <1>3, <2>1, TryStays
  <2> QED BY <1>2, <2>1, <2>2
<1>8. \A i \in {0} \cup Steps : Left(i) \in Nat /\ Left(i) <= Len(steps) + 1
  BY <1>3
<1>9. \A h \in Hunts : mu[h] \in Nat /\ mu[h] <= MaxRounds
  <2> SUFFICES ASSUME NEW h \in Hunts PROVE mu[h] \in Nat /\ mu[h] <= MaxRounds
    OBVIOUS
  <2>1. Left(h.at) \in Nat /\ Left(h.at) <= Len(steps) + 1
    BY <1>4, <1>8
  <2> HIDE DEF Left
  <2>2. mu[h] = IF h.d.status = "no" THEN 1 + Left(h.at) ELSE 0
    OBVIOUS
  <2> HIDE DEF mu
  <2> QED BY <1>1, <1>3, <2>1, <2>2
<1>10. ASSUME NEW h \in G, h \in going PROVE mu[next[h]] < mu[h]
  <2> DEFINE z == next[h]
  <2>1. z \in Hunts /\ h \in Hunts /\ h.d.status = "no"
    BY <1>6, <1>7, <1>10
  <2>2. z.d.status = "no" => Later(h.at, z.at)
    BY <1>7, <1>10
  <2> HIDE DEF z, next
  <2>3. mu[h] = 1 + Left(h.at) /\ mu[z] = IF z.d.status = "no" THEN 1 + Left(z.at) ELSE 0
    BY <2>1
  <2>4. Left(h.at) \in Nat /\ Left(z.at) \in Nat /\ h.at \in {0} \cup Steps /\ z.at \in {0} \cup Steps
    BY <1>4, <1>8, <2>1
  <2>5. CASE z.d.status = "no"
    <3>1. Left(z.at) < Left(h.at)
      BY <1>3, <2>2, <2>4, <2>5 DEF Later
    <3> HIDE DEF Left, mu
    <3> QED BY <2>3, <2>4, <2>5, <3>1 DEF z
  <2>6. CASE z.d.status # "no"
    <3> HIDE DEF Left, mu
    <3> QED BY <2>3, <2>4, <2>6 DEF z
  <2> QED BY <2>5, <2>6
<1>11. start \in G
  <2> DEFINE s == "no"
             U == Running \cup {"no"}
             x == WithStatus(d, s)
  <2>1. s \in {"new", "stopped", "ended", "failed", "no"} /\ s \in U
    OBVIOUS
  <2>2. d \in Since(d.pc, d.cursor, all)
    BY <1>3, SessionIs DEF Since, NotEarlier
  <2> HIDE DEF s, U, all
  <2>3. x \in Since(d.pc, d.cursor, U) /\ x.status = s
    BY <2>1, <2>2, StatusSet
  <2> HIDE DEF x
  <2>4. x \in Sessions
    BY <2>3 DEF Since
  <2> DEFINE w == [at |-> d.cursor, d |-> x]
  <2>5. w \in Hunts /\ w.at = d.cursor /\ w.d = x
    BY <1>3, <2>4, HuntIs
  <2> HIDE DEF w
  <2>6. w \in G
    BY <1>3, <2>3, <2>5 DEF HuntsFrom, NotEarlier, Stopped, U, s
  <2> QED BY <2>6 DEF w, x, s, WithStatus
<1>12. Search(d, among) = y.d
  BY DEF Search
<1> HIDE DEF going, next, start, G, mu
<1>13. y \in G /\ y \notin going
  BY <1>1, <1>2, <1>5, <1>6, <1>7, <1>9, <1>10, <1>11, WhileEnds
<1> HIDE DEF y
<1>14. /\ y \in Hunts /\ y.d \in Since(d.pc, d.cursor, Running \cup {"no"}) /\ y.d.status # "no"
       /\ Stopped(y.d) => Later(d.cursor, y.d.cursor) /\ y.d.cursor \in among
  BY <1>13 DEF G, going, HuntsFrom
<1>15. y.d \in Since(d.pc, d.cursor, Running)
  BY <1>14 DEF Since
<1> QED BY <1>12, <1>14, <1>15 DEF Onward

-----------------------------------------------------------------------------
\* One command after another.
LEMMA OnwardFurther ==
  ASSUME RecordsOK, NEW d \in Sessions, NEW e \in Sessions, NEW x, Onward(d, e), Onward(e, x)
  PROVE  Onward(d, x) /\ x \in Sessions
<1>1. e \in Since(d.pc, d.cursor, Running) /\ x \in Since(e.pc, e.cursor, Running)
  BY DEF Onward
<1>2. x \in Since(d.pc, d.cursor, Running)
  BY <1>1, SinceFurther
<1>3. d.cursor \in {0} \cup Steps /\ e.cursor \in {0} \cup Steps /\ x.cursor \in {0} \cup Steps /\ x \in Sessions
  BY <1>1, SessionIs DEF Since
<1>4. NotEarlier(d.cursor, e.cursor)
  BY <1>1 DEF Since
<1>5. Stopped(x) => Later(d.cursor, x.cursor)
  <2>1. \A i \in Steps : step(i).seq \in Nat
    BY DEF RecordsOK
  <2> QED BY <1>3, <1>4, <2>1 DEF Onward, Later, NotEarlier
<1> QED BY <1>2, <1>3, <1>5 DEF Onward

\* Loops over commands end, since each command that stops is at a later statement.
LEMMA CommandsEndIn ==
  ASSUME RecordsOK, NEW going, \A e \in going : Stopped(e),
         NEW next, DOMAIN next = Sessions, \A e \in Sessions : Onward(e, next[e]),
         NEW K, \A x \in K : x \in Sessions /\ x \in going => next[x] \in K,
         NEW d \in Sessions, NEW e \in Sessions, Onward(d, e), e \in K
  PROVE  /\ Onward(d, While(going, next, e)) /\ While(going, next, e) \notin going
         /\ While(going, next, e) \in K
<1> DEFINE G == {x \in Sessions : Onward(d, x) /\ x \in K}
           Left(i) == IF i = 0 THEN Len(steps) + 1 ELSE Len(steps) - step(i).seq
           mu == [x \in Sessions |-> IF Stopped(x) THEN 1 + Left(x.cursor) ELSE 0]
<1>1. MaxRounds \in Nat /\ Len(steps) + 2 <= MaxRounds
  BY DEF MaxRounds, RecordsOK
<1>2. (\A j \in Steps : step(j).seq \in Nat /\ step(j).seq <= Len(steps) - 1 /\ j # 0) /\ Len(steps) \in Nat
  BY DEF RecordsOK, Steps
<1>3. \A x \in Sessions : x.cursor \in {0} \cup Steps
  BY SessionIs
<1>4. \A x \in Sessions : next[x] \in Sessions
  BY DEF Onward, Since
<1>5. ASSUME NEW x \in G, x \in going PROVE next[x] \in G
  <2>1. x \in Sessions /\ Onward(d, x) /\ Onward(x, next[x]) /\ next[x] \in K
    BY <1>5
  <2>2. Onward(d, next[x])
    BY <2>1, OnwardFurther
  <2> QED BY <1>4, <2>1, <2>2
<1>6. \A i \in {0} \cup Steps : Left(i) \in Nat /\ Left(i) <= Len(steps) + 1
  BY <1>2
<1>7. ASSUME NEW x \in Sessions PROVE mu[x] \in Nat /\ mu[x] <= MaxRounds
  <2>1. Left(x.cursor) \in Nat /\ Left(x.cursor) <= Len(steps) + 1
    BY <1>3, <1>6
  <2> HIDE DEF Left
  <2>2. mu[x] = IF Stopped(x) THEN 1 + Left(x.cursor) ELSE 0
    OBVIOUS
  <2> HIDE DEF mu
  <2> QED BY <1>1, <1>2, <2>1, <2>2
<1>8. ASSUME NEW x \in G, x \in going PROVE mu[next[x]] < mu[x]
  <2> DEFINE z == next[x]
  <2>1. x \in Sessions /\ z \in Sessions /\ Stopped(x) /\ (Stopped(z) => Later(x.cursor, z.cursor))
    BY <1>4, <1>8 DEF Onward
  <2> HIDE DEF z
  <2>2. mu[x] = 1 + Left(x.cursor) /\ mu[z] = IF Stopped(z) THEN 1 + Left(z.cursor) ELSE 0
    BY <2>1
  <2>3. /\ Left(x.cursor) \in Nat /\ Left(z.cursor) \in Nat
        /\ x.cursor \in {0} \cup Steps /\ z.cursor \in {0} \cup Steps
    BY <1>3, <1>6, <2>1
  <2>4. CASE Stopped(z)
    <3>1. Left(z.cursor) < Left(x.cursor)
      BY <1>2, <2>1, <2>3, <2>4 DEF Later
    <3> HIDE DEF Left, mu
    <3> QED BY <2>2, <2>3, <2>4, <3>1 DEF z
  <2>5. CASE ~Stopped(z)
    <3> HIDE DEF Left, mu
    <3> QED BY <2>2, <2>3, <2>5 DEF z
  <2> QED BY <2>4, <2>5
<1>9. G \in SUBSET Sessions /\ e \in G
  OBVIOUS
<1> HIDE DEF G, mu
<1>10. While(going, next, e) \in G /\ While(going, next, e) \notin going
  BY <1>1, <1>4, <1>5, <1>7, <1>8, <1>9, WhileEnds
<1> QED BY <1>10 DEF G

\* The same, of all sessions.
LEMMA CommandsEnd ==
  ASSUME RecordsOK, NEW going, \A e \in going : Stopped(e),
         NEW next, DOMAIN next = Sessions, \A e \in Sessions : Onward(e, next[e]),
         NEW d \in Sessions, NEW e \in Sessions, Onward(d, e)
  PROVE  Onward(d, While(going, next, e)) /\ While(going, next, e) \notin going
<1>1. \A x \in Sessions : x \in Sessions /\ x \in going => next[x] \in Sessions
  BY DEF Onward, Since
<1> QED BY <1>1, CommandsEndIn

\* Each command goes onward; "next" and "step" stop where they should.
LEMMA AnywhereOnward ==
  ASSUME RecordsOK, NEW d \in Sessions
  PROVE  Onward(d, StepAnywhere(d)) /\ StepAnywhere(d) \in Sessions
<1>1. Onward(d, Search(d, Steps))
  BY SearchEnds
<1> QED BY <1>1 DEF StepAnywhere, Onward, Since

LEMMA WithinOnward ==
  ASSUME RecordsOK, NEW d \in Sessions, NEW deepest
  PROVE  /\ Onward(d, StepWithin(d, deepest)) /\ StepWithin(d, deepest) \in Sessions
         /\ Stopped(StepWithin(d, deepest)) => step(StepWithin(d, deepest).cursor).depth <= deepest
<1> DEFINE among == {i \in Steps : step(i).depth <= deepest}
<1>1. among \in SUBSET Steps /\ \A i \in among : step(i).depth <= deepest
  OBVIOUS
<1>2. StepWithin(d, deepest) = Search(d, among)
  BY DEF StepWithin
<1> HIDE DEF among
<1>3. Onward(d, Search(d, among)) /\ (Stopped(Search(d, among)) => Search(d, among).cursor \in among)
  BY <1>1, SearchEnds
<1> QED BY <1>1, <1>2, <1>3 DEF Onward, Since

LEMMA IntoOnward ==
  ASSUME RecordsOK, NEW d \in Sessions
  PROVE  /\ Onward(d, Into(d)) /\ Into(d) \in Sessions
         /\ Stopped(Into(d)) => ~(AtEnter(Into(d)) /\ Span(Into(d)) = Span(d))
<1> DEFINE span == Span(d)
           going == {e \in Sessions : Stopped(e) /\ AtEnter(e) /\ (Span(e) = span \/ Follows(e, span))}
           next == [e \in Sessions |-> StepAnywhere(e)]
           a == StepAnywhere(d)
           x == While(going, next, a)
<1>1. Into(d) = x
  BY DEF Into, LeaveEnters
<1>2. (\A e \in going : Stopped(e)) /\ DOMAIN next = Sessions
  OBVIOUS
<1>3. \A e \in Sessions : Onward(e, next[e])
  BY AnywhereOnward
<1>4. Onward(d, a) /\ a \in Sessions
  BY AnywhereOnward
<1> HIDE DEF going, next, a
<1>5. Onward(d, x) /\ x \notin going
  BY <1>2, <1>3, <1>4, CommandsEnd
<1> HIDE DEF x
<1>6. x \in Sessions
  BY <1>5 DEF Onward, Since
<1> QED BY <1>1, <1>5, <1>6 DEF going

LEMMA OneOverOnward ==
  ASSUME RecordsOK, NEW d \in Sessions, NEW span
  PROVE  Onward(d, OneOver(d, span)) /\ OneOver(d, span) \in Sessions
<1> DEFINE going == {e \in Sessions : Stopped(e) /\ Follows(e, span)}
           next == [e \in Sessions |-> Into(e)]
           a == StepWithin(d, Depth(d))
<1>1. OneOver(d, span) = While(going, next, a)
  BY DEF OneOver, FollowEnters
<1>2. (\A e \in going : Stopped(e)) /\ DOMAIN next = Sessions
  OBVIOUS
<1>3. \A e \in Sessions : Onward(e, next[e])
  BY IntoOnward
<1>4. Onward(d, a) /\ a \in Sessions
  BY WithinOnward
<1> HIDE DEF going, next, a
<1>5. Onward(d, While(going, next, a))
  BY <1>2, <1>3, <1>4, CommandsEnd
<1> QED BY <1>1, <1>5 DEF Onward, Since

LEMMA OverOnward ==
  ASSUME RecordsOK, NEW d \in Sessions
  PROVE  /\ Onward(d, Over(d)) /\ Over(d) \in Sessions
         /\ Stopped(Over(d)) => Span(Over(d)) # Span(d)
<1> DEFINE span == Span(d)
           going == {e \in Sessions : Stopped(e) /\ Span(e) = span}
           next == [e \in Sessions |-> OneOver(e, span)]
           a == OneOver(d, span)
           x == While(going, next, a)
<1>1. Over(d) = x
  BY DEF Over, LeaveSpan
<1>2. (\A e \in going : Stopped(e)) /\ DOMAIN next = Sessions
  OBVIOUS
<1>3. \A e \in Sessions : Onward(e, next[e])
  BY OneOverOnward
<1>4. Onward(d, a) /\ a \in Sessions
  BY OneOverOnward
<1> HIDE DEF going, next, a
<1>5. Onward(d, x) /\ x \notin going
  BY <1>2, <1>3, <1>4, CommandsEnd
<1> HIDE DEF x
<1>6. x \in Sessions
  BY <1>5 DEF Onward, Since
<1> QED BY <1>1, <1>5, <1>6 DEF going

LEMMA OutOnward ==
  ASSUME RecordsOK, NEW d \in Sessions
  PROVE  Onward(d, Out(d)) /\ Out(d) \in Sessions
<1> DEFINE e == StepWithin(d, Depth(d) - 1)
<1>1. Out(d) = e \/ Out(d) = Over(e)
  BY DEF Out
<1>2. Onward(d, e) /\ e \in Sessions
  BY WithinOnward
<1> HIDE DEF e
<1>3. Onward(e, Over(e)) /\ Over(e) \in Sessions
  BY <1>2, OverOnward
<1>4. Onward(d, Over(e))
  BY <1>2, <1>3, OnwardFurther
<1> QED BY <1>1, <1>2, <1>3, <1>4

LEMMA ContinueOnward ==
  ASSUME RecordsOK, NEW d \in Sessions, NEW lines
  PROVE  /\ Onward(d, UntilBreakpoint(d, lines)) /\ UntilBreakpoint(d, lines) \in Sessions
         /\ Stopped(UntilBreakpoint(d, lines)) => LinesOf(UntilBreakpoint(d, lines).cursor) \cap lines # {}
<1> DEFINE going == Between(lines)
           next == [e \in Sessions |-> Into(e)]
           a == Into(d)
           x == While(going, next, a)
<1>1. UntilBreakpoint(d, lines) = x
  BY DEF UntilBreakpoint
<1>2. (\A e \in going : Stopped(e)) /\ DOMAIN next = Sessions
  BY DEF Between
<1>3. \A e \in Sessions : Onward(e, next[e])
  BY IntoOnward
<1>4. Onward(d, a) /\ a \in Sessions
  BY IntoOnward
<1> HIDE DEF next, a
<1>5. Onward(d, x) /\ x \notin going
  BY <1>2, <1>3, <1>4, CommandsEnd
<1> HIDE DEF x
<1>6. x \in Sessions
  BY <1>5 DEF Onward, Since
<1> QED BY <1>1, <1>5, <1>6 DEF Between

LEMMA StartsOnward ==
  ASSUME RecordsOK, NEW d \in Sessions, d.status \in Running, d.cursor = 0
  PROVE  ToFirstStatement(d) \in Since(d.pc, 0, Running)
<1> DEFINE going == {x \in Sessions : Stopped(x) /\ x.pc < Len(script) /\ ~AtStatement(x)}
           e == While(going, OpcodeOnce, d)
           i == IndexForOffset(e, 0)
<1>1. d \in Since(d.pc, 0, Running) /\ d.pc \in Nat
  BY SessionIs DEF Since, NotEarlier
<1>2. {"ended", "failed"} \subseteq Running /\ (\A x \in going : Stopped(x))
  BY DEF Running
<1>3. ToFirstStatement(d) = IF Stopped(e) /\ e.pc < Len(script) THEN MarkExecuted(e, i) ELSE e
  BY DEF ToFirstStatement
<1> HIDE DEF going
<1>4. e \in Since(d.pc, 0, Running) /\ e \notin going
  BY <1>1, <1>2, OpcodesEnd
<1> HIDE DEF e
<1>5. ASSUME Stopped(e), e.pc < Len(script) PROVE i \in Steps /\ NotEarlier(0, i)
  <2>1. e \in Sessions
    BY <1>4 DEF Since
  <2>2. i # 0
    BY <1>4, <1>5, <2>1 DEF going, AtStatement
  <2>3. i \in {0} \cup {j \in Steps : step(j).seq >= 0}
    BY IndexIsAhead
  <2> QED BY <2>2, <2>3 DEF NotEarlier
<1>6. ASSUME Stopped(e), e.pc < Len(script) PROVE MarkExecuted(e, i) \in Since(d.pc, 0, Running)
  BY <1>1, <1>4, <1>5, <1>6, MarkStays
<1> QED BY <1>3, <1>4, <1>6

-----------------------------------------------------------------------------
\* The order of a session: every recorded step once.
LEMMA OrderListsAll ==
  ASSUME NEW all \in Seq(Recorded), \A i \in DOMAIN all : all[i].seq = i - 1
  PROVE  \A n \in 1 .. Len(all) :
            /\ Order(all)[n] \in Recorded /\ Order(all)[n].seq \in 0 .. Len(all) - 1
            /\ \A m \in 1 .. Len(all) : Order(all)[n].seq = Order(all)[m].seq => n = m
<1> DEFINE top == Len(all)
           earlier(i) == {j \in 1 .. top : Before(all[j], all[i])}
           rank == [i \in 1 .. top |-> Cardinality(earlier(i))]
           place(n) == CHOOSE i \in 1 .. top : Cardinality(earlier(i)) = n - 1
<1>1. top \in Nat /\ DOMAIN all = 1 .. top /\ IsFiniteSet(1 .. top) /\ Cardinality(1 .. top) = top
  <2>1. top \in Nat /\ DOMAIN all = 1 .. top
    BY LenProperties
  <2> HIDE DEF top
  <2>2. IsFiniteSet(1 .. top) /\ Cardinality(1 .. top) = top
    <3>1. 1 \in Int /\ top \in Int
      BY <2>1
    <3>2. IsFiniteSet(1 .. top) /\ Cardinality(1 .. top) = IF 1 > top THEN 0 ELSE top - 1 + 1
      BY ONLY <3>1, FS_Interval
    <3> QED BY <2>1, <3>2
  <2> QED BY <2>1, <2>2
<1>2. \A i \in 1 .. top : all[i] \in Recorded /\ all[i].seq = i - 1 /\ all[i].start \in Nat
  <2>1. \A i \in 1 .. top : all[i] \in Recorded
    BY <1>1, ElementOfSeq
  <2> QED BY <1>1, <2>1 DEF Recorded
<1>3. \A i, j, k \in 1 .. top :
         /\ ~Before(all[i], all[i])
         /\ Before(all[i], all[j]) /\ Before(all[j], all[k]) => Before(all[i], all[k])
         /\ i = j \/ Before(all[i], all[j]) \/ Before(all[j], all[i])
  <2> HIDE DEF top
  <2> QED BY <1>1, <1>2 DEF Before
<1> HIDE DEF top
<1>4. ASSUME NEW i \in 1 .. top
      PROVE  IsFiniteSet(earlier(i)) /\ Cardinality(earlier(i)) \in 0 .. top - 1
  <2>1. earlier(i) \in SUBSET (1 .. top) /\ i \notin earlier(i)
    BY <1>3
  <2> HIDE DEF earlier
  <2>2. earlier(i) # 1 .. top
    BY <2>1
  <2>3. IsFiniteSet(earlier(i)) /\ Cardinality(earlier(i)) <= top /\ Cardinality(earlier(i)) # top
    BY <1>1, <2>1, <2>2, FS_Subset
  <2>4. Cardinality(earlier(i)) \in Nat
    BY <2>3, FS_CardinalityType
  <2> QED BY <1>1, <2>3, <2>4
<1>5. ASSUME NEW i \in 1 .. top, NEW j \in 1 .. top, Before(all[i], all[j])
      PROVE  Cardinality(earlier(i)) # Cardinality(earlier(j))
  <2>1. earlier(i) \in SUBSET earlier(j) /\ i \in earlier(j) /\ i \notin earlier(i)
    BY <1>3, <1>5
  <2> HIDE DEF earlier
  <2> QED BY <1>4, <2>1, FS_Subset
<1>6. rank \in Injection(1 .. top, 0 .. top - 1)
  <2>1. rank \in [1 .. top -> 0 .. top - 1]
    <3> HIDE DEF earlier
    <3> QED BY <1>4
  <2>2. ASSUME NEW i \in 1 .. top, NEW j \in 1 .. top, rank[i] = rank[j] PROVE i = j
    <3>1. ~Before(all[i], all[j]) /\ ~Before(all[j], all[i])
      <4> HIDE DEF earlier
      <4> QED BY <1>5, <2>2
    <3> QED BY <1>3, <3>1
  <2> HIDE DEF rank
  <2> QED BY <2>1, <2>2 DEF Injection, IsInjective
<1>7. rank \in Surjection(1 .. top, 0 .. top - 1)
  <2>1. IsFiniteSet(0 .. top - 1) /\ Cardinality(0 .. top - 1) = top
    BY <1>1, FS_Interval
  <2> HIDE DEF rank
  <2> QED BY <1>1, <1>6, <2>1, FS_Injection
<1>8. ASSUME NEW n \in 1 .. top
      PROVE  place(n) \in 1 .. top /\ Cardinality(earlier(place(n))) = n - 1
  <2>1. n - 1 \in 0 .. top - 1
    BY <1>1
  <2>2. \E i \in 1 .. top : rank[i] = n - 1
    <3> HIDE DEF rank
    <3> QED BY <1>7, <2>1 DEF Surjection
  <2>3. \E i \in 1 .. top : Cardinality(earlier(i)) = n - 1
    BY <2>2
  <2> HIDE DEF earlier
  <2> QED BY <2>3
<1>9. \A n \in 1 .. top : Order(all)[n] = all[place(n)]
  <2>1. Order(all) = [n \in DOMAIN all |-> all[CHOOSE i \in DOMAIN all : Cardinality({j \in DOMAIN all : Before(all[j], all[i])}) = n - 1]]
    BY DEF Order
  <2>2. Order(all) = [n \in 1 .. top |-> all[place(n)]]
    BY <1>1, <2>1
  <2> HIDE DEF place
  <2> QED BY <2>2
<1> HIDE DEF place, earlier
<1>10. ASSUME NEW n \in 1 .. top, NEW m \in 1 .. top, place(n) = place(m) PROVE n = m
  <2>1. n - 1 = m - 1
    BY <1>8, <1>10
  <2> QED BY <1>1, <2>1
<1>11. \A n \in 1 .. top : Order(all)[n] \in Recorded /\ Order(all)[n].seq = place(n) - 1 /\ place(n) \in 1 .. top
  BY <1>2, <1>8, <1>9
<1>12. ASSUME NEW n \in 1 .. top, NEW m \in 1 .. top, Order(all)[n].seq = Order(all)[m].seq PROVE n = m
  <2>1. place(n) - 1 = place(m) - 1 /\ place(n) \in Nat /\ place(m) \in Nat
    BY <1>1, <1>11, <1>12
  <2> QED BY <1>10, <2>1
<1> QED BY <1>1, <1>11, <1>12 DEF top

\* The session's records are those of the compilation: their numbers stay distinct.
LEMMA MarkedKeepsNumbers ==
  ASSUME NEW all \in Seq(Recorded), \A i \in DOMAIN all : all[i].seq = i - 1
  PROVE  LET s == Marked(Order(all)) IN
         /\ Len(s) = Len(all) /\ DOMAIN s = 1 .. Len(all) /\ Len(all) \in Nat
         /\ \A n \in 1 .. Len(all) : s[n].seq \in 0 .. Len(all) - 1 /\ s[n].depth \in Nat
         /\ \A n, m \in 1 .. Len(all) : s[n].seq = s[m].seq => n = m
<1> DEFINE t == Order(all)
           s == Marked(t)
           top == Len(all)
<1>1. top \in Nat /\ DOMAIN all = 1 .. top
  BY LenProperties
<1>2. DOMAIN t = 1 .. top
  BY <1>1 DEF Order
<1>3. \A n \in 1 .. top : /\ t[n] \in Recorded /\ t[n].seq \in 0 .. top - 1
                          /\ \A m \in 1 .. top : t[n].seq = t[m].seq => n = m
  BY OrderListsAll
<1>4. s = [i \in DOMAIN t |-> Mark(t, i)]
  BY DEF Marked
<1> HIDE DEF t, s, top
<1>5. DOMAIN s = 1 .. top
  BY <1>2, <1>4
<1>6. ASSUME NEW n \in 1 .. top PROVE s[n].seq = t[n].seq /\ s[n].depth = t[n].depth /\ t[n].depth \in Nat
  <2>1. s[n] = Mark(t, n)
    BY <1>2, <1>4
  <2>2. "seq" \in DOMAIN t[n] /\ "depth" \in DOMAIN t[n] /\ t[n].depth \in Nat
    BY <1>3 DEF Recorded
  <2>3. Mark(t, n)["seq"] = t[n]["seq"] /\ Mark(t, n)["depth"] = t[n]["depth"]
    BY <2>2 DEF Mark
  <2> QED BY <2>1, <2>2, <2>3
<1>7. Len(s) = top
  <2>1. ASSUME NEW k \in Nat, NEW S, NEW f \in [1 .. k -> S] PROVE Len(f) = k
    OBVIOUS
  <2>2. s \in [1 .. top -> {s[i] : i \in 1 .. top}]
    BY <1>4, <1>5
  <2> QED BY <1>1, <2>1, <2>2
<1>8. \A n \in 1 .. top : /\ s[n].seq \in 0 .. top - 1 /\ s[n].depth \in Nat
                          /\ \A m \in 1 .. top : s[n].seq = s[m].seq => n = m
  BY <1>3, <1>6
<1> QED BY <1>1, <1>5, <1>7, <1>8 DEF s, t, top

-----------------------------------------------------------------------------
\* The inductive invariant: the records, the types, and no statement before the first.
SessionOK == RecordsOK /\ TypeOK /\ (status = "new" => cursor = 0)

LEMMA LiveIsBoolean ==
  ASSUME NEW code, NEW taken
  PROVE  Live(code, taken) \in [1 .. Len(code) + 1 -> BOOLEAN]
<1>1. PICK g : Live(code, taken) = [n \in 1 .. Len(code) + 1 |-> \A i \in DOMAIN g[n - 1] : g[n - 1][i]]
  BY DEF Live
<1>2. \A n \in 1 .. Len(code) + 1 : (\A i \in DOMAIN g[n - 1] : g[n - 1][i]) \in BOOLEAN
  OBVIOUS
<1> QED BY <1>1, <1>2

LEMMA InitOK == Init => SessionOK
<1> SUFFICES ASSUME Init PROVE SessionOK
  OBVIOUS
<1>1. PICK compiled \in Contracts : steps = Marked(Order(compiled.steps)) /\ script = compiled.code
  BY DEF Init
<1>2. /\ compiled.code \in Seq(STRING) /\ compiled.steps \in Seq(Recorded)
      /\ \A i \in DOMAIN compiled.steps : compiled.steps[i].seq = i - 1
  BY ContractsAssumption
<1>3. /\ Len(steps) = Len(compiled.steps) /\ DOMAIN steps = 1 .. Len(compiled.steps) /\ Len(compiled.steps) \in Nat
      /\ \A n \in 1 .. Len(compiled.steps) : steps[n].seq \in 0 .. Len(compiled.steps) - 1 /\ steps[n].depth \in Nat
      /\ \A n, m \in 1 .. Len(compiled.steps) : steps[n].seq = steps[m].seq => n = m
  BY <1>1, <1>2, MarkedKeepsNumbers
<1>4. Len(script) \in Nat /\ DOMAIN script = 1 .. Len(script)
  BY <1>1, <1>2, LenProperties
<1>5. RecordsOK
  BY <1>3, <1>4 DEF RecordsOK, Steps, step
<1>6. live \in [1 .. Len(script) + 1 -> BOOLEAN]
  <2>1. PICK taken : live = Live(script, taken)
    BY DEF Init
  <2> QED BY <2>1, LiveIsBoolean
<1>7. failing \in 0 .. Len(script)
  BY <1>4 DEF Init, At
<1>8. breakpoints = {} /\ pc = 0 /\ cursor = 0 /\ executed = {} /\ printed = {} /\ status = "new"
  BY DEF Init
<1> QED BY <1>3, <1>4, <1>5, <1>6, <1>7, <1>8 DEF SessionOK, TypeOK

LEMMA SessionIsOne ==
  ASSUME SessionOK
  PROVE  Session \in Sessions /\ Session.pc = pc /\ Session.cursor = cursor /\ Session.status = status
<1>1. /\ pc \in 0 .. Len(script) /\ cursor \in 0 .. Len(steps) /\ printed \subseteq executed /\ executed \subseteq Steps
      /\ status \in {"new", "stopped", "ended", "failed"} /\ DOMAIN steps = 1 .. Len(steps) /\ Len(steps) \in Nat
  BY DEF SessionOK, TypeOK, RecordsOK
<1>2. cursor \in {0} \cup Steps
  BY <1>1 DEF Steps
<1> DEFINE d == Session
<1>3. d = [pc |-> pc, cursor |-> cursor, executed |-> executed, printed |-> printed, status |-> status]
  BY DEF Session
<1> HIDE DEF d
<1>4. d.pc = pc /\ d.cursor = cursor /\ d.executed = executed /\ d.printed = printed /\ d.status = status
  BY <1>3
<1>5. d \in Sessions
  BY <1>1, <1>2, <1>3, <1>4, SessionIs
<1> QED BY <1>4, <1>5 DEF d

\* A command whose loops end onward keeps the invariant and goes nowhere back.
Kept == /\ SessionOK' /\ pc' >= pc
        /\ cursor # 0 => cursor' # 0 /\ step(cursor').seq >= step(cursor).seq

LEMMA MoveKeeps ==
  ASSUME SessionOK, NEW before, NEW d \in Since(pc, cursor, Running), Move(before, d)
  PROVE  Kept
<1>1. /\ pc' = d.pc /\ cursor' = d.cursor /\ executed' = d.executed /\ printed' = d.printed /\ status' = d.status
      /\ steps' = steps /\ script' = script /\ live' = live /\ failing' = failing /\ breakpoints' = breakpoints
  BY DEF Move, fixed
<1>2. d \in Sessions /\ pc <= d.pc /\ NotEarlier(cursor, d.cursor) /\ d.status \in Running
  BY DEF Since
<1>3. d.pc \in 0 .. Len(script) /\ d.cursor \in {0} \cup Steps /\ d.printed \subseteq d.executed /\ d.executed \subseteq Steps
  BY <1>2, SessionIs
<1>4. Len(script) \in Nat /\ Len(steps) \in Nat /\ DOMAIN steps = 1 .. Len(steps) /\ pc \in 0 .. Len(script)
      /\ \A i \in Steps : step(i).seq \in 0 .. Len(steps) - 1
  BY DEF SessionOK, RecordsOK, TypeOK
<1>5. RecordsOK'
  BY <1>1 DEF SessionOK, RecordsOK, Steps, step
<1>6. TypeOK'
  <2>1. d.cursor \in 0 .. Len(steps)
    BY <1>3, <1>4 DEF Steps
  <2>2. /\ live' \in [1 .. Len(script') + 1 -> BOOLEAN] /\ failing' \in 0 .. Len(script')
        /\ pc' \in 0 .. Len(script') /\ cursor' \in 0 .. Len(steps')
    BY <1>1, <1>3, <2>1 DEF SessionOK, TypeOK
  <2>3. printed' \subseteq executed' /\ executed' \subseteq Steps'
    BY <1>1, <1>3 DEF Steps
  <2>4. (breakpoints \subseteq UNION {LinesOf(i) : i \in {j \in Steps : Steppable(j)}})'
    <3>1. breakpoints \subseteq UNION {LinesOf(i) : i \in {j \in Steps : Steppable(j)}}
      BY DEF SessionOK, TypeOK
    <3> QED BY <1>1, <3>1 DEF LinesOf, Steps, Steppable, step
  <2>5. status' \in {"new", "stopped", "ended", "failed"}
    BY <1>1, <1>2 DEF Running
  <2> QED BY <2>2, <2>3, <2>4, <2>5 DEF TypeOK
<1>7. status' # "new"
  BY <1>1, <1>2 DEF Running
<1>8. pc' >= pc
  BY <1>1, <1>2, <1>3, <1>4
<1>9. cursor # 0 => cursor' # 0 /\ step(cursor').seq >= step(cursor).seq
  <2>1. cursor \in {0} \cup Steps
    BY SessionIsOne, SessionIs
  <2> QED BY <1>1, <1>2, <1>3, <1>4, <2>1 DEF NotEarlier
<1> QED BY <1>5, <1>6, <1>7, <1>8, <1>9 DEF Kept, SessionOK

LEMMA StartKeeps == ASSUME SessionOK, Start PROVE Kept
<1> DEFINE d == [Session EXCEPT !.status = "stopped"]
<1>1. Session \in Since(pc, cursor, {"new"}) /\ pc \in Nat /\ cursor = 0 /\ RecordsOK /\ cursor \in {0} \cup Steps
  <2>1. status = "new" /\ cursor = 0 /\ RecordsOK
    BY DEF Start, Move, SessionOK
  <2> QED BY <2>1, SessionIsOne, SessionIs DEF Since, NotEarlier
<1>2. d \in Since(pc, cursor, Running) /\ d.status = "stopped"
  <2> DEFINE s == "stopped"
  <2>1. s \in {"new", "stopped", "ended", "failed", "no"} /\ s \in Running
    BY DEF Running
  <2> HIDE DEF s
  <2>2. WithStatus(Session, s) \in Since(pc, cursor, Running) /\ WithStatus(Session, s).status = s
    BY <1>1, <2>1, StatusSet
  <2> QED BY <2>2 DEF s, WithStatus
<1>3. d.pc = pc /\ d.cursor = cursor
  BY DEF Session
<1> HIDE DEF d
<1>4. d \in Sessions /\ d.status \in Running /\ d.cursor = 0
  BY <1>1, <1>2, <1>3 DEF Since
<1>5. ToFirstStatement(d) \in Since(pc, 0, Running)
  BY <1>1, <1>3, <1>4, StartsOnward
<1>6. Move("new", ToFirstStatement(d))
  BY DEF Start, d
<1> QED BY <1>1, <1>5, <1>6, MoveKeeps

LEMMA SiKeeps == ASSUME SessionOK, Si PROVE Kept
<1>1. Move("stopped", StepOpcode(Session)) /\ RecordsOK /\ status = "stopped"
  BY DEF Si, Move, SessionOK
<1>2. Session \in Since(pc, cursor, Running) /\ pc \in Nat /\ cursor \in {0} \cup Steps
  BY <1>1, SessionIsOne, SessionIs DEF Since, NotEarlier, Running, RecordsOK
<1>3. {"ended", "failed"} \subseteq Running
  BY DEF Running
<1>4. StepOpcode(Session) \in Since(pc, cursor, Running)
  BY <1>1, <1>2, <1>3, OpcodeStays
<1> QED BY <1>1, <1>4, MoveKeeps

LEMMA CommandKeeps ==
  ASSUME SessionOK, NEW d, Onward(Session, d), Move("stopped", d)
  PROVE  Kept
<1>1. d \in Since(pc, cursor, Running)
  BY SessionIsOne DEF Onward
<1> QED BY <1>1, MoveKeeps

LEMMA BreakKeeps == ASSUME SessionOK, NEW line \in Lines, Break(line) PROVE Kept
<1>1. /\ UNCHANGED <<steps, script, live, failing, pc, cursor, executed, printed, status>>
      /\ breakpoints' = breakpoints \cup {line} /\ \E i \in Steps : Steppable(i) /\ line \in LinesOf(i)
  BY DEF Break, fixed
<1>2. RecordsOK'
  BY <1>1 DEF SessionOK, RecordsOK, Steps, step
<1>3. (breakpoints \subseteq UNION {LinesOf(i) : i \in {j \in Steps : Steppable(j)}})'
  <2>1. breakpoints \subseteq UNION {LinesOf(i) : i \in {j \in Steps : Steppable(j)}}
    BY DEF SessionOK, TypeOK
  <2>2. breakpoints' \subseteq UNION {LinesOf(i) : i \in {j \in Steps : Steppable(j)}}
    BY <1>1, <2>1
  <2> QED BY <1>1, <2>2 DEF LinesOf, Steps, Steppable, step
<1>4. TypeOK'
  BY <1>1, <1>3 DEF SessionOK, TypeOK, Steps
<1>5. cursor \in {0} \cup Steps /\ pc \in Nat /\ \A i \in Steps : step(i).seq \in Nat
  BY SessionIsOne, SessionIs DEF SessionOK, RecordsOK
<1>6. cursor # 0 => cursor' # 0 /\ step(cursor').seq >= step(cursor).seq
  BY <1>1, <1>5
<1> QED BY <1>1, <1>2, <1>4, <1>5, <1>6 DEF Kept, SessionOK

LEMMA NextKeeps == SessionOK /\ [Next]_vars => SessionOK' /\ (Kept \/ UNCHANGED vars)
<1> SUFFICES ASSUME SessionOK, [Next]_vars PROVE SessionOK' /\ (Kept \/ UNCHANGED vars)
  OBVIOUS
<1>1. Session \in Sessions /\ RecordsOK
  BY SessionIsOne DEF SessionOK
<1>2. CASE Start
  BY <1>2, StartKeeps DEF Kept
<1>3. CASE Si
  BY <1>3, SiKeeps DEF Kept
<1>4. CASE StepInto
  BY <1>1, <1>4, IntoOnward, CommandKeeps DEF StepInto, Kept
<1>5. CASE StepOver
  BY <1>1, <1>5, OverOnward, CommandKeeps DEF StepOver, Kept
<1>6. CASE StepOut
  BY <1>1, <1>6, OutOnward, CommandKeeps DEF StepOut, Kept
<1>7. CASE Continue
  BY <1>1, <1>7, ContinueOnward, CommandKeeps DEF Continue, Kept
<1>8. ASSUME NEW line \in Lines, Break(line) PROVE Kept
  BY <1>8, BreakKeeps
<1>9. CASE UNCHANGED vars
  <2>1. UNCHANGED <<steps, script, live, failing, pc, cursor, executed, printed, breakpoints, status>>
    BY <1>9 DEF vars, fixed
  <2>2. SessionOK'
    BY <2>1 DEF SessionOK, RecordsOK, TypeOK, Steps, step, LinesOf, Steppable
  <2> QED BY <1>9, <2>2
<1> QED BY <1>2, <1>3, <1>4, <1>5, <1>6, <1>7, <1>8, <1>9 DEF Next, Kept

\* The inductive invariant holds in every session, whatever commands are mixed
\* (from_scripts, run_repl).
THEOREM SessionInvariant == Spec => []SessionOK
<1>1. SessionOK /\ [Next]_vars => SessionOK'
  BY NextKeeps
<1> QED BY <1>1, InitOK, PTL DEF Spec

\* The session's variables keep their types: the cursor stays on a recorded step, what was
\* printed was executed, and breakpoints are on lines that have a step to stop at.
THEOREM DebuggerTypes == Spec => []TypeOK
<1>1. SessionOK => TypeOK
  BY DEF SessionOK
<1> QED BY <1>1, SessionInvariant, PTL

\* NeverBack ("Keep cursor monotonic" in sync_step_cursor_to_current_offset): neither single opcodes nor any command take the engine or the cursor back.
THEOREM CursorOnlyAdvances == Spec => NeverBack
<1> DEFINE A == /\ pc' >= pc
                /\ cursor # 0 => cursor' # 0 /\ step(cursor').seq >= step(cursor).seq
<1>1. SessionOK /\ [Next]_vars => [A]_vars
  BY NextKeeps DEF Kept
<1>2. Spec => [][A]_vars
  <2> HIDE DEF A
  <2> QED BY <1>1, SessionInvariant, PTL DEF Spec
<1> QED BY <1>2 DEF NeverBack

\* Where a command leaves a session that is stopped: it has an outcome, which no loop of
\* the code failed to reach, and if it stopped again it is at a statement recorded later.
MovesOn ==
  status = "stopped" =>
    \A d \in {Into(Session), Over(Session), Out(Session), UntilBreakpoint(Session, breakpoints)} :
      d.status \in Running /\ (Stopped(d) => Later(cursor, d.cursor))
\* "step" does not stop where the call it was at is entered again, "next" leaves the source
\* text it was at, "continue" stops at lines with a breakpoint only.
Goals ==
  status = "stopped" =>
    /\ Stopped(Into(Session)) => ~(AtEnter(Into(Session)) /\ Span(Into(Session)) = Span(Session))
    /\ Stopped(Over(Session)) => Span(Over(Session)) # Span(Session)
    /\ LET d == UntilBreakpoint(Session, breakpoints) IN Stopped(d) => LinesOf(d.cursor) \cap breakpoints # {}

LEMMA MovingOn == SessionOK => MovesOn
<1> SUFFICES ASSUME SessionOK, status = "stopped",
                    NEW d \in {Into(Session), Over(Session), Out(Session), UntilBreakpoint(Session, breakpoints)}
             PROVE  d.status \in Running /\ (Stopped(d) => Later(cursor, d.cursor))
  BY DEF MovesOn
<1>1. Session \in Sessions /\ Session.cursor = cursor /\ RecordsOK
  BY SessionIsOne DEF SessionOK
<1>2. Onward(Session, d)
  BY <1>1, IntoOnward, OverOnward, OutOnward, ContinueOnward
<1> QED BY <1>1, <1>2 DEF Onward, Since

\* "continue", "next", "finish" and "step" always come to an end, and when they stop they
\* have moved on (run_to_end, continue_to_breakpoint, step_over, step_out and step_into).
THEOREM CommandsMoveOn == Spec => []MovesOn
BY MovingOn, SessionInvariant, PTL
\* And they reach what they were for: the conditions on which step_into, step_over and
\* continue_to_breakpoint leave their loops hold when they stop.
THEOREM CommandsReachTheirGoal == Spec => []Goals
<1>1. SessionOK => Goals
  <2> SUFFICES ASSUME SessionOK PROVE Goals
    OBVIOUS
  <2>1. Session \in Sessions /\ RecordsOK
    BY SessionIsOne DEF SessionOK
  <2> QED BY <2>1, IntoOnward, OverOnward, ContinueOnward DEF Goals
<1> QED BY <1>1, SessionInvariant, PTL

=============================================================================
