------------------------ MODULE WinnerSelectionProofs ------------------------
(* What the leader's loops compute, for every input list and every ticket: the *)
(* loops are total, they pick the input whose interval holds the ticket, the   *)
(* off-chain pick-winner agrees with them, and the split never exceeds the pot.*)
EXTENDS WinnerSelection, NatInduction

\* The running total is what the recursion says, and a natural at every index.
LEMMA RunningTotalUnfolds ==
  ASSUME NEW vals \in Seq(Nat)
  PROVE  /\ RunningTotal(vals) \in [0 .. Len(vals) -> Nat]
         /\ RunningTotal(vals)[0] = 0
         /\ \A j \in 1 .. Len(vals) :
               RunningTotal(vals)[j] = RunningTotal(vals)[j - 1] + vals[j]
<1> DEFINE N == Len(vals)
           Body(g) == [j \in 0 .. N |-> IF j = 0 THEN 0 ELSE g[j - 1] + vals[j]]
           step == [j \in 1 .. N |-> [x \in Nat |-> x + vals[j]]]
           f == RunningTotal(vals)
<1>1. N \in Nat /\ \A j \in 1 .. N : vals[j] \in Nat
  OBVIOUS
<1>2. step \in [1 .. N -> [Nat -> Nat]]
  BY <1>1
<1>3. PICK g : Iterates(g, N, Nat, 0, step)
  <2>1. 0 \in Nat /\ N \in Nat
    OBVIOUS
  <2> HIDE DEF step, N
  <2> QED BY <2>1, <1>2, RecursiveFunctionExists, Zenon
<1>4. g[0] = 0 /\ \A j \in 1 .. N : g[j] = g[j - 1] + vals[j]
  <2>1. g[0] = 0
    BY <1>3 DEF Iterates
  <2>2. ASSUME NEW j \in 1 .. N PROVE g[j] = g[j - 1] + vals[j]
    <3>1. j - 1 \in 0 .. N
      OBVIOUS
    <3>2. g \in [0 .. N -> Nat] /\ g[j] = step[j][g[j - 1]]
      <4> HIDE DEF step, N
      <4> QED BY <1>3 DEF Iterates
    <3>3. g[j - 1] \in Nat
      BY <3>1, <3>2
    <3> QED BY <3>2, <3>3
  <2> QED BY <2>1, <2>2
<1>5. \A j \in 0 .. N : g[j] = Body(g)[j]
  BY <1>4, <1>1
<1>6. g = Body(g)
  BY <1>3, <1>5 DEF Iterates
<1>7. f = CHOOSE h : h = Body(h)
  BY DEF RunningTotal
<1>8. f = Body(f)
  <2> HIDE DEF Body, f
  <2> QED BY <1>6, <1>7
<1>9. \A j \in 0 .. N : f[j] = IF j = 0 THEN 0 ELSE f[j - 1] + vals[j]
  <2> HIDE DEF f
  <2> QED BY <1>8
<1> DEFINE Good == {n \in Nat : n <= N => f[n] \in Nat}
<1>10. Good = Nat
  <2> HIDE DEF f
  <2>1. 0 \in Good
    BY <1>9, <1>1
  <2>2. ASSUME NEW n \in Good PROVE n + 1 \in Good
    BY <1>9, <1>1
  <2>3. Good \in SUBSET Nat
    OBVIOUS
  <2> HIDE DEF Good
  <2> QED BY <2>1, <2>2, <2>3, NatSetInduction
<1>11. \A j \in 0 .. N : f[j] \in Nat
  <2> HIDE DEF f
  <2> QED BY <1>10, <1>1
<1>12. f \in [0 .. N -> Nat]
  <2> HIDE DEF f
  <2>1. f = [j \in 0 .. N |-> f[j]]
    BY <1>8
  <2> QED BY <2>1, <1>11
<1> QED
  <2> HIDE DEF f
  <2>1. f[0] = 0
    BY <1>9, <1>1
  <2>2. \A j \in 1 .. N : f[j] = f[j - 1] + vals[j]
    BY <1>9, <1>1
  <2> QED BY <2>1, <2>2, <1>12 DEF f

\* The accumulator never decreases: entry values are not negative.
LEMMA RunningTotalMonotone ==
  ASSUME NEW vals \in Seq(Nat), NEW i \in 0 .. Len(vals), NEW k \in i .. Len(vals)
  PROVE  RunningTotal(vals)[i] <= RunningTotal(vals)[k]
<1> DEFINE N == Len(vals)
           f == RunningTotal(vals)
           Good == {n \in Nat : i + n <= N => f[i] <= f[i + n]}
<1>1. /\ f \in [0 .. N -> Nat]
      /\ \A j \in 1 .. N : f[j] = f[j - 1] + vals[j]
  BY RunningTotalUnfolds
<1>2. /\ N \in Nat /\ i \in Nat /\ k \in Nat /\ i <= k /\ k <= N
      /\ \A j \in 1 .. N : vals[j] \in Nat
  OBVIOUS
<1> HIDE DEF f, N
<1>3. 0 \in Good
  <2>1. i + 0 = i /\ f[i] \in Nat
    BY <1>1, <1>2
  <2> QED BY <2>1
<1>4. ASSUME NEW n \in Good PROVE n + 1 \in Good
  <2> SUFFICES ASSUME i + (n + 1) <= N PROVE f[i] <= f[i + (n + 1)]
    OBVIOUS
  <2>1. /\ i \in Nat /\ n \in Nat
        /\ i + (n + 1) \in 1 .. N
        /\ (i + (n + 1)) - 1 = i + n
        /\ i + n \in 0 .. N
    BY <1>2
  <2>2. f[i] <= f[i + n]
    BY <2>1, <1>2
  <2>3. f[i + (n + 1)] = f[i + n] + vals[i + (n + 1)]
    BY <1>1, <2>1
  <2>4. f[i] \in Nat /\ f[i + n] \in Nat /\ vals[i + (n + 1)] \in Nat
    BY <1>1, <1>2, <2>1
  <2> QED BY <2>2, <2>3, <2>4
<1>5. Good \in SUBSET Nat
  OBVIOUS
<1>6. Good = Nat
  <2> HIDE DEF Good
  <2> QED BY <1>3, <1>4, <1>5, NatSetInduction
<1>7. f[i] <= f[i + (k - i)]
  <2>1. k - i \in Nat /\ i + (k - i) <= N
    BY <1>2
  <2> QED BY <1>6, <2>1
<1>8. i + (k - i) = k
  BY <1>2
<1> QED BY <1>7, <1>8 DEF f

\* The selection loop is what the recursion says: it keeps the first index whose
\* running total exceeds the ticket.
LEMMA WinnerAfterUnfolds ==
  ASSUME NEW vals \in Seq(Nat), NEW r \in Nat
  PROVE  /\ WinnerAfter(vals, r)[0] = NoWinner
         /\ \A j \in 1 .. Len(vals) :
               WinnerAfter(vals, r)[j] =
                 IF WinnerAfter(vals, r)[j - 1] = NoWinner /\ r < RunningTotal(vals)[j]
                 THEN j ELSE WinnerAfter(vals, r)[j - 1]
<1> DEFINE N == Len(vals)
           Cell(j, x) == IF x = NoWinner /\ r < RunningTotal(vals)[j] THEN j ELSE x
           Body(g) == [j \in 0 .. N |-> IF j = 0 THEN NoWinner ELSE Cell(j, g[j - 1])]
           step == [j \in 1 .. N |-> [x \in Nat |-> Cell(j, x)]]
           f == WinnerAfter(vals, r)
<1>1. N \in Nat
  OBVIOUS
<1>2. step \in [1 .. N -> [Nat -> Nat]]
  BY DEF NoWinner
<1>3. PICK g : Iterates(g, N, Nat, 0, step)
  <2>1. 0 \in Nat /\ N \in Nat
    OBVIOUS
  <2> HIDE DEF step, N
  <2> QED BY <2>1, <1>2, RecursiveFunctionExists, Zenon
<1>4. g[0] = 0 /\ \A j \in 1 .. N : g[j] = Cell(j, g[j - 1])
  <2>1. g[0] = 0
    BY <1>3 DEF Iterates
  <2>2. ASSUME NEW j \in 1 .. N PROVE g[j] = Cell(j, g[j - 1])
    <3>1. j - 1 \in 0 .. N
      OBVIOUS
    <3>2. g \in [0 .. N -> Nat] /\ g[j] = step[j][g[j - 1]]
      <4> HIDE DEF step, N
      <4> QED BY <1>3 DEF Iterates
    <3>3. g[j - 1] \in Nat
      BY <3>1, <3>2
    <3> QED BY <3>2, <3>3
  <2> QED BY <2>1, <2>2
<1>5. \A j \in 0 .. N : g[j] = Body(g)[j]
  <2> HIDE DEF Cell
  <2> QED BY <1>4, <1>1 DEF NoWinner
<1>6. g = Body(g)
  BY <1>3, <1>5 DEF Iterates
<1>7. f = CHOOSE h : h = Body(h)
  BY DEF WinnerAfter
<1>8. f = Body(f)
  <2> HIDE DEF Body, f
  <2> QED BY <1>6, <1>7
<1>9. \A j \in 0 .. N : f[j] = IF j = 0 THEN NoWinner ELSE Cell(j, f[j - 1])
  <2> HIDE DEF f, Cell
  <2> QED BY <1>8
<1> QED
  <2> HIDE DEF f
  <2>1. f[0] = NoWinner
    BY <1>9, <1>1
  <2>2. \A j \in 1 .. N : f[j] = Cell(j, f[j - 1])
    BY <1>9, <1>1
  <2> QED BY <2>1, <2>2 DEF f

\* While a ticket is below the pot there is a first input whose running total
\* exceeds it, and every earlier running total does not.
LEMMA FirstHolder ==
  ASSUME NEW vals \in Seq(Nat), NEW r \in Nat, r < Total(vals)
  PROVE  \E m \in 1 .. Len(vals) :
           /\ RunningTotal(vals)[m - 1] <= r
           /\ \A j \in 1 .. Len(vals) : r < RunningTotal(vals)[j] <=> m <= j
<1> DEFINE N == Len(vals)
           f == RunningTotal(vals)
           hit == {j \in 0 .. N : r < f[j]}
<1>1. N \in Nat
  OBVIOUS
<1>2. /\ f \in [0 .. N -> Nat] /\ f[0] = 0
      /\ \A i \in 0 .. N : \A k \in i .. N : f[i] <= f[k]
  BY RunningTotalUnfolds, RunningTotalMonotone
<1>3. r < f[N]
  BY DEF Total
<1> HIDE DEF f, N
<1>4. hit \in SUBSET Nat /\ hit # {}
  BY <1>1, <1>3
<1>5. PICK m \in hit : \A j \in hit : m <= j
  <2> HIDE DEF hit
  <2> QED BY <1>4, LeastNat
<1>6. m \in 1 .. N
  BY <1>1, <1>2, <1>5
<1>7. f[m - 1] <= r
  <2>1. m - 1 \in 0 .. N /\ m - 1 \notin hit
    BY <1>1, <1>5, <1>6
  <2>2. f[m - 1] \in Nat
    BY <1>2, <2>1
  <2> QED BY <2>1, <2>2
<1>8. ASSUME NEW j \in 1 .. N PROVE r < f[j] <=> m <= j
  <2>1. j \in 0 .. N /\ f[j] \in Nat /\ f[m] \in Nat /\ m \in 0 .. N
    BY <1>1, <1>2, <1>6
  <2>2. r < f[j] => m <= j
    BY <1>5, <2>1
  <2>3. m <= j => f[m] <= f[j]
    BY <1>1, <1>2, <1>6, <2>1
  <2>4. r < f[m]
    BY <1>5
  <2> QED BY <2>1, <2>2, <2>3, <2>4
<1> QED BY <1>6, <1>7, <1>8 DEF f, N

\* THE selection theorem: for every input list and every ticket below the pot the
\* leader's loop ends on an input, and the ticket lies in that input's own
\* interval of the pot, so require(winnerIdx >= 0) never fails and each input
\* owns exactly as many tickets as it has sompi (raffle_entry.sil:98-107).
THEOREM WinnerHoldsTicket ==
  ASSUME NEW vals \in Seq(Nat), NEW r \in Nat, r < Total(vals)
  PROVE  /\ Winner(vals, r) \in 1 .. Len(vals)
         /\ RunningTotal(vals)[Winner(vals, r) - 1] <= r
         /\ r < RunningTotal(vals)[Winner(vals, r)]
         /\ \A j \in 1 .. Len(vals) :
               r < RunningTotal(vals)[j] <=> Winner(vals, r) <= j
<1> DEFINE N == Len(vals)
           f == RunningTotal(vals)
           w == WinnerAfter(vals, r)
<1>1. N \in Nat
  OBVIOUS
<1>2. PICK m \in 1 .. N :
         f[m - 1] <= r /\ \A j \in 1 .. N : r < f[j] <=> m <= j
  BY FirstHolder
<1>3. /\ w[0] = 0
      /\ \A j \in 1 .. N : w[j] = IF w[j - 1] = 0 /\ r < f[j] THEN j ELSE w[j - 1]
  BY WinnerAfterUnfolds DEF NoWinner
<1> HIDE DEF f, w, N
<1> DEFINE Good == {n \in Nat : n <= N => w[n] = IF n < m THEN 0 ELSE m}
<1>4. 0 \in Good
  BY <1>1, <1>2, <1>3
<1>5. ASSUME NEW n \in Good PROVE n + 1 \in Good
  <2> SUFFICES ASSUME n + 1 <= N
               PROVE  w[n + 1] = IF n + 1 < m THEN 0 ELSE m
    OBVIOUS
  <2>1. n + 1 \in 1 .. N /\ (n + 1) - 1 = n
    BY <1>1
  <2>2. w[n + 1] = IF w[n] = 0 /\ r < f[n + 1] THEN n + 1 ELSE w[n]
    BY <1>3, <2>1
  <2>3. r < f[n + 1] <=> m <= n + 1
    BY <1>2, <2>1
  <2>4. w[n] = IF n < m THEN 0 ELSE m
    BY <1>1, <2>1
  <2> QED BY <1>2, <2>2, <2>3, <2>4
<1>6. Good = Nat
  <2>1. Good \in SUBSET Nat
    OBVIOUS
  <2> HIDE DEF Good
  <2> QED BY <1>4, <1>5, <2>1, NatSetInduction
<1>7. w[N] = m
  BY <1>1, <1>2, <1>6
<1>8. Winner(vals, r) = m
  BY <1>7 DEF Winner, w, N
<1>9. r < f[m]
  BY <1>1, <1>2
<1> QED BY <1>2, <1>8, <1>9 DEF f, N

\* raffle-cli's pick-winner predicts the covenant's winner for every ticket of
\* the pot (silverscript/raffle-cli/src/main.rs:101-114).
THEOREM PickWinnerAgrees ==
  ASSUME NEW vals \in Seq(Nat), NEW r \in Nat, r < Total(vals)
  PROVE  PickWinner(vals, r) = Winner(vals, r)
<1> DEFINE N == Len(vals)
           w == Winner(vals, r)
           hit == {j \in 1 .. N : r < RunningTotal(vals)[j]}
<1>1. w \in 1 .. N /\ \A j \in 1 .. N : j \in hit <=> w <= j
  BY WinnerHoldsTicket
<1>2. N \in Nat
  OBVIOUS
<1>3. PickWinner(vals, r) = IF hit = {} THEN 1 ELSE CHOOSE j \in hit : \A k \in hit : j <= k
  BY DEF PickWinner
<1> HIDE DEF w, N
<1>4. hit \subseteq 1 .. N
  OBVIOUS
<1> HIDE DEF hit
<1>5. w \in hit /\ \A k \in hit : w <= k
  BY <1>1, <1>2, <1>4
<1>6. \A j \in hit : (\A k \in hit : j <= k) => j = w
  BY <1>1, <1>2, <1>4, <1>5
<1> QED BY <1>3, <1>5, <1>6 DEF w

\* The split: the two fixed shares are naturals that leave at least half of the
\* pot to the winner, whatever the rounding (raffle_entry.sil:110-117).
THEOREM SplitLeavesHalf ==
  ASSUME NEW total \in Nat
  PROVE  /\ DevAmt(total) \in Nat /\ OpsAmt(total) \in Nat
         /\ DevAmt(total) + OpsAmt(total) <= total
         /\ 2 * WinnerAmt(total) >= total
BY DEF DevAmt, OpsAmt, WinnerAmt

\* Each element of a list of natural numbers is one.
LEMMA NatAtEachPosition ==
  ASSUME NEW vals \in Seq(Nat)
  PROVE  \A j \in 1 .. Len(vals) : vals[j] \in Nat
OBVIOUS

\* The sum of a draw's three outputs, written out.
LEMMA TotalOfThree ==
  ASSUME NEW vals \in Seq(Nat), Len(vals) = 3
  PROVE  Total(vals) = vals[1] + vals[2] + vals[3]
<1>1. /\ 1 \in 1 .. Len(vals) /\ 2 \in 1 .. Len(vals) /\ 3 \in 1 .. Len(vals)
      /\ 1 - 1 = 0 /\ 2 - 1 = 1 /\ 3 - 1 = 2
  OBVIOUS
<1>2. /\ RunningTotal(vals)[0] = 0
      /\ RunningTotal(vals)[1] = RunningTotal(vals)[0] + vals[1]
      /\ RunningTotal(vals)[2] = RunningTotal(vals)[1] + vals[2]
      /\ RunningTotal(vals)[3] = RunningTotal(vals)[2] + vals[3]
  <2> HIDE DEF RunningTotal
  <2> QED BY <1>1, RunningTotalUnfolds
<1>3. \A j \in 1 .. Len(vals) : vals[j] \in Nat
  BY NatAtEachPosition
<1>4. vals[1] \in Nat /\ vals[2] \in Nat /\ vals[3] \in Nat
  <2> HIDE DEF RunningTotal
  <2> QED BY <1>1, <1>3
<1> QED BY <1>2, <1>4 DEF Total

\* A sum of natural numbers is one.
LEMMA TotalType ==
  ASSUME NEW vals \in Seq(Nat)
  PROVE  Total(vals) \in Nat
<1>1. Len(vals) \in 0 .. Len(vals)
  OBVIOUS
<1> QED BY <1>1, RunningTotalUnfolds DEF Total

\* A list that is pointwise no larger has no larger total.
LEMMA TotalDominated ==
  ASSUME NEW small \in Seq(Nat), NEW large \in Seq(Nat), Len(small) = Len(large),
         \A j \in 1 .. Len(large) : small[j] <= large[j]
  PROVE  Total(small) <= Total(large)
<1> DEFINE f == RunningTotal(small)
           g == RunningTotal(large)
<1>1. PICK N \in Nat : N = Len(large)
  OBVIOUS
<1>2. /\ f \in [0 .. N -> Nat] /\ f[0] = 0
      /\ \A j \in 1 .. N : f[j] = f[j - 1] + small[j]
  <2> HIDE DEF f
  <2> QED BY <1>1, RunningTotalUnfolds DEF f
<1>3. /\ g \in [0 .. N -> Nat] /\ g[0] = 0
      /\ \A j \in 1 .. N : g[j] = g[j - 1] + large[j]
  <2> HIDE DEF g
  <2> QED BY <1>1, RunningTotalUnfolds DEF g
<1>4. \A j \in 1 .. N : small[j] \in Nat /\ large[j] \in Nat /\ small[j] <= large[j]
  BY <1>1, NatAtEachPosition
<1>5. Total(small) = f[N] /\ Total(large) = g[N]
  BY <1>1 DEF Total
<1> HIDE DEF f, g
<1> DEFINE Good == {n \in Nat : n <= N => f[n] <= g[n]}
<1>6. 0 \in Good
  BY <1>2, <1>3
<1>7. ASSUME NEW n \in Good PROVE n + 1 \in Good
  <2> SUFFICES ASSUME n + 1 <= N PROVE f[n + 1] <= g[n + 1]
    OBVIOUS
  <2>1. n + 1 \in 1 .. N /\ (n + 1) - 1 = n /\ n \in 0 .. N
    OBVIOUS
  <2>2. f[n + 1] = f[n] + small[n + 1] /\ g[n + 1] = g[n] + large[n + 1]
    BY <1>2, <1>3, <2>1
  <2>3. f[n] \in Nat /\ g[n] \in Nat /\ f[n] <= g[n]
    BY <1>2, <1>3, <2>1
  <2> QED BY <1>4, <2>1, <2>2, <2>3
<1>8. Good \in SUBSET Nat
  OBVIOUS
<1>9. Good = Nat
  <2> HIDE DEF Good
  <2> QED BY <1>6, <1>7, <1>8, NatSetInduction
<1> QED BY <1>5, <1>9
=============================================================================
