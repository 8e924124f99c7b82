--------------------------- MODULE LeaderLoopProofs ---------------------------
(* The unrolled loops, for every unroll bound, minimum and set of values: what *)
(* one copy at a time computes is what the selection theorems of               *)
(* WinnerSelectionProofs speak about.                                          *)
EXTENDS LeaderLoop, WinnerSelectionProofs

\* The copies that found an input to work on: all of them up to the list's end.
CopiesUsed == IF copy < n THEN copy ELSE n

NoDustUpTo(k) == \A j \in 1 .. k : vals[j] >= MIN_ENTRY

\* The first loop between two copies: the hidden counter, the running total and
\* the dust check agree on how far the list has been read.
Summing ==
  pc = "sum" =>
    /\ copy = 0 \/ LengthOK
    /\ counter = CopiesUsed
    /\ total = RunningTotal(vals)[counter]
    /\ NoDustUpTo(counter)
    /\ acc = 0 /\ winnerIdx = NoWinner

\* The list the second loop works on has passed every check of the first.
Checked ==
  /\ LengthOK
  /\ NoDustUpTo(n)
  /\ total = Total(vals)
  /\ r = Ticket(rand, total)

\* The second loop between two copies.
Selecting ==
  pc = "select" =>
    /\ Checked
    /\ counter = CopiesUsed
    /\ acc = RunningTotal(vals)[counter]
    /\ winnerIdx = WinnerAfter(vals, r)[counter]

Accepted == pc = "accept" => Checked /\ winnerIdx = Winner(vals, r)

\* The inductive invariant.
LoopInv == TypeOK /\ Summing /\ Selecting /\ Accepted /\ OnlyListedReasonsReject

-----------------------------------------------------------------------------
\* A list of input values is a sequence of natural numbers with at most one more than the unrolled copies.
LEMMA InputListShape ==
  ASSUME NEW v \in InputLists
  PROVE  /\ v \in Seq(Nat)
         /\ Len(v) \in 1 .. MAX_ENTRIES + 1
         /\ \A j \in 1 .. Len(v) : v[j] \in Nat
<1>1. PICK m \in 1 .. MAX_ENTRIES + 1 : v \in [1 .. m -> Values]
  BY DEF InputLists
<1>2. m \in Nat /\ v \in [1 .. m -> Nat]
  <2>1. m \in Nat
    BY LoopAssumption
  <2>2. \A j \in 1 .. m : v[j] \in Nat
    BY <1>1, LoopAssumption
  <2> QED BY <1>1, <2>1, <2>2
<1>3. v \in Seq(Nat) /\ Len(v) = m
  BY <1>2
<1> QED BY <1>1, <1>2, <1>3

\* A list that passed the checks holds at least one sompi, so the ticket is
\* taken modulo something and lies in the pot.
LEMMA CheckedPotHoldsTicket ==
  ASSUME NEW v \in InputLists, \A j \in 1 .. Len(v) : v[j] >= MIN_ENTRY,
         NEW e \in 0 .. RandRange - 1
  PROVE  /\ Total(v) \in Nat \ {0}
         /\ Ticket(e, Total(v)) \in Nat
         /\ Ticket(e, Total(v)) < Total(v)
<1>1. v \in Seq(Nat) /\ Len(v) \in Nat /\ Len(v) >= 1 /\ v[1] \in Nat
  <2>1. v \in Seq(Nat) /\ Len(v) \in 1 .. MAX_ENTRIES + 1 /\ \A j \in 1 .. Len(v) : v[j] \in Nat
    BY InputListShape
  <2> QED BY <2>1, LoopAssumption
<1>2. /\ RunningTotal(v)[0] = 0
      /\ RunningTotal(v)[1] = RunningTotal(v)[0] + v[1]
      /\ RunningTotal(v)[1] \in Nat
  <2>1. 1 \in 1 .. Len(v) /\ 1 \in 0 .. Len(v) /\ 1 - 1 = 0
    BY <1>1
  <2> HIDE DEF RunningTotal
  <2> QED BY <1>1, <2>1, RunningTotalUnfolds
<1>3. RunningTotal(v)[1] <= Total(v)
  <2>1. 1 \in 0 .. Len(v) /\ Len(v) \in 1 .. Len(v)
    BY <1>1
  <2> QED BY <1>1, <2>1, RunningTotalMonotone DEF Total
<1>4. Total(v) \in Nat
  BY <1>1, TotalType
<1>5. v[1] > 0
  BY <1>1, LoopAssumption
<1>6. Total(v) \in Nat /\ Total(v) > 0
  BY <1>1, <1>2, <1>3, <1>4, <1>5
<1>7. e \in Nat
  BY RandRangeAssumption
<1> QED BY <1>6, <1>7 DEF Ticket

\* The loops start in the invariant.
LEMMA LoopInit == Init => LoopInv
<1> SUFFICES ASSUME Init PROVE LoopInv
  OBVIOUS
<1>1. vals \in Seq(Nat) /\ Len(vals) \in 1 .. MAX_ENTRIES + 1
  BY InputListShape DEF Init
<1>2. RunningTotal(vals)[0] = 0
  BY <1>1, RunningTotalUnfolds
<1>3. TypeOK
  BY LoopAssumption DEF Init, TypeOK, NoWinner
<1>4. Summing
  <2>1. CopiesUsed = 0
    BY <1>1, LoopAssumption DEF Init, CopiesUsed, n
  <2> QED BY <1>2, <2>1 DEF Init, Summing, NoDustUpTo
<1>5. Selecting /\ Accepted /\ OnlyListedReasonsReject
  BY DEF Init, Selecting, Accepted, OnlyListedReasonsReject
<1> QED BY <1>3, <1>4, <1>5 DEF LoopInv

\* One copy of a loop body moves the hidden counter to where the list ends or
\* the copies are used up.
LEMMA CopyAdvances ==
  ASSUME TypeOK, copy < MAX_ENTRIES, copy' = copy + 1, vals' = vals,
         counter = CopiesUsed,
         counter' = IF counter < n THEN counter + 1 ELSE counter
  PROVE  /\ copy' \in 0 .. MAX_ENTRIES
         /\ LengthOK => counter' \in 0 .. MAX_ENTRIES
         /\ counter' = CopiesUsed'
         /\ counter \in 0 .. n /\ counter' \in 0 .. n
<1>1. n \in Nat /\ copy \in Nat /\ MAX_ENTRIES \in Nat /\ n' = n /\ n >= 1
  <2>1. Len(vals) \in 1 .. MAX_ENTRIES + 1
    BY InputListShape DEF TypeOK
  <2> QED BY <2>1, LoopAssumption DEF TypeOK, n
<1> QED BY <1>1 DEF CopiesUsed, LengthOK

\* The first loop: a copy adds the next value to the total, after its dust check.
LEMMA SumCopyKeeps == LoopInv /\ SumCopy => LoopInv'
<1> SUFFICES ASSUME LoopInv, SumCopy PROVE LoopInv'
  OBVIOUS
<1> USE DEF LoopInv
<1>1. /\ vals \in Seq(Nat) /\ n \in Nat /\ n \in 1 .. MAX_ENTRIES + 1
      /\ \A j \in 1 .. n : vals[j] \in Nat
  BY InputListShape DEF TypeOK, n
<1>2. /\ pc = "sum" /\ pc' = "sum" /\ LengthOK /\ copy < MAX_ENTRIES
      /\ vals' = vals /\ rand' = rand /\ r' = r /\ acc' = acc /\ winnerIdx' = winnerIdx
      /\ copy' = copy + 1
      /\ counter' = IF counter < n THEN counter + 1 ELSE counter
  BY DEF SumCopy
<1>3. n' = n /\ LengthOK'
  BY <1>2 DEF n, LengthOK
<1>4. counter = CopiesUsed /\ total = RunningTotal(vals)[counter] /\ NoDustUpTo(counter)
  BY <1>2 DEF Summing
<1>5. /\ copy' \in 0 .. MAX_ENTRIES /\ counter' \in 0 .. MAX_ENTRIES
      /\ counter' = CopiesUsed' /\ counter \in 0 .. n /\ counter' \in 0 .. n
  BY <1>2, <1>4, CopyAdvances
<1>6. /\ RunningTotal(vals)[0] = 0
      /\ \A j \in 0 .. n : RunningTotal(vals)[j] \in Nat
      /\ \A j \in 1 .. n : RunningTotal(vals)[j] = RunningTotal(vals)[j - 1] + vals[j]
  BY <1>1, RunningTotalUnfolds DEF n
<1>7. total' = RunningTotal(vals)[counter'] /\ NoDustUpTo(counter')
  <2>1. CASE counter < n
    <3>1. counter + 1 \in 1 .. n /\ (counter + 1) - 1 = counter
      BY <1>1, <1>5, <2>1
    <3>2. vals[counter + 1] >= MIN_ENTRY /\ total' = total + vals[counter + 1]
      BY <2>1 DEF SumCopy
    <3>3. total' = RunningTotal(vals)[counter + 1]
      <4>1. RunningTotal(vals)[counter + 1]
              = RunningTotal(vals)[(counter + 1) - 1] + vals[counter + 1]
        BY <1>6, <3>1, Zenon
      <4> QED BY <1>4, <3>1, <3>2, <4>1
    <3>4. \A j \in 1 .. counter + 1 : j \in 1 .. counter \/ j = counter + 1
      BY <1>5, <1>1
    <3> QED BY <1>2, <1>4, <2>1, <3>2, <3>3, <3>4 DEF NoDustUpTo
  <2>2. CASE ~ (counter < n)
    BY <1>2, <1>4, <2>2 DEF SumCopy
  <2> QED BY <2>1, <2>2
<1>8. TypeOK'
  BY <1>2, <1>5, <1>6, <1>7 DEF TypeOK
<1>9. Summing'
  BY <1>2, <1>3, <1>5, <1>7 DEF Summing, NoDustUpTo
<1>10. Selecting' /\ Accepted' /\ OnlyListedReasonsReject'
  BY <1>2 DEF Selecting, Accepted, OnlyListedReasonsReject
<1> QED BY <1>8, <1>9, <1>10

\* The second loop: a copy adds the next value and fixes the winner once.
LEMMA SelectCopyKeeps == LoopInv /\ SelectCopy => LoopInv'
<1> SUFFICES ASSUME LoopInv, SelectCopy PROVE LoopInv'
  OBVIOUS
<1> USE DEF LoopInv
<1>1. /\ vals \in Seq(Nat) /\ n \in Nat /\ n \in 1 .. MAX_ENTRIES + 1 /\ r \in Nat
      /\ \A j \in 1 .. n : vals[j] \in Nat
  BY InputListShape DEF TypeOK, n
<1>2. /\ pc = "select" /\ pc' = "select" /\ copy < MAX_ENTRIES
      /\ vals' = vals /\ rand' = rand /\ r' = r /\ total' = total
      /\ copy' = copy + 1
      /\ counter' = IF counter < n THEN counter + 1 ELSE counter
  BY DEF SelectCopy
<1>3. /\ Checked /\ counter = CopiesUsed
      /\ acc = RunningTotal(vals)[counter]
      /\ winnerIdx = WinnerAfter(vals, r)[counter]
  BY <1>2 DEF Selecting
<1>4. n' = n /\ Checked'
  BY <1>2, <1>3 DEF n, Checked, LengthOK, NoDustUpTo
<1>5. /\ copy' \in 0 .. MAX_ENTRIES /\ counter' \in 0 .. MAX_ENTRIES
      /\ counter' = CopiesUsed' /\ counter \in 0 .. n /\ counter' \in 0 .. n
  BY <1>2, <1>3, CopyAdvances DEF Checked
<1>6. /\ \A j \in 0 .. n : RunningTotal(vals)[j] \in Nat
      /\ \A j \in 1 .. n : RunningTotal(vals)[j] = RunningTotal(vals)[j - 1] + vals[j]
  BY <1>1, RunningTotalUnfolds DEF n
<1>7. \A j \in 1 .. n :
        WinnerAfter(vals, r)[j] =
          IF WinnerAfter(vals, r)[j - 1] = NoWinner /\ r < RunningTotal(vals)[j]
          THEN j ELSE WinnerAfter(vals, r)[j - 1]
  BY <1>1, WinnerAfterUnfolds DEF n
<1>8. /\ acc' = RunningTotal(vals)[counter'] /\ acc' \in Nat
      /\ winnerIdx' = WinnerAfter(vals, r)[counter']
      /\ winnerIdx' \in 0 .. MAX_ENTRIES
  <2>1. CASE counter < n
    <3>1. counter + 1 \in 1 .. n /\ (counter + 1) - 1 = counter
      BY <1>1, <1>5, <2>1
    <3>2. /\ acc' = acc + vals[counter + 1]
          /\ winnerIdx' = IF winnerIdx = NoWinner /\ r < acc' THEN counter + 1 ELSE winnerIdx
          /\ counter' = counter + 1
      BY <2>1 DEF SelectCopy
    <3>3. acc' = RunningTotal(vals)[counter + 1]
      <4>1. RunningTotal(vals)[counter + 1]
              = RunningTotal(vals)[(counter + 1) - 1] + vals[counter + 1]
        BY <1>6, <3>1, Zenon
      <4> QED BY <1>3, <3>1, <3>2, <4>1
    <3>4. winnerIdx' = WinnerAfter(vals, r)[counter + 1]
      <4>1. WinnerAfter(vals, r)[counter + 1] =
              IF /\ WinnerAfter(vals, r)[(counter + 1) - 1] = NoWinner
                 /\ r < RunningTotal(vals)[counter + 1]
              THEN counter + 1 ELSE WinnerAfter(vals, r)[(counter + 1) - 1]
        BY <1>7, <3>1, Zenon
      <4> QED BY <1>3, <3>1, <3>2, <3>3, <4>1
    <3>5. winnerIdx' \in 0 .. MAX_ENTRIES
      BY <1>5, <3>2 DEF TypeOK
    <3> QED BY <1>5, <1>6, <3>2, <3>3, <3>4, <3>5
  <2>2. CASE ~ (counter < n)
    BY <1>2, <1>3, <2>2 DEF SelectCopy, TypeOK
  <2> QED BY <2>1, <2>2
<1>9. TypeOK'
  BY <1>2, <1>5, <1>8 DEF TypeOK
<1>10. Selecting'
  BY <1>2, <1>4, <1>5, <1>8 DEF Selecting
<1>11. Summing' /\ Accepted' /\ OnlyListedReasonsReject'
  BY <1>2 DEF Summing, Accepted, OnlyListedReasonsReject
<1> QED BY <1>9, <1>10, <1>11

\* Between the loops: after MAX_ENTRIES copies the whole list has been read, so
\* the ticket is drawn from the complete pot.
LEMMA DrawTicketKeeps == LoopInv /\ DrawTicket => LoopInv'
<1> SUFFICES ASSUME LoopInv, DrawTicket PROVE LoopInv'
  OBVIOUS
<1> USE DEF LoopInv
<1>1. /\ vals \in InputLists /\ vals \in Seq(Nat) /\ n \in Nat /\ n \in 1 .. MAX_ENTRIES + 1
      /\ MAX_ENTRIES \in Nat
  BY InputListShape, LoopAssumption DEF TypeOK, n
<1>2. /\ pc = "sum" /\ pc' = "select" /\ LengthOK /\ copy = MAX_ENTRIES
      /\ vals' = vals /\ rand' = rand /\ total' = total /\ acc' = acc
      /\ winnerIdx' = winnerIdx /\ r' = Ticket(rand, total)
      /\ copy' = 0 /\ counter' = 0
  BY DEF DrawTicket
<1>3. /\ counter = CopiesUsed /\ total = RunningTotal(vals)[counter]
      /\ NoDustUpTo(counter) /\ acc = 0 /\ winnerIdx = NoWinner
  BY <1>2 DEF Summing
<1>4. counter = n
  BY <1>1, <1>2, <1>3 DEF CopiesUsed, LengthOK
<1>5. total = Total(vals) /\ NoDustUpTo(n)
  BY <1>3, <1>4 DEF Total, n
<1>6. Checked'
  BY <1>2, <1>5 DEF Checked, LengthOK, NoDustUpTo, n
<1>7. r' \in Nat
  BY <1>1, <1>2, <1>5, CheckedPotHoldsTicket DEF TypeOK, NoDustUpTo, n
<1>8. RunningTotal(vals)[0] = 0 /\ WinnerAfter(vals, r')[0] = NoWinner
  BY <1>1, <1>7, RunningTotalUnfolds, WinnerAfterUnfolds
<1>9. CopiesUsed' = 0
  BY <1>1, <1>2 DEF CopiesUsed, n
<1>10. TypeOK'
  BY <1>1, <1>2, <1>7 DEF TypeOK
<1>11. Selecting'
  BY <1>2, <1>3, <1>6, <1>8, <1>9 DEF Selecting
<1>12. Summing' /\ Accepted' /\ OnlyListedReasonsReject'
  BY <1>2 DEF Summing, Accepted, OnlyListedReasonsReject
<1> QED BY <1>10, <1>11, <1>12

\* After the second loop the selection is complete, and never empty.
LEMMA CheckWinnerKeeps == LoopInv /\ CheckWinner => LoopInv'
<1> SUFFICES ASSUME LoopInv, CheckWinner PROVE LoopInv'
  OBVIOUS
<1> USE DEF LoopInv
<1>1. /\ vals \in InputLists /\ vals \in Seq(Nat) /\ n \in Nat /\ n \in 1 .. MAX_ENTRIES + 1
      /\ MAX_ENTRIES \in Nat
  BY InputListShape, LoopAssumption DEF TypeOK, n
<1>2. /\ pc = "select" /\ copy = MAX_ENTRIES
      /\ pc' = IF winnerIdx # NoWinner THEN "accept" ELSE "reject"
      /\ vals' = vals /\ rand' = rand /\ total' = total /\ acc' = acc /\ r' = r
      /\ winnerIdx' = winnerIdx /\ copy' = copy /\ counter' = counter
  BY DEF CheckWinner
<1>3. Checked /\ counter = CopiesUsed /\ winnerIdx = WinnerAfter(vals, r)[counter]
  BY <1>2 DEF Selecting
<1>4. counter = n
  BY <1>1, <1>2, <1>3 DEF CopiesUsed, LengthOK, Checked
<1>5. winnerIdx = Winner(vals, r)
  BY <1>3, <1>4 DEF Winner, n
<1>6. r \in Nat /\ r < Total(vals)
  BY <1>1, <1>3, CheckedPotHoldsTicket DEF TypeOK, Checked, NoDustUpTo, n
<1>7. winnerIdx \in 1 .. n
  BY <1>1, <1>5, <1>6, WinnerHoldsTicket DEF n
<1>8. pc' = "accept"
  BY <1>1, <1>2, <1>7 DEF NoWinner
<1>9. TypeOK'
  BY <1>2, <1>8 DEF TypeOK
<1>10. Accepted'
  BY <1>2, <1>3, <1>5 DEF Accepted, Checked, LengthOK, NoDustUpTo, n
<1>11. Summing' /\ Selecting' /\ OnlyListedReasonsReject'
  BY <1>8 DEF Summing, Selecting, OnlyListedReasonsReject
<1> QED BY <1>9, <1>10, <1>11

\* A rejection changes the control state only.
LEMMA RejectKeeps == LoopInv /\ (RejectTooMany \/ RejectDust) => LoopInv'
<1> SUFFICES ASSUME LoopInv, RejectTooMany \/ RejectDust PROVE LoopInv'
  OBVIOUS
<1> USE DEF LoopInv
<1>1. /\ pc = "sum" /\ pc' = "reject" /\ vals' = vals /\ rand' = rand /\ copy' = copy
      /\ counter' = counter /\ total' = total /\ r' = r /\ acc' = acc
      /\ winnerIdx' = winnerIdx
  BY DEF RejectTooMany, RejectDust, Reject
<1>2. TypeOK'
  BY <1>1 DEF TypeOK
<1>3. \/ Len(vals) > MAX_ENTRIES
      \/ \E j \in 1 .. Len(vals) : vals[j] < MIN_ENTRY
  <2>1. Len(vals) \in Nat /\ MAX_ENTRIES \in Nat /\ counter \in Nat
    BY InputListShape, LoopAssumption DEF TypeOK
  <2>2. CASE RejectTooMany
    BY <2>1, <2>2 DEF RejectTooMany, LengthOK, n
  <2>3. CASE RejectDust
    <3>1. counter + 1 \in 1 .. Len(vals) /\ vals[counter + 1] < MIN_ENTRY
      BY <2>1, <2>3 DEF RejectDust, n
    <3> QED BY <3>1
  <2> QED BY <2>2, <2>3
<1>4. Summing' /\ Selecting' /\ Accepted' /\ OnlyListedReasonsReject'
  BY <1>1, <1>3 DEF Summing, Selecting, Accepted, OnlyListedReasonsReject
<1> QED BY <1>2, <1>4

\* The invariant speaks of the variables only.
LEMMA LoopStutter == LoopInv /\ UNCHANGED vars => LoopInv'
BY DEF vars, LoopInv, TypeOK, Summing, Selecting, Accepted, OnlyListedReasonsReject, Checked,
       CopiesUsed, NoDustUpTo, LengthOK, n

\* The loops keep the inductive invariant, copy by copy.
THEOREM LoopInvariant == Spec => []LoopInv
<1>1. LoopInv /\ [Next]_vars => LoopInv'
  BY SumCopyKeeps, SelectCopyKeeps, DrawTicketKeeps, CheckWinnerKeeps, RejectKeeps,
     LoopStutter DEF Next
<1> QED BY LoopInit, <1>1, PTL DEF Spec

-----------------------------------------------------------------------------
\* Every variable of the unrolled loops keeps its type: no copy reads past the
\* list and the hidden counter never passes the unroll bound.
THEOREM LoopTypes == Spec => []TypeOK
BY LoopInvariant, PTL DEF LoopInv

\* A draw is turned down for its length or its dust only: whatever the batch and
\* the entropy, require(winnerIdx >= 0) never fails (raffle_entry.sil:83-107).
THEOREM LegalBatchesSettle == Spec => []OnlyListedReasonsReject
BY LoopInvariant, PTL DEF LoopInv

\* The unrolled copies read the whole list before the ticket is drawn, for every
\* unroll bound (silverscript-lang/src/compiler/for.rs against raffle_entry.sil:83).
THEOREM LoopsReadEverything == Spec => []NoInputSkipped
<1>1. LoopInv => NoInputSkipped
  BY DEF LoopInv, Selecting, Accepted, Checked, NoInputSkipped
<1> QED BY LoopInvariant, <1>1, PTL

\* The unrolled loops of the covenant select what raffle-cli's pick-winner
\* predicts, for every batch, every entropy and every unroll bound
\* (raffle_entry.sil:83-107 against raffle-cli/src/main.rs:101-114).
THEOREM PredictionIsSelection == Spec => []LoopsAgreeWithPickWinner
<1>1. LoopInv => LoopsAgreeWithPickWinner
  <2> SUFFICES ASSUME LoopInv, pc = "accept"
               PROVE  /\ total = Total(vals)
                      /\ winnerIdx = PickWinner(vals, Ticket(rand, Total(vals)))
                      /\ winnerIdx = Winner(vals, Ticket(rand, Total(vals)))
    BY DEF LoopsAgreeWithPickWinner
  <2>1. Checked /\ winnerIdx = Winner(vals, r)
    BY DEF LoopInv, Accepted
  <2>2. vals \in InputLists /\ vals \in Seq(Nat) /\ rand \in 0 .. RandRange - 1
    BY InputListShape DEF LoopInv, TypeOK
  <2>3. r = Ticket(rand, Total(vals)) /\ r \in Nat /\ r < Total(vals)
    BY <2>1, <2>2, CheckedPotHoldsTicket DEF Checked, NoDustUpTo, n
  <2>4. PickWinner(vals, r) = Winner(vals, r)
    BY <2>2, <2>3, PickWinnerAgrees
  <2> QED BY <2>1, <2>3, <2>4 DEF Checked
<1> QED BY LoopInvariant, <1>1, PTL

-----------------------------------------------------------------------------
\* The entropy has a value for every sompi of every batch the covenant accepts.
\* It is an assumption of the next theorem alone: 48 bits do not cover every pot
\* the ledger could hold.
EntropyCoversPots ==
  \A v \in InputLists : Len(v) <= MAX_ENTRIES => Total(v) <= RandRange

\* The winner is the only input whose interval of the pot holds the ticket.
LEMMA IntervalOwner ==
  ASSUME NEW v \in InputLists, NEW j \in 1 .. Len(v), v[j] > 0,
         NEW e \in Nat, e = RunningTotal(v)[j - 1]
  PROVE  e < Total(v) /\ Winner(v, e) = j
<1>1. v \in Seq(Nat) /\ Len(v) \in Nat /\ \A k \in 1 .. Len(v) : v[k] \in Nat
  BY InputListShape
<1>2. j \in Nat /\ j - 1 \in 0 .. Len(v) /\ j \in 0 .. Len(v) /\ Len(v) \in j .. Len(v)
  BY <1>1
<1>3. /\ \A k \in 0 .. Len(v) : RunningTotal(v)[k] \in Nat
      /\ \A k \in 1 .. Len(v) : RunningTotal(v)[k] = RunningTotal(v)[k - 1] + v[k]
  BY <1>1, RunningTotalUnfolds
<1>4. RunningTotal(v)[j] = e + v[j]
  BY <1>3, Zenon
<1>5. RunningTotal(v)[j] <= Total(v)
  BY <1>1, <1>2, RunningTotalMonotone DEF Total
<1>6. e < RunningTotal(v)[j] /\ e < Total(v)
  <2>1. v[j] \in Nat /\ RunningTotal(v)[j] \in Nat /\ Total(v) \in Nat
    BY <1>1, <1>2, <1>3, TotalType
  <2> QED BY <1>4, <1>5, <2>1
<1>7. Winner(v, e) \in 1 .. Len(v) /\ Winner(v, e) <= j
  BY <1>1, <1>6, WinnerHoldsTicket
<1>8. ~ (Winner(v, e) < j)
  <2> SUFFICES ASSUME Winner(v, e) < j PROVE FALSE
    OBVIOUS
  <2> DEFINE w == Winner(v, e)
  <2>1. w \in 0 .. Len(v) /\ j - 1 \in w .. Len(v)
    BY <1>1, <1>2, <1>7
  <2>2. e < RunningTotal(v)[w]
    BY <1>1, <1>6, WinnerHoldsTicket
  <2>3. RunningTotal(v)[w] <= RunningTotal(v)[j - 1]
    BY <1>1, <2>1, RunningTotalMonotone
  <2>4. RunningTotal(v)[w] \in Nat
    BY <1>3, <2>1
  <2> HIDE DEF w
  <2> QED BY <2>2, <2>3, <2>4
<1> QED BY <1>1, <1>2, <1>6, <1>7, <1>8

\* While the entropy covers the pot, every input that takes part wins for some
\* entropy: the one that lands on the first sompi of its interval ("the winner is
\* selected from chain-block entropy weighted by entry value", raffle_entry.sil:14).
THEOREM EveryInputHasATicket ==
  ASSUME EntropyCoversPots
  PROVE  Spec => []EveryInputCanWin
<1>1. LoopInv => EveryInputCanWin
  <2> SUFFICES ASSUME LoopInv, pc = "accept", NEW j \in 1 .. Len(vals)
               PROVE  \E e \in 0 .. RandRange - 1 : Winner(vals, Ticket(e, Total(vals))) = j
    BY DEF EveryInputCanWin
  <2> DEFINE e == RunningTotal(vals)[j - 1]
  <2>1. /\ vals \in InputLists /\ vals \in Seq(Nat) /\ Len(vals) \in Nat
        /\ \A k \in 1 .. Len(vals) : vals[k] \in Nat
    BY InputListShape DEF LoopInv, TypeOK
  <2>2. Len(vals) <= MAX_ENTRIES /\ vals[j] >= MIN_ENTRY
    <3>1. Checked
      BY DEF LoopInv, Accepted
    <3> QED BY <2>1, <3>1 DEF Checked, LengthOK, NoDustUpTo, n
  <2>3. vals[j] > 0
    BY <2>1, <2>2, LoopAssumption
  <2>4. e \in Nat
    <3>1. j - 1 \in 0 .. Len(vals)
      BY <2>1
    <3> QED BY <2>1, <3>1, RunningTotalUnfolds
  <2>5. e < Total(vals) /\ Winner(vals, e) = j
    BY <2>1, <2>3, <2>4, IntervalOwner
  <2>6. Total(vals) \in Nat /\ Total(vals) <= RandRange
    BY <2>1, <2>2, TotalType DEF EntropyCoversPots
  <2> HIDE DEF e
  <2>7. Ticket(e, Total(vals)) = e
    BY <2>4, <2>5, <2>6 DEF Ticket
  <2>8. e \in 0 .. RandRange - 1
    BY <2>4, <2>5, <2>6, RandRangeAssumption
  <2> QED BY <2>5, <2>7, <2>8
<1> QED BY LoopInvariant, <1>1, PTL
=============================================================================
