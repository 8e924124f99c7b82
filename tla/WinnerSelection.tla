--------------------------- MODULE WinnerSelection ---------------------------
(* The value-weighted choice of a winner and the 50/40/10 split, the pure part *)
(* of a raffle draw: the loops of RaffleEntry.draw (covenant/raffle_entry.sil) *)
(* and the off-chain copy in raffle-cli's pick-winner command.  An input list  *)
(* is the sequence of its values in sompi; indices count from 1.               *)
EXTENDS Integers, Sequences

CONSTANT RandRange        \* 2^48: rand.slice(0, 6) + 0x00 read as an integer

ASSUME RandRangeAssumption == RandRange \in Nat \ {0}

\* The accumulator of both leader loops after j iterations.
RunningTotal(vals) ==
  LET acc[j \in 0 .. Len(vals)] ==
        IF j = 0 THEN 0 ELSE acc[j - 1] + vals[j]
  IN  acc

Total(vals) == RunningTotal(vals)[Len(vals)]

\* winnerIdx == -1 in the covenant: no input selected so far.
NoWinner == 0

\* The same, but a later input may replace the one selected.
LastAfter(vals, r) ==
  LET idx[j \in 0 .. Len(vals)] ==
        IF j = 0 THEN NoWinner
        ELSE IF r < RunningTotal(vals)[j] THEN j ELSE idx[j - 1]
  IN  idx

\* winnerIdx after j iterations of the selection loop.
WinnerAfter(vals, r) ==
  LET idx[j \in 0 .. Len(vals)] ==
        IF j = 0 THEN NoWinner
        ELSE IF idx[j - 1] = NoWinner /\ r < RunningTotal(vals)[j]
             THEN j
             ELSE idx[j - 1]
  IN  idx

Winner(vals, r) == WinnerAfter(vals, r)[Len(vals)]

\* raffle-cli pick-winner: the first index whose running total exceeds r; the
\* variable keeps its initial value, the first index, when there is none.
PickWinner(vals, r) ==
  LET hit == {j \in 1 .. Len(vals) : r < RunningTotal(vals)[j]}
  IN  IF hit = {} THEN 1 ELSE CHOOSE j \in hit : \A k \in hit : j <= k

TicketFromOne(rand, total) == (rand % total) + 1

\* The ticket drawn from a block's entropy.
Ticket(rand, total) == rand % total

DevAmt(total) == (total * 40) \div 100
OpsAmt(total) == (total * 10) \div 100
WinnerAmt(total) == total - DevAmt(total) - OpsAmt(total)
=============================================================================
