------------------------------ MODULE LeaderLoop ------------------------------
(* The leader's two loops as the compiled covenant runs them: `for (j, 0, n,   *)
(* MAX_ENTRIES)` has no loop opcode behind it, the compiler unrolls it into one *)
(* length check and MAX_ENTRIES guarded copies of the body (for.rs), each copy  *)
(* reading and advancing a hidden counter.  One step is one unrolled copy.      *)
EXTENDS WinnerSelection

CONSTANTS MAX_ENTRIES,     \* unroll bound of both loops
          MIN_ENTRY,       \* least value of an input
          Values           \* the input values a draw may bring, dust included

ASSUME LoopAssumption ==
  /\ MAX_ENTRIES \in Nat \ {0}
  /\ MIN_ENTRY \in Nat \ {0}
  /\ Values \subseteq Nat

VARIABLES vals,        \* tx.inputs[*].value
          rand,        \* the 6 bytes of blake2b(commit) as an integer
          pc,          \* "sum", "select", "accept" or "reject"
          copy,        \* unrolled copies already executed in this loop
          counter,     \* __for_<k>_j, the hidden loop counter (counts from 0)
          total, r, acc, winnerIdx

vars == <<vals, rand, pc, copy, counter, total, r, acc, winnerIdx>>

\* One input more than the bound, so that the length check has work to do.
InputLists == UNION {[1 .. n -> Values] : n \in 1 .. MAX_ENTRIES + 1}

Init ==
  /\ vals \in InputLists
  /\ rand \in 0 .. RandRange - 1
  /\ pc = "sum"
  /\ copy = 0 /\ counter = 0
  /\ total = 0 /\ r = 0 /\ acc = 0 /\ winnerIdx = NoWinner

n == Len(vals)

\* A length check that lets one input more through.
LengthOKPlusOne == n - 0 <= MAX_ENTRIES + 1

\* require(n - 0 <= MAX_ENTRIES), ahead of the first copy.
LengthOK == n - 0 <= MAX_ENTRIES

Reject ==
  /\ pc' = "reject"
  /\ UNCHANGED <<vals, rand, copy, counter, total, r, acc, winnerIdx>>

RejectTooMany == pc = "sum" /\ copy = 0 /\ ~ LengthOK /\ Reject

\* One unrolled copy too many.
SumCopyPastBound ==
  /\ pc = "sum" /\ LengthOK /\ copy <= MAX_ENTRIES
  /\ copy' = copy + 1
  /\ IF counter < n
     THEN /\ vals[counter + 1] >= MIN_ENTRY
          /\ total' = total + vals[counter + 1]
          /\ counter' = counter + 1
     ELSE UNCHANGED <<total, counter>>
  /\ UNCHANGED <<vals, rand, pc, r, acc, winnerIdx>>

\* if (counter < n) { j = counter; body; counter = j + 1 }
SumCopy ==
  /\ pc = "sum" /\ LengthOK /\ copy < MAX_ENTRIES
  /\ copy' = copy + 1
  /\ IF counter < n
     THEN /\ vals[counter + 1] >= MIN_ENTRY
          /\ total' = total + vals[counter + 1]
          /\ counter' = counter + 1
     ELSE UNCHANGED <<total, counter>>
  /\ UNCHANGED <<vals, rand, pc, r, acc, winnerIdx>>

RejectDust ==
  /\ pc = "sum" /\ LengthOK /\ copy < MAX_ENTRIES
  /\ counter < n /\ vals[counter + 1] < MIN_ENTRY
  /\ Reject

\* int r = int(rand.slice(0, 6) + 0x00) % total, then the second loop's setup.
DrawTicket ==
  /\ pc = "sum" /\ LengthOK /\ copy = MAX_ENTRIES
  /\ r' = Ticket(rand, total)
  /\ pc' = "select"
  /\ copy' = 0 /\ counter' = 0
  /\ UNCHANGED <<vals, rand, total, acc, winnerIdx>>

\* A later copy may replace the winner.
SelectLastCopy ==
  /\ pc = "select" /\ copy < MAX_ENTRIES
  /\ copy' = copy + 1
  /\ IF counter < n
     THEN /\ acc' = acc + vals[counter + 1]
          /\ winnerIdx' = IF r < acc' THEN counter + 1 ELSE winnerIdx
          /\ counter' = counter + 1
     ELSE UNCHANGED <<acc, winnerIdx, counter>>
  /\ UNCHANGED <<vals, rand, pc, total, r>>

SelectCopy ==
  /\ pc = "select" /\ copy < MAX_ENTRIES
  /\ copy' = copy + 1
  /\ IF counter < n
     THEN /\ acc' = acc + vals[counter + 1]
          /\ winnerIdx' = IF winnerIdx = NoWinner /\ r < acc'
                          THEN counter + 1 ELSE winnerIdx
          /\ counter' = counter + 1
     ELSE UNCHANGED <<acc, winnerIdx, counter>>
  /\ UNCHANGED <<vals, rand, pc, total, r>>

\* require(winnerIdx >= 0)
CheckWinner ==
  /\ pc = "select" /\ copy = MAX_ENTRIES
  /\ pc' = IF winnerIdx # NoWinner THEN "accept" ELSE "reject"
  /\ UNCHANGED <<vals, rand, copy, counter, total, r, acc, winnerIdx>>

Next == RejectTooMany \/ SumCopy \/ RejectDust \/ DrawTicket \/ SelectCopy \/ CheckWinner

Spec == Init /\ [][Next]_vars

-----------------------------------------------------------------------------
TypeOK ==
  /\ vals \in InputLists
  /\ rand \in 0 .. RandRange - 1
  /\ pc \in {"sum", "select", "accept", "reject"}
  /\ copy \in 0 .. MAX_ENTRIES /\ counter \in 0 .. MAX_ENTRIES
  /\ total \in Nat /\ r \in Nat /\ acc \in Nat
  /\ winnerIdx \in 0 .. MAX_ENTRIES

\* The unrolled loops select what the off-chain predictor selects from the same
\* values and entropy: draw.js may rely on pick-winner, and the covenant never
\* selects an input whose interval of the pot does not hold the ticket
\* (raffle_entry.sil:83-107 against raffle-cli main.rs:101-114).
LoopsAgreeWithPickWinner ==
  pc = "accept" =>
    /\ total = Total(vals)
    /\ winnerIdx = PickWinner(vals, Ticket(rand, Total(vals)))
    /\ winnerIdx = Winner(vals, Ticket(rand, Total(vals)))

\* A draw is turned down for its length or for dust only, never because the
\* selection came out empty: any legal batch can be settled.
OnlyListedReasonsReject ==
  pc = "reject" => \/ Len(vals) > MAX_ENTRIES
                   \/ \E j \in 1 .. Len(vals) : vals[j] < MIN_ENTRY

\* The unrolled copies cover the whole list: when the second loop starts, every
\* input has been checked and counted, also with exactly MAX_ENTRIES of them.
NoInputSkipped ==
  pc \in {"select", "accept"} => total = Total(vals)

\* "the winner is selected from chain-block entropy weighted by entry value"
\* (raffle_entry.sil:14-15): each input that takes part wins for some entropy.
EveryInputCanWin ==
  pc = "accept" =>
    \A j \in 1 .. Len(vals) :
      \E e \in 0 .. RandRange - 1 : Winner(vals, Ticket(e, Total(vals))) = j
=============================================================================
