------------------------------- MODULE RafflePot -------------------------------
(* What the covenant promises, without scripts, witnesses or delegates: an     *)
(* entry stays in the pot until a settlement of its own day takes it together  *)
(* with others and pays 50/40/10 at once, or until its reclaim time has come.  *)
EXTENDS WinnerSelection, FiniteSets

CONSTANTS Keys, Configs, Blocks, Rand, MAX_ENTRIES, MIN_ENTRY, MAX_FEE,
          Ids             \* names of entry outputs

VARIABLES open,           \* the unspent entries: id -> [config, entrant, value]
          wallet,         \* sompi each key has been paid
          medianTime,     \* past median time of the chain
          chain           \* blocks that may seed the entropy

vars == <<open, wallet, medianTime, chain>>

Entry == [config : Configs, entrant : Keys, value : Nat]

Init ==
  /\ open = << >>
  /\ wallet = [k \in Keys |-> 0]
  /\ medianTime = 0
  /\ chain = {}

Without(f, S) == [x \in DOMAIN f \ S |-> f[x]]

Enter ==
  /\ \E id \in Ids \ DOMAIN open :
       /\ DOMAIN open' = DOMAIN open \cup {id}
       /\ open'[id] \in Entry
       /\ \A x \in DOMAIN open : open'[x] = open[x]
  /\ UNCHANGED <<wallet, medianTime, chain>>

\* A batch: open entries of one day in the order the settler lists them.
Batches ==
  {b \in UNION {[1 .. n -> DOMAIN open] : n \in 1 .. MAX_ENTRIES} :
     /\ \A i, j \in DOMAIN b : b[i] = b[j] => i = j
     /\ \A i \in DOMAIN b : /\ open[b[i]].config = open[b[1]].config
                            /\ open[b[i]].value >= MIN_ENTRY}

Settle ==
  \E b \in Batches, blk \in chain, fee \in 0 .. MAX_FEE :
    LET c      == open[b[1]].config
        vals   == [i \in 1 .. Len(b) |-> open[b[i]].value]
        total  == Total(vals)
        winner == open[b[Winner(vals, Ticket(Rand[blk], total))]].entrant
        share(k, payee, amount) == IF k = payee THEN amount ELSE 0
    IN  /\ medianTime > c.closeTime
        /\ open' = Without(open, {b[i] : i \in DOMAIN b})
        /\ wallet' = [k \in Keys |-> wallet[k]
                        + share(k, winner, WinnerAmt(total) - fee)
                        + share(k, c.devFund, DevAmt(total))
                        + share(k, c.ops, OpsAmt(total))]
        /\ UNCHANGED <<medianTime, chain>>

\* The entrant sends the entry wherever it wants.
TakeBack ==
  \E id \in DOMAIN open :
    /\ medianTime > open[id].config.closeTime + open[id].config.reclaimDelay
    /\ open' = Without(open, {id})
    /\ wallet' \in [Keys -> Nat]
    /\ \A k \in Keys : wallet[k] <= wallet'[k] /\ wallet'[k] <= wallet[k] + open[id].value
    /\ UNCHANGED <<medianTime, chain>>

\* Blocks arrive, time passes, the selected chain may drop blocks again.
Tick ==
  /\ medianTime' \in Nat /\ medianTime <= medianTime'
  /\ chain' \subseteq Blocks
  /\ UNCHANGED <<open, wallet>>

Next == Enter \/ Settle \/ TakeBack \/ Tick

Spec == Init /\ [][Next]_vars
=============================================================================
