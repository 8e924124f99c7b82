------------------------------- MODULE KaspaNode -------------------------------
(* The Kaspa node as the draw service uses it (backend/rpc.js): deposits to     *)
(* entry addresses, the UTXO index, the mempool and its complaints about a draw *)
(* transaction.  Not code of the repository; the covenant's own part in an      *)
(* answer is RaffleEntry's.  Entropy blocks are taken from so deep that they    *)
(* stay on the selected chain (ENTROPY_BLOCK_DEPTH, rpc.js).                    *)
EXTENDS Integers, Sequences, FiniteSets

CONSTANTS Amounts,         \* values a deposit may have
          MIN_ENTRY,       \* covenant: least value of an entry in a draw
          RECLAIM_DELAY,   \* covenant: ticks after the close until a reclaim
          FeeNeeded,       \* FeeNeeded[n]: relay fee of a draw of n entries
          LeaderUsed,      \* LeaderUsed[n]: script units of input 0 of such a draw
          DelegateUsed,    \* script units of each other input
          UNITS_PER_BUDGET,
          MaxCoins,        \* bound: deposits of a behaviour
          MaxTime          \* bound: last tick of the clock

ASSUME NodeAssumption ==
  /\ MaxTime \in Nat /\ MaxCoins \in Nat
  /\ UNITS_PER_BUDGET \in Nat \ {0} /\ DelegateUsed \in Nat

VARIABLES now,             \* wall clock, in ticks
          medianTime,      \* past median time: follows the clock
          coins,           \* every deposit so far, oldest (lowest DAA score) first
          reclaimed,       \* deposits their entrants took back
          pool,            \* draws in the mempool
          drawn            \* draws on the chain

nodeVars == <<now, medianTime, coins, reclaimed, pool, drawn>>

NodeInit ==
  /\ now = 0 /\ medianTime = 0
  /\ coins = << >>
  /\ reclaimed = {} /\ pool = {} /\ drawn = {}

Inputs(tx) == {tx.entries[i] : i \in DOMAIN tx.entries}

Spent == reclaimed \cup UNION {Inputs(tx) : tx \in drawn}
Live  == DOMAIN coins \ Spent

\* getUtxosByAddresses: what the index holds; the mempool does not count.
EntryUtxos(addresses) == {i \in Live : coins[i].address \in addresses}

Deposit(address, amount) ==
  /\ Len(coins) < MaxCoins
  /\ coins' = Append(coins, [address |-> address, amount |-> amount, at |-> now])
  /\ UNCHANGED <<now, medianTime, reclaimed, pool, drawn>>

MedianStep ==
  /\ medianTime < now
  /\ medianTime' = medianTime + 1
  /\ UNCHANGED <<now, coins, reclaimed, pool, drawn>>

Confirm ==
  /\ \E tx \in pool : /\ pool' = pool \ {tx}
                      /\ drawn' = drawn \cup {tx}
  /\ UNCHANGED <<now, medianTime, coins, reclaimed>>

InPool == UNION {Inputs(tx) : tx \in pool}

TakeBack ==
  /\ \E i \in Live \ InPool :
       /\ medianTime > coins[i].address.close + RECLAIM_DELAY
       /\ reclaimed' = reclaimed \cup {i}
  /\ UNCHANGED <<now, medianTime, coins, pool, drawn>>

\* What keeps the node from taking the draw tx, signed for the template of `day`
\* with these budgets and this fee.  It reports one of them, whichever it meets
\* first; "rejected" is any message the draw engine does not recognise.
Complaints(tx, day, fee, leader, delegate) ==
  LET n == Len(tx.entries)
      honest == /\ Inputs(tx) \subseteq Live \ InPool
                /\ \A i \in Inputs(tx) : /\ coins[i].address.close = day.close
                                         /\ coins[i].address.keys = day.keys
                                         /\ coins[i].amount >= MIN_ENTRY
                /\ tx.winner = (tx.block % n) + 1
  IN  {c \in {"notFinalized", "feeTooLow", "leaderBudget", "delegateBudget", "rejected"} :
         \/ c = "notFinalized" /\ medianTime <= day.close
         \/ c = "feeTooLow" /\ fee < FeeNeeded[n]
         \/ c = "leaderBudget" /\ leader * UNITS_PER_BUDGET < LeaderUsed[n]
         \/ c = "delegateBudget" /\ n > 1 /\ delegate * UNITS_PER_BUDGET < DelegateUsed
         \/ c = "rejected" /\ ~honest}
=============================================================================
