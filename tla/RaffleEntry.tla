------------------------------ MODULE RaffleEntry ------------------------------
(* The RaffleEntry covenant (covenant/raffle_entry.sil): when may an output of *)
(* a transaction's inputs be spent?  Each input runs the contract in its own   *)
(* redeem script with a witness of its own, and sees of the other inputs only  *)
(* what the transaction shows: their locks and values.                         *)
(*                                                                             *)
(* A redeem script is a sequence of symbols: a constructor argument is one     *)
(* symbol, and so is each byte after the entrant key.  blake2b is injective,   *)
(* so a P2SH lock is the script it commits to.                                 *)
EXTENDS WinnerSelection

CONSTANTS Keys,          \* 32-byte x-only public keys
          Configs,       \* the constructor arguments days are opened with
          Blocks,        \* chain blocks that can seed the entropy
          Rand,          \* Rand[b]: the 6 bytes drawn from b's commitment
          TailByte,      \* a byte of compiled code after the entrant key
          MAX_ENTRIES, MIN_ENTRY, MAX_FEE, SUFFIX_LEN

ASSUME EntryAssumption ==
  /\ Configs \subseteq [devFund : Keys, ops : Keys, closeTime : Nat, reclaimDelay : Nat]
  /\ Rand \in [Blocks -> 0 .. RandRange - 1]
  /\ MAX_ENTRIES \in Nat \ {0} /\ MIN_ENTRY \in Nat \ {0}
  /\ MAX_FEE \in Nat /\ SUFFIX_LEN \in Nat

-----------------------------------------------------------------------------
(* Compiled layout *)

\* The contract arguments up to the entrant key, each at its use site: closeTime,
\* devFund and ops in draw, closeTime + reclaimDelay in reclaim.
EntryPrefix(c) == <<c.closeTime, c.devFund, c.ops, c.closeTime + c.reclaimDelay>>

EntrySuffix == [i \in 1 .. SUFFIX_LEN |-> TailByte]

\* prefix + byte[](entrant) + suffix, the splice of the draw's witness.
Splice(prefix, entrant, suffix) == (prefix \o <<entrant>>) \o suffix

\* compile_entry: the redeem script of one entry.
EntryScript(c, entrant) == Splice(EntryPrefix(c), entrant, EntrySuffix)

P2SH(script) == [type |-> "p2sh", script |-> script]
P2PK(key)    == [type |-> "p2pk", key |-> key]

EntryLock(c, entrant) == P2SH(EntryScript(c, entrant))

-----------------------------------------------------------------------------
(* A transaction is a record tx of inputs, the coins (lock and value) it       *)
(* spends, and lockTime, with its outputs, again coins, and its signers, the   *)
(* keys whose signature it carries, given separately.                          *)

Values(coins) == [i \in 1 .. Len(coins) |-> coins[i].value]

\* require(tx.time >= t) compiles to OpCheckLockTimeVerify.
TimeReached(tx, t) == tx.lockTime >= t

\* The witness of a draw spend: w.entrants, w.block, w.prefix, w.suffix.
SameDay(tx, w, i) == tx.inputs[i].lock = P2SH(Splice(w.prefix, w.entrants[i], w.suffix))

\* Without the look at the leader.
AnchorOnly(tx, w, me) == SameDay(tx, w, me)

Delegate(tx, w, me) == SameDay(tx, w, me) /\ SameDay(tx, w, 1)

\* Winner's key, in the order of the inputs and for the entropy of w.block.
WinnerIndex(tx, w) ==
  LET vals == Values(tx.inputs) IN Winner(vals, Ticket(Rand[w.block], Total(vals)))

\* The leader's checks without a limit on the inputs.
AnyNumberOfInputs(tx, w, chain) ==
  /\ \A j \in 1 .. Len(tx.inputs) :
        SameDay(tx, w, j) /\ tx.inputs[j].value >= MIN_ENTRY
  /\ w.block \in chain
  /\ WinnerIndex(tx, w) # NoWinner

\* The leader's checks that come before it looks at the outputs; chain is the set
\* of blocks OpChainblockSeqCommit accepts.
LeaderInputs(tx, w, chain) ==
  /\ Len(tx.inputs) <= MAX_ENTRIES
  /\ \A j \in 1 .. Len(tx.inputs) :
        SameDay(tx, w, j) /\ tx.inputs[j].value >= MIN_ENTRY
  /\ w.block \in chain
  /\ WinnerIndex(tx, w) # NoWinner

\* The split without a look at who gets the winner share.
SplitOnly(c, tx, w, outputs) ==
  LET total == Total(Values(tx.inputs))
  IN  /\ Len(outputs) = 3
      /\ outputs[1].value >= total - DevAmt(total) - OpsAmt(total) - MAX_FEE
      /\ outputs[2] = [lock |-> P2PK(c.devFund), value |-> DevAmt(total)]
      /\ outputs[3] = [lock |-> P2PK(c.ops), value |-> OpsAmt(total)]

\* The outputs the leader asks for once the winner is known.
LeaderOutputs(c, tx, w, outputs) ==
  LET total == Total(Values(tx.inputs))
  IN  /\ Len(outputs) = 3
      /\ outputs[1].lock = P2PK(w.entrants[WinnerIndex(tx, w)])
      /\ outputs[1].value >= total - DevAmt(total) - OpsAmt(total) - MAX_FEE
      /\ outputs[2] = [lock |-> P2PK(c.devFund), value |-> DevAmt(total)]
      /\ outputs[3] = [lock |-> P2PK(c.ops), value |-> OpsAmt(total)]

\* entrypoint draw of the entry (c, _) at input me, in two parts: what it asks of
\* the inputs and the witness, and what it asks of the outputs.
DrawInputs(c, tx, w, me, chain) ==
  /\ TimeReached(tx, c.closeTime)
  /\ Len(w.suffix) = SUFFIX_LEN
  /\ Len(w.entrants) = Len(tx.inputs)
  /\ IF me # 1 THEN Delegate(tx, w, me) ELSE LeaderInputs(tx, w, chain)

DrawOutputs(c, tx, w, me, outputs) == me = 1 => LeaderOutputs(c, tx, w, outputs)

\* A reclaim beside other inputs.
ReclaimAmongOthers(c, entrant, tx, signers) ==
  /\ TimeReached(tx, c.closeTime + c.reclaimDelay)
  /\ entrant \in signers

\* entrypoint reclaim of the entry (c, entrant).
Reclaim(c, entrant, tx, signers) ==
  /\ Len(tx.inputs) = 1
  /\ TimeReached(tx, c.closeTime + c.reclaimDelay)
  /\ entrant \in signers
=============================================================================
