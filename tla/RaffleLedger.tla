------------------------------ MODULE RaffleLedger ------------------------------
(* The raffle as the ledger sees it: anyone may submit any transaction that     *)
(* spends entries, and the script engine runs every input on its own.  Whether  *)
(* delegates that only look at input 1 add up to a whole settlement is the      *)
(* question of this module; RafflePot is the answer it should implement.        *)
EXTENDS RaffleEntry, FiniteSets

CONSTANTS Ids,               \* outpoints
          Deposits,          \* the coins that may appear
          Witnesses,         \* draw witnesses a settler can make up
          Signers,           \* sets of keys that may sign a transaction
          LockTimes,         \* lock times a transaction may carry
          OutputLists,       \* OutputLists[t]: outputs a transaction of total t may have
          ForeignScripts,    \* redeem scripts of other contracts
          MaxInputs,         \* bound: inputs of one transaction
          MaxTime            \* bound: last median time

Scripts == Seq(Keys \cup Nat \cup {TailByte})
Locks == [type : {"p2sh"}, script : Scripts] \cup [type : {"p2pk"}, key : Keys]
Coins == [lock : Locks, value : Nat]

ASSUME LedgerAssumption ==
  /\ Deposits \subseteq Coins
  /\ Witnesses \subseteq [entrants : Seq(Keys), block : Blocks,
                          prefix : Scripts, suffix : Scripts]
  /\ Signers \subseteq SUBSET Keys
  /\ LockTimes \subseteq Nat
  /\ \A total \in DOMAIN OutputLists : OutputLists[total] \subseteq Seq(Coins)
  /\ \A s \in ForeignScripts : \A c \in Configs : \A e \in Keys : s # EntryScript(c, e)
  /\ MaxInputs \in Nat \ {0} /\ MaxTime \in Nat

VARIABLES utxo,        \* unspent outputs: a function from the live outpoints
          spent,       \* outpoints already spent: a name is never used again
          wallet,      \* sompi paid to each key's own P2PK lock
          medianTime,  \* past median time, against which lockTime is final
          chain        \* blocks of Blocks that are on the selected chain

vars == <<utxo, spent, wallet, medianTime, chain>>

Init ==
  /\ utxo = << >>
  /\ spent = {}
  /\ wallet = [k \in Keys |-> 0]
  /\ medianTime = 0
  /\ chain = {}

IsEntry(coin) == \E c \in Configs, e \in Keys : coin.lock = EntryLock(c, e)

-----------------------------------------------------------------------------
(* Acceptance of one input *)

\* Spends whose script does not look at the outputs: an entry's reclaim, a
\* delegate of a draw, a plain coin, a coin of another contract.
FreeInput(tx, i, signers) ==
  LET lock == tx.inputs[i].lock
  IN  \/ \E c \in Configs, e \in Keys :
           lock = EntryLock(c, e) /\ Reclaim(c, e, tx, signers)
      \/ \E k \in signers : lock = P2PK(k)
      \/ lock.type = "p2sh" /\ lock.script \in ForeignScripts

\* The draws an entry at input i admits: its constructor arguments and a witness.
AdmittedDraws(tx, i) ==
  LET mine == {c \in Configs : \E e \in Keys : tx.inputs[i].lock = EntryLock(c, e)}
  IN  {d \in mine \X Witnesses : DrawInputs(d[1], tx, d[2], i, chain)}

\* Input lists: distinct live outpoints, at least one of them an entry.  A
\* transaction that spends no entry is no business of the raffle.
InputLists ==
  {ins \in UNION {[1 .. n -> DOMAIN utxo] : n \in 1 .. MaxInputs} :
     /\ \A i, j \in DOMAIN ins : ins[i] = ins[j] => i = j
     /\ \E i \in DOMAIN ins : IsEntry(utxo[ins[i]])}

Credit(outputs, k) ==
  Total([i \in 1 .. Len(outputs) |->
           IF outputs[i].lock = P2PK(k) THEN outputs[i].value ELSE 0])

-----------------------------------------------------------------------------
\* A deposit that may reuse an outpoint.
DepositAgain ==
  \E id \in Ids \ DOMAIN utxo, coin \in Deposits :
    /\ utxo' = [x \in DOMAIN utxo \cup {id} |-> IF x = id THEN coin ELSE utxo[x]]
    /\ UNCHANGED <<spent, wallet, medianTime, chain>>

Deposit ==
  \E id \in Ids \ (DOMAIN utxo \cup spent), coin \in Deposits :
    /\ utxo' = [x \in DOMAIN utxo \cup {id} |-> IF x = id THEN coin ELSE utxo[x]]
    /\ UNCHANGED <<spent, wallet, medianTime, chain>>

\* A transaction is accepted when it is final, spends no more than it has, and
\* every input's script succeeds with some witness.
Submit ==
  \E ins \in InputLists, lockTime \in LockTimes :
    /\ lockTime < medianTime
    /\ LET tx       == [inputs |-> [i \in 1 .. Len(ins) |-> utxo[ins[i]]],
                        lockTime |-> lockTime]
           total    == Total(Values(tx.inputs))
           admitted == [i \in 1 .. Len(ins) |-> AdmittedDraws(tx, i)]
       IN  /\ total \in DOMAIN OutputLists
           /\ \E signers \in Signers, outputs \in OutputLists[total] :
                /\ Total(Values(outputs)) <= total
                /\ \A i \in 1 .. Len(ins) :
                     \/ FreeInput(tx, i, signers)
                     \/ \E d \in admitted[i] : DrawOutputs(d[1], tx, d[2], i, outputs)
                /\ wallet' = [k \in Keys |-> wallet[k] + Credit(outputs, k)]
    /\ utxo' = [x \in DOMAIN utxo \ {ins[i] : i \in DOMAIN ins} |-> utxo[x]]
    /\ spent' = spent \cup {ins[i] : i \in DOMAIN ins}
    /\ UNCHANGED <<medianTime, chain>>

AdvanceTime ==
  /\ medianTime < MaxTime
  /\ medianTime' = medianTime + 1
  /\ UNCHANGED <<utxo, spent, wallet, chain>>

\* The selected chain gains a block or, in a reorganisation, loses some.
ExtendChain ==
  /\ \E b \in Blocks \ chain : chain' = chain \cup {b}
  /\ UNCHANGED <<utxo, spent, wallet, medianTime>>

Reorganise ==
  /\ \E kept \in SUBSET chain : kept # chain /\ chain' = kept
  /\ UNCHANGED <<utxo, spent, wallet, medianTime>>

Next == Deposit \/ Submit \/ AdvanceTime \/ ExtendChain \/ Reorganise

Spec == Init /\ [][Next]_vars

-----------------------------------------------------------------------------
(* Refinement mapping *)

\* The constructor arguments a lock commits to, read back.
EntryOf(coin) ==
  CHOOSE r \in [config : Configs, entrant : Keys, value : {coin.value}] :
    coin.lock = EntryLock(r.config, r.entrant)

OpenIds == {x \in DOMAIN utxo : IsEntry(utxo[x])}

OpenEntries == [x \in OpenIds |-> EntryOf(utxo[x])]

Pot == INSTANCE RafflePot WITH open <- OpenEntries

\* Whatever transactions are submitted, entries leave the ledger only as the
\* covenant promises: in one settlement of one day that pays the whole 50/40/10
\* split to the day's own keys and to the key the entropy selects, or through
\* the entrant's reclaim (raffle_entry.sil:11-25).
ImplementsPot == Pot!Spec

-----------------------------------------------------------------------------
TypeOK ==
  /\ DOMAIN utxo \subseteq Ids /\ spent \subseteq Ids
  /\ DOMAIN utxo \cap spent = {}
  /\ utxo \in [DOMAIN utxo -> Deposits]
  /\ wallet \in [Keys -> Nat]
  /\ medianTime \in 0 .. MaxTime
  /\ chain \subseteq Blocks

\* An honest settler's draw of the open entries b in that order (raffle-cli's
\* draw-sigscripts and buildDrawTx): the true template, the entrants' own keys,
\* the whole fee cap, and the split with `payee` as the winner.
HonestTx(b) == [inputs |-> [i \in DOMAIN b |-> utxo[b[i]]],
                lockTime |-> OpenEntries[b[1]].config.closeTime]

HonestWitness(b, blk) ==
  [entrants |-> [i \in DOMAIN b |-> OpenEntries[b[i]].entrant], block |-> blk,
   prefix |-> EntryPrefix(OpenEntries[b[1]].config), suffix |-> EntrySuffix]

HonestOutputs(b, payee) ==
  LET c     == OpenEntries[b[1]].config
      total == Total(Values(HonestTx(b).inputs))
  IN  << [lock |-> P2PK(payee), value |-> WinnerAmt(total) - MAX_FEE],
         [lock |-> P2PK(c.devFund), value |-> DevAmt(total)],
         [lock |-> P2PK(c.ops), value |-> OpsAmt(total)] >>

\* The payees for whom every input of that draw succeeds.
AcceptedPayees(b, blk) ==
  LET c == OpenEntries[b[1]].config
      w == HonestWitness(b, blk)
  IN  {k \in Keys : \A i \in DOMAIN b :
         /\ DrawInputs(c, HonestTx(b), w, i, chain)
         /\ DrawOutputs(c, HonestTx(b), w, i, HonestOutputs(b, k))}

\* The settler's candidate loop always finds its winner: of any batch of one
\* day's entries that fits, in any order and for any chain block, the covenant
\* takes exactly one payee, and that is one of the batch ("the node accepts
\* exactly the one the covenant allows", draw.js:100-101).
ExactlyOneWinner ==
  \A b \in Pot!Batches, blk \in chain :
    \E k \in Keys : /\ AcceptedPayees(b, blk) = {k}
                    /\ \E i \in DOMAIN b : OpenEntries[b[i]].entrant = k

\* "Biasing it would require burning real proof-of-work" (index.html:153): once
\* the batch and the block are given, whoever settles, the winner is given.
BlockFixesTheWinner ==
  \A p, q \in Pot!Batches, blk \in chain :
    {p[i] : i \in DOMAIN p} = {q[i] : i \in DOMAIN q}
      => AcceptedPayees(p, blk) = AcceptedPayees(q, blk)
=============================================================================
