---------------------------- MODULE MCRaffleLedger ----------------------------
(* A small ledger for RaffleLedger: two days' worth of constructor arguments    *)
(* that share everything but the ops key, two entrants, amounts in units of 10  *)
(* KAS, and the witnesses and outputs a settler who wants more could try.       *)
EXTENDS RaffleLedger, TLC

CONSTANTS a, b, d, o, b1, b2

Day1 == [devFund |-> d, ops |-> o, closeTime |-> 1, reclaimDelay |-> 1]
Day2 == [devFund |-> d, ops |-> a, closeTime |-> 1, reclaimDelay |-> 1]

MCKeys == {a, b, d, o}
MCConfigs == {Day1, Day2}
MCBlocks == {b1, b2}
MCRand == [blk \in MCBlocks |-> IF blk = b1 THEN 7 ELSE 15]

\* Two minimum entries and a larger one of day 1, dust of day 1, an entry of day
\* 2, and another contract's coin whose script imitates the template.
Forged == Splice(<<0, d, o, 2>>, a, EntrySuffix)
Entry(c, e, v) == [lock |-> EntryLock(c, e), value |-> v]
MCDeposits ==
  {Entry(Day1, a, 10), Entry(Day1, b, 20), Entry(Day1, b, 9), Entry(Day2, a, 10),
   [lock |-> P2SH(Forged), value |-> 10]}

\* Every way to cut a known script around one of its keys, and every entrant list.
Cuts(script) ==
  {[prefix |-> SubSeq(script, 1, i - 1),
    suffix |-> SubSeq(script, i + 1, Len(script))] :
     i \in {j \in 3 .. Len(script) : script[j] \in MCKeys}}
MCCuts == UNION {Cuts(s) : s \in {EntryScript(Day1, b), EntryScript(Day2, a), Forged}}
EntrantLists == UNION {[1 .. n -> {a, b, o}] : n \in 1 .. 2} \cup [1 .. 3 -> {a, b}]
MCWitnesses ==
  {[entrants |-> e, block |-> blk, prefix |-> c.prefix, suffix |-> c.suffix] :
     e \in EntrantLists, blk \in MCBlocks, c \in MCCuts}

\* The split with fee f from the winner share and s moved from the dev share to it.
SplitOutputs(t, w, p, f, s) ==
  << [lock |-> P2PK(w), value |-> WinnerAmt(t) - f + s],
     [lock |-> P2PK(d), value |-> DevAmt(t) - s],
     [lock |-> P2PK(p), value |-> OpsAmt(t)] >>
OutputsOf(t) ==
  {SplitOutputs(t, w, p, 0, 0) : w \in {a, b, o}, p \in {o, a}}
    \cup {SplitOutputs(t, a, o, 1, 0), SplitOutputs(t, b, o, 1, 0), SplitOutputs(t, b, o, 2, 0)}
    \cup {SplitOutputs(t, b, o, 0, 1), <<[lock |-> P2PK(a), value |-> t]>>}
MCOutputLists == [t \in 9 .. 60 |-> OutputsOf(t)]
MCForeign == {Forged}
MCSigners == {{}, {a}}

\* For the order of the inputs: one day, one block, honest witnesses.
BatchConfigs == {Day1}
BatchBlocks == {b1}
BatchRand == [blk \in BatchBlocks |-> 7]
BatchDeposits == {Entry(Day1, a, 10), Entry(Day1, b, 20), Entry(Day1, b, 9)}
BatchWitnesses ==
  {[entrants |-> e, block |-> b1, prefix |-> EntryPrefix(Day1), suffix |-> EntrySuffix] :
     e \in UNION {[1 .. n -> {a, b}] : n \in 1 .. 3}}
Symmetry == Permutations(Ids)
=============================================================================
