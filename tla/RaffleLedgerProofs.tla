-------------------------- MODULE RaffleLedgerProofs --------------------------
(* Theorems of RaffleLedger for every set of keys, days, deposits, witnesses,   *)
(* outputs and transactions: the type invariant, the delegate argument of       *)
(* raffle_entry.sil:11-25, and the refinement of RafflePot.                     *)
EXTENDS RaffleLedger, WinnerSelectionProofs

(***************************************************************************)
(* The covenant's template: with the length of the suffix pinned, a        *)
(* witness that reproduces an entry's script is the entry's true template, *)
(* and a script belongs to one day and one entrant only.                   *)
(***************************************************************************)
Symbols == Keys \cup Nat \cup {TailByte}

\* x is p, then e, then s.
IsCut(x, p, e, s) ==
  /\ Len(x) = Len(p) + 1 + Len(s)
  /\ \A i \in 1 .. Len(p) : x[i] = p[i]
  /\ x[Len(p) + 1] = e
  /\ \A i \in 1 .. Len(s) : x[Len(p) + 1 + i] = s[i]

\* Splicing a part into a script gives the two ends around it, position by position.
LEMMA SpliceIsCut ==
  ASSUME NEW S, NEW p \in Seq(S), NEW e \in S, NEW s \in Seq(S)
  PROVE  Splice(p, e, s) \in Seq(S) /\ IsCut(Splice(p, e, s), p, e, s)
BY DEF Splice, IsCut

\* Two cuts of one script whose last parts have the same length are the same.
LEMMA CutUnique ==
  ASSUME NEW S, NEW x,
         NEW p \in Seq(S), NEW e \in S, NEW s \in Seq(S),
         NEW q \in Seq(S), NEW f \in S, NEW t \in Seq(S),
         IsCut(x, p, e, s), IsCut(x, q, f, t), Len(t) = Len(s)
  PROVE  p = q /\ e = f /\ s = t
<1>1. PICK n \in Nat : n = Len(s)
  OBVIOUS
<1>2. PICK m \in Nat : m = Len(p)
  OBVIOUS
<1>3. Len(q) \in Nat /\ Len(t) = n
  BY <1>1
<1>4. Len(q) = m
  BY <1>1, <1>2, <1>3 DEF IsCut
<1>5. \A i \in 1 .. m : p[i] = q[i]
  BY <1>2, <1>4 DEF IsCut
<1>6. e = f
  BY <1>2, <1>4 DEF IsCut
<1>7. \A i \in 1 .. n : s[i] = t[i]
  <2> SUFFICES ASSUME NEW i \in 1 .. n PROVE s[i] = t[i]
    OBVIOUS
  <2>1. x[m + 1 + i] = s[i]
    BY <1>1, <1>2 DEF IsCut
  <2>2. x[m + 1 + i] = t[i]
    BY <1>3, <1>4 DEF IsCut
  <2> QED BY <2>1, <2>2
<1>8. p = q
  BY <1>2, <1>4, <1>5
<1>9. s = t
  BY <1>1, <1>3, <1>7
<1> QED BY <1>6, <1>8, <1>9

\* The splice boundary is pinned: two splices of the same script whose suffixes
\* have the same length are the same cut.  Without the equal lengths this is
\* false, which is why the covenant requires suffix.length == SUFFIX_LEN
\* (raffle_entry.sil:18-20, 66).
LEMMA SpliceUnique ==
  ASSUME NEW S, NEW p \in Seq(S), NEW e \in S, NEW s \in Seq(S),
         NEW q \in Seq(S), NEW f \in S, NEW t \in Seq(S),
         Len(t) = Len(s), Splice(p, e, s) = Splice(q, f, t)
  PROVE  p = q /\ e = f /\ s = t
<1>1. IsCut(Splice(p, e, s), p, e, s)
  BY SpliceIsCut
<1>2. IsCut(Splice(p, e, s), q, f, t)
  <2>1. IsCut(Splice(q, f, t), q, f, t)
    BY SpliceIsCut
  <2> QED BY <2>1, Zenon
<1> QED BY <1>1, <1>2, CutUnique

\* The compiled prefix and suffix are strings of symbols of the right length.
LEMMA TemplateTypes ==
  ASSUME NEW c \in Configs
  PROVE  /\ EntryPrefix(c) \in Seq(Symbols)
         /\ EntrySuffix \in Seq(Symbols) /\ Len(EntrySuffix) = SUFFIX_LEN
         /\ \A e \in Keys : EntryScript(c, e) \in Seq(Symbols)
<1>1. /\ c.closeTime \in Nat /\ c.reclaimDelay \in Nat
      /\ c.devFund \in Keys /\ c.ops \in Keys
  BY EntryAssumption
<1>2. EntryPrefix(c) \in Seq(Symbols)
  BY <1>1 DEF EntryPrefix, Symbols
<1>3. EntrySuffix \in Seq(Symbols) /\ Len(EntrySuffix) = SUFFIX_LEN
  BY EntryAssumption DEF EntrySuffix, Symbols
<1>4. \A e \in Keys : e \in Symbols
  BY DEF Symbols
<1>5. \A e \in Keys : EntryScript(c, e) \in Seq(Symbols)
  BY <1>2, <1>3, <1>4, SpliceIsCut DEF EntryScript
<1> QED BY <1>2, <1>3, <1>5

\* A draw witness that reproduces an entry's script is that day's template and
\* names that entrant: a witness cannot be bent to another contract.
LEMMA WitnessIsTemplate ==
  ASSUME NEW c \in Configs, NEW e \in Keys,
         NEW prefix \in Seq(Symbols), NEW x \in Symbols, NEW suffix \in Seq(Symbols),
         Len(suffix) = SUFFIX_LEN, Splice(prefix, x, suffix) = EntryScript(c, e)
  PROVE  prefix = EntryPrefix(c) /\ x = e /\ suffix = EntrySuffix
<1>1. /\ EntryPrefix(c) \in Seq(Symbols) /\ EntrySuffix \in Seq(Symbols)
      /\ Len(EntrySuffix) = SUFFIX_LEN
  BY TemplateTypes
<1>2. e \in Symbols
  BY DEF Symbols
<1>3. Len(EntrySuffix) = Len(suffix)
  BY <1>1, Zenon
<1>4. Splice(prefix, x, suffix) = Splice(EntryPrefix(c), e, EntrySuffix)
  BY DEF EntryScript
<1> QED BY <1>1, <1>2, <1>3, <1>4, SpliceUnique, SMT

\* One script, one day, one entrant.
LEMMA EntryScriptInjective ==
  ASSUME NEW c1 \in Configs, NEW c2 \in Configs, NEW e1 \in Keys, NEW e2 \in Keys,
         EntryScript(c1, e1) = EntryScript(c2, e2)
  PROVE  c1 = c2 /\ e1 = e2
<1>1. EntryPrefix(c1) = EntryPrefix(c2) /\ e1 = e2
  <2>1. e1 \in Symbols /\ Splice(EntryPrefix(c1), e1, EntrySuffix) = EntryScript(c2, e2)
    BY DEF Symbols, EntryScript
  <2>2. /\ EntryPrefix(c1) \in Seq(Symbols) /\ EntrySuffix \in Seq(Symbols)
        /\ Len(EntrySuffix) = SUFFIX_LEN
    BY TemplateTypes
  <2> QED BY <2>1, <2>2, WitnessIsTemplate, SMT
<1>2. /\ EntryPrefix(c1)[1] = EntryPrefix(c2)[1]
      /\ EntryPrefix(c1)[2] = EntryPrefix(c2)[2]
      /\ EntryPrefix(c1)[3] = EntryPrefix(c2)[3]
      /\ EntryPrefix(c1)[4] = EntryPrefix(c2)[4]
  BY <1>1
<1>3. /\ c1.closeTime = c2.closeTime /\ c1.devFund = c2.devFund /\ c1.ops = c2.ops
      /\ c1.closeTime + c1.reclaimDelay = c2.closeTime + c2.reclaimDelay
  BY <1>2 DEF EntryPrefix
<1>4. /\ c1 \in [devFund : Keys, ops : Keys, closeTime : Nat, reclaimDelay : Nat]
      /\ c2 \in [devFund : Keys, ops : Keys, closeTime : Nat, reclaimDelay : Nat]
  BY EntryAssumption
<1>5. c1.reclaimDelay = c2.reclaimDelay
  BY <1>3, <1>4
<1> QED BY <1>1, <1>3, <1>4, <1>5

-----------------------------------------------------------------------------
(***************************************************************************)
(* The ledger.                                                             *)
(***************************************************************************)
\* The values of a list of coins are a list of naturals of the same length.
LEMMA CoinValues ==
  ASSUME NEW coins \in Seq(Coins)
  PROVE  Values(coins) \in Seq(Nat) /\ Len(Values(coins)) = Len(coins)
<1>1. \A i \in 1 .. Len(coins) : coins[i].value \in Nat
  <2>1. \A i \in 1 .. Len(coins) : coins[i] \in Coins
    OBVIOUS
  <2> QED BY <2>1 DEF Coins
<1> QED BY <1>1 DEF Values

\* What outputs pay to one key is a natural number within their total.
LEMMA CreditType ==
  ASSUME NEW outputs \in Seq(Coins), NEW k \in Keys
  PROVE  /\ Credit(outputs, k) \in Nat
         /\ Credit(outputs, k) <= Total(Values(outputs))
<1> DEFINE part == [i \in 1 .. Len(outputs) |->
                      IF outputs[i].lock = P2PK(k) THEN outputs[i].value ELSE 0]
<1>1. \A i \in 1 .. Len(outputs) : outputs[i].value \in Nat
  <2>1. \A i \in 1 .. Len(outputs) : outputs[i] \in Coins
    OBVIOUS
  <2> QED BY <2>1 DEF Coins
<1>2. part \in Seq(Nat) /\ Len(part) = Len(outputs)
  BY <1>1
<1>3. Values(outputs) \in Seq(Nat) /\ Len(Values(outputs)) = Len(outputs)
  BY CoinValues
<1>4. \A i \in 1 .. Len(outputs) : part[i] <= Values(outputs)[i]
  BY <1>1 DEF Values
<1>5. Credit(outputs, k) = Total(part)
  BY DEF Credit
<1> HIDE DEF part
<1>6. Total(part) \in Nat
  BY <1>2, TotalType
<1>7. Total(part) <= Total(Values(outputs))
  <2>1. \A j \in 1 .. Len(Values(outputs)) : part[j] <= Values(outputs)[j]
    BY <1>3, <1>4, Zenon
  <2>2. Len(part) = Len(Values(outputs))
    BY <1>2, <1>3, Zenon
  <2> QED BY <1>2, <1>3, <2>1, <2>2, TotalDominated
<1> QED BY <1>5, <1>6, <1>7

-----------------------------------------------------------------------------
\* The type invariant: among others, a spent outpoint never comes back and money
\* paid to a key is a natural number.
THEOREM TypeCorrect == Spec => []TypeOK
<1>1. Init => TypeOK
  <2> SUFFICES ASSUME Init PROVE TypeOK
    OBVIOUS
  <2>1. DOMAIN utxo = {} /\ utxo \in [{} -> Deposits]
    BY DEF Init
  <2> QED BY <2>1, LedgerAssumption DEF Init, TypeOK
<1>2. TypeOK /\ [Next]_vars => TypeOK'
  <2> SUFFICES ASSUME TypeOK, [Next]_vars PROVE TypeOK'
    OBVIOUS
  <2>1. CASE Deposit
    <3>1. PICK id \in Ids \ (DOMAIN utxo \cup spent), coin \in Deposits :
             /\ utxo' = [x \in DOMAIN utxo \cup {id} |-> IF x = id THEN coin ELSE utxo[x]]
             /\ UNCHANGED <<spent, wallet, medianTime, chain>>
      BY <2>1 DEF Deposit
    <3>2. DOMAIN utxo' = DOMAIN utxo \cup {id}
      BY <3>1
    <3>3. utxo' \in [DOMAIN utxo' -> Deposits]
      BY <3>1, <3>2 DEF TypeOK
    <3> QED BY <3>1, <3>2, <3>3 DEF TypeOK
  <2>2. CASE Submit
    <3>1. PICK ins \in InputLists :
             /\ utxo' = [x \in DOMAIN utxo \ {ins[i] : i \in DOMAIN ins} |-> utxo[x]]
             /\ spent' = spent \cup {ins[i] : i \in DOMAIN ins}
             /\ UNCHANGED <<medianTime, chain>>
             /\ \E total \in DOMAIN OutputLists : \E outputs \in OutputLists[total] :
                  wallet' = [k \in Keys |-> wallet[k] + Credit(outputs, k)]
      BY <2>2 DEF Submit
    <3>2. {ins[i] : i \in DOMAIN ins} \subseteq DOMAIN utxo
      BY DEF InputLists
    <3>3. /\ DOMAIN utxo' = DOMAIN utxo \ {ins[i] : i \in DOMAIN ins}
          /\ utxo' \in [DOMAIN utxo' -> Deposits]
      BY <3>1 DEF TypeOK
    <3>4. PICK outputs \in Seq(Coins) :
             wallet' = [k \in Keys |-> wallet[k] + Credit(outputs, k)]
      BY <3>1, LedgerAssumption
    <3>5. wallet' \in [Keys -> Nat]
      <4>1. \A k \in Keys : wallet[k] + Credit(outputs, k) \in Nat
        BY CreditType DEF TypeOK
      <4> QED BY <3>4, <4>1
    <3> QED BY <3>1, <3>2, <3>3, <3>5 DEF TypeOK
  <2>3. CASE AdvanceTime
    BY <2>3, LedgerAssumption DEF AdvanceTime, TypeOK
  <2>4. CASE ExtendChain
    BY <2>4 DEF ExtendChain, TypeOK
  <2>5. CASE Reorganise
    BY <2>5 DEF Reorganise, TypeOK
  <2>6. CASE UNCHANGED vars
    BY <2>6 DEF vars, TypeOK
  <2> QED BY <2>1, <2>2, <2>3, <2>4, <2>5, <2>6 DEF Next
<1> QED BY <1>1, <1>2, PTL DEF Spec

-----------------------------------------------------------------------------
(* The delegate argument *)

\* The script engine lets every input of tx through.
AcceptedTx(tx, signers, outputs) ==
  \A i \in 1 .. Len(tx.inputs) :
    \/ FreeInput(tx, i, signers)
    \/ \E d \in AdmittedDraws(tx, i) : DrawOutputs(d[1], tx, d[2], i, outputs)

\* A whole settlement of day c with witness w: the leader's checks hold and every
\* input is the entry that w says it is.
Settlement(c, tx, w, outputs) ==
  /\ TimeReached(tx, c.closeTime)
  /\ LeaderInputs(tx, w, chain)
  /\ LeaderOutputs(c, tx, w, outputs)
  /\ Len(w.entrants) = Len(tx.inputs)
  /\ \A j \in 1 .. Len(tx.inputs) : tx.inputs[j].lock = EntryLock(c, w.entrants[j])

\* A P2SH lock determines its script: the hash is injective.
LEMMA LockScript ==
  ASSUME NEW s, NEW t, P2SH(s) = P2SH(t)
  PROVE  s = t
<1>1. P2SH(s).script = s /\ P2SH(t).script = t
  BY DEF P2SH
<1> QED BY <1>1

\* A P2PK lock determines its key.
LEMMA P2PKInjective ==
  ASSUME NEW x, NEW y
  PROVE  P2PK(x) = P2PK(y) <=> x = y
<1>1. P2PK(x).key = x /\ P2PK(y).key = y
  BY DEF P2PK
<1> QED BY <1>1, Zenon

\* An entry lock determines its day and its entrant.
LEMMA EntryLockInjective ==
  ASSUME NEW c1 \in Configs, NEW c2 \in Configs, NEW e1 \in Keys, NEW e2 \in Keys,
         EntryLock(c1, e1) = EntryLock(c2, e2)
  PROVE  c1 = c2 /\ e1 = e2
<1>1. EntryScript(c1, e1) = EntryScript(c2, e2)
  BY LockScript DEF EntryLock
<1> QED BY <1>1, EntryScriptInjective

\* Input j, an entry (c, e), sees itself in the template of witness w.
SeesItself(tx, w, j, c, e) ==
  /\ j \in 1 .. Len(w.entrants) /\ Len(w.suffix) = SUFFIX_LEN
  /\ SameDay(tx, w, j) /\ tx.inputs[j].lock = EntryLock(c, e)

\* An entry that looks at itself with witness w pins w to its own template.
LEMMA WitnessPinned ==
  ASSUME NEW tx, NEW w \in Witnesses, NEW j, NEW c \in Configs, NEW e \in Keys,
         SeesItself(tx, w, j, c, e)
  PROVE  w.prefix = EntryPrefix(c) /\ w.suffix = EntrySuffix /\ w.entrants[j] = e
<1>1. Splice(w.prefix, w.entrants[j], w.suffix) = EntryScript(c, e)
  BY LockScript DEF SeesItself, SameDay, EntryLock
<1>2. w \in [entrants : Seq(Keys), block : Blocks, prefix : Scripts, suffix : Scripts]
  BY LedgerAssumption
<1>3. /\ w.prefix \in Seq(Symbols) /\ w.suffix \in Seq(Symbols)
      /\ w.entrants \in Seq(Keys)
  BY <1>2 DEF Scripts, Symbols
<1>4. w.entrants[j] \in Symbols
  BY <1>3 DEF SeesItself, Symbols
<1>5. Len(w.suffix) = SUFFIX_LEN
  BY DEF SeesItself
<1> QED BY <1>1, <1>3, <1>4, <1>5, WitnessIsTemplate

\* An input that shows the template of w, once w is pinned, is an entry.
LEMMA TemplateIsEntry ==
  ASSUME NEW tx, NEW w, NEW j, NEW c, w.prefix = EntryPrefix(c), w.suffix = EntrySuffix,
         SameDay(tx, w, j)
  PROVE  tx.inputs[j].lock = EntryLock(c, w.entrants[j])
BY DEF SameDay, EntryLock, EntryScript

\* What lets an entry through: its reclaim, or a draw of its own day.
LEMMA EntrySpend ==
  ASSUME NEW tx, NEW i, NEW signers, NEW outputs, NEW c \in Configs, NEW e \in Keys,
         tx.inputs[i].lock = EntryLock(c, e),
         \/ FreeInput(tx, i, signers)
         \/ \E d \in AdmittedDraws(tx, i) : DrawOutputs(d[1], tx, d[2], i, outputs)
  PROVE  \/ Reclaim(c, e, tx, signers)
         \/ \E w \in Witnesses : /\ DrawInputs(c, tx, w, i, chain)
                                 /\ DrawOutputs(c, tx, w, i, outputs)
<1>1. CASE FreeInput(tx, i, signers)
  <2>1. CASE \E c1 \in Configs, e1 \in Keys :
               EntryLock(c, e) = EntryLock(c1, e1) /\ Reclaim(c1, e1, tx, signers)
    BY <2>1, EntryLockInjective
  <2>2. ASSUME NEW k, EntryLock(c, e) = P2PK(k) PROVE FALSE
    <3>1. EntryLock(c, e).type = "p2sh" /\ P2PK(k).type = "p2pk"
      BY DEF EntryLock, P2SH, P2PK
    <3>2. "p2sh" # "p2pk"
      OBVIOUS
    <3> QED BY <2>2, <3>1, <3>2
  <2>3. EntryLock(c, e).script \notin ForeignScripts
    <3>1. EntryLock(c, e).script = EntryScript(c, e)
      BY DEF EntryLock, P2SH
    <3> QED BY <3>1, LedgerAssumption
  <2> QED BY <1>1, <2>1, <2>2, <2>3 DEF FreeInput
<1>2. CASE \E d \in AdmittedDraws(tx, i) : DrawOutputs(d[1], tx, d[2], i, outputs)
  <2>1. PICK d \in AdmittedDraws(tx, i) : DrawOutputs(d[1], tx, d[2], i, outputs)
    BY <1>2
  <2>2. /\ d \in {x \in Configs : \E e1 \in Keys : tx.inputs[i].lock = EntryLock(x, e1)}
                   \X Witnesses
        /\ DrawInputs(d[1], tx, d[2], i, chain)
    BY DEF AdmittedDraws
  <2>3. /\ d[1] \in Configs /\ d[2] \in Witnesses
        /\ \E e1 \in Keys : EntryLock(c, e) = EntryLock(d[1], e1)
    BY <2>2
  <2>4. d[1] = c
    BY <2>3, EntryLockInjective
  <2> QED BY <2>1, <2>2, <2>3, <2>4
<1> QED BY <1>1, <1>2

\* If input 1 is an entry of day c that is spent by a draw, the whole transaction is
\* a settlement of that day.
LEMMA LeaderSpend ==
  ASSUME NEW tx, NEW outputs, NEW c \in Configs, NEW e \in Keys, NEW w \in Witnesses,
         tx.inputs \in Seq(Coins), tx.inputs # << >>,
         tx.inputs[1].lock = EntryLock(c, e),
         DrawInputs(c, tx, w, 1, chain), DrawOutputs(c, tx, w, 1, outputs)
  PROVE  Settlement(c, tx, w, outputs)
<1>1. /\ TimeReached(tx, c.closeTime)
      /\ Len(w.suffix) = SUFFIX_LEN
      /\ Len(w.entrants) = Len(tx.inputs)
      /\ LeaderInputs(tx, w, chain)
      /\ LeaderOutputs(c, tx, w, outputs)
  BY DEF DrawInputs, DrawOutputs
<1>2. \A j \in 1 .. Len(tx.inputs) : SameDay(tx, w, j)
  BY <1>1 DEF LeaderInputs
<1>3. 1 \in 1 .. Len(tx.inputs)
  OBVIOUS
<1>4. SeesItself(tx, w, 1, c, e)
  BY <1>1, <1>2, <1>3 DEF SeesItself
<1>5. w.prefix = EntryPrefix(c) /\ w.suffix = EntrySuffix
  BY <1>4, WitnessPinned, Zenon
<1>6. \A j \in 1 .. Len(tx.inputs) : tx.inputs[j].lock = EntryLock(c, w.entrants[j])
  BY <1>2, <1>5, TemplateIsEntry
<1> QED BY <1>1, <1>6 DEF Settlement

\* A delegate looks only at itself and at input 1 (raffle_entry.sil:68-75), and that
\* is enough: whatever transaction spends an entry, whatever its other inputs,
\* witnesses and outputs, either it is the entrant's reclaim of that entry alone,
\* or it is one whole settlement of the entry's day under the leader's checks.
THEOREM DelegatesFollowLeader ==
  ASSUME NEW tx, NEW signers, NEW outputs, NEW i, NEW c \in Configs, NEW e \in Keys,
         tx.inputs \in Seq(Coins), i \in 1 .. Len(tx.inputs),
         tx.inputs[i].lock = EntryLock(c, e),
         AcceptedTx(tx, signers, outputs)
  PROVE  \/ Reclaim(c, e, tx, signers)
         \/ \E w \in Witnesses : Settlement(c, tx, w, outputs)
<1>1. \/ Reclaim(c, e, tx, signers)
      \/ \E w \in Witnesses : /\ DrawInputs(c, tx, w, i, chain)
                              /\ DrawOutputs(c, tx, w, i, outputs)
  BY EntrySpend DEF AcceptedTx
<1>2. ASSUME NEW w \in Witnesses, DrawInputs(c, tx, w, i, chain),
             DrawOutputs(c, tx, w, i, outputs)
      PROVE  \E v \in Witnesses : Settlement(c, tx, v, outputs)
  <2>1. tx.inputs # << >> /\ 1 \in 1 .. Len(tx.inputs)
    OBVIOUS
  <2>2. CASE i = 1
    BY <1>2, <2>1, <2>2, LeaderSpend
  <2>3. CASE i # 1
    <3>1. /\ Len(w.suffix) = SUFFIX_LEN /\ Len(w.entrants) = Len(tx.inputs)
          /\ SameDay(tx, w, i) /\ SameDay(tx, w, 1)
      BY <1>2, <2>3 DEF DrawInputs, Delegate
    <3>2. SeesItself(tx, w, i, c, e) /\ 1 \in 1 .. Len(w.entrants)
      BY <2>1, <3>1 DEF SeesItself
    <3>3. w.prefix = EntryPrefix(c) /\ w.suffix = EntrySuffix
      BY <3>2, WitnessPinned, Zenon
    <3>4. tx.inputs[1].lock = EntryLock(c, w.entrants[1])
      BY <3>1, <3>3, TemplateIsEntry
    <3>5. w.entrants[1] \in Keys
      BY <3>2, LedgerAssumption
    <3>6. ~ Reclaim(c, w.entrants[1], tx, signers)
      BY <2>3 DEF Reclaim
    <3>7. \E v \in Witnesses : /\ DrawInputs(c, tx, v, 1, chain)
                               /\ DrawOutputs(c, tx, v, 1, outputs)
      BY <2>1, <3>4, <3>5, <3>6, EntrySpend DEF AcceptedTx
    <3> QED BY <2>1, <3>4, <3>5, <3>7, LeaderSpend
  <2> QED BY <2>2, <2>3
<1> QED BY <1>1, <1>2

-----------------------------------------------------------------------------
(* The refinement of RafflePot *)

\* The pot's arithmetic is the covenant's.
LEMMA PotArithmetic ==
  /\ \A vals : Pot!Total(vals) = Total(vals)
  /\ \A vals, r : Pot!Winner(vals, r) = Winner(vals, r)
  /\ \A r, t : Pot!Ticket(r, t) = Ticket(r, t)
  /\ \A t : /\ Pot!DevAmt(t) = DevAmt(t) /\ Pot!OpsAmt(t) = OpsAmt(t)
            /\ Pot!WinnerAmt(t) = WinnerAmt(t)
BY DEF Pot!Total, Total, Pot!RunningTotal, RunningTotal, Pot!Winner, Winner,
       Pot!WinnerAfter, WinnerAfter, Pot!NoWinner, NoWinner, Pot!Ticket, Ticket,
       Pot!DevAmt, DevAmt, Pot!OpsAmt, OpsAmt, Pot!WinnerAmt, WinnerAmt

\* The constructor arguments read back from a lock are those it was built from.
LEMMA EntryReadBack ==
  ASSUME NEW coin \in Coins, NEW c \in Configs, NEW e \in Keys,
         coin.lock = EntryLock(c, e)
  PROVE  EntryOf(coin) = [config |-> c, entrant |-> e, value |-> coin.value]
<1>0. ASSUME NEW c2 \in Configs, NEW e2 \in Keys, coin.lock = EntryLock(c2, e2)
      PROVE  c2 = c /\ e2 = e
  <2>1. EntryLock(c2, e2) = EntryLock(c, e)
    BY <1>0, Zenon
  <2> QED BY <2>1, EntryLockInjective
<1> DEFINE R == [config : Configs, entrant : Keys, value : {coin.value}]
           good(r) == coin.lock = EntryLock(r.config, r.entrant)
           r0 == [config |-> c, entrant |-> e, value |-> coin.value]
<1>1. r0 \in R /\ good(r0)
  OBVIOUS
<1>2. \A r \in R : good(r) => r = r0
  <2> SUFFICES ASSUME NEW r \in R, good(r) PROVE r = r0
    OBVIOUS
  <2>1. r.config \in Configs /\ r.entrant \in Keys /\ r.value = coin.value
    OBVIOUS
  <2>2. r.config = c /\ r.entrant = e
    BY <1>0, <2>1
  <2> QED BY <2>1, <2>2
<1>3. EntryOf(coin) = CHOOSE r \in R : good(r)
  BY DEF EntryOf
<1> HIDE DEF R, good, r0
<1>4. EntryOf(coin) = r0
  BY <1>1, <1>2, <1>3, Zenon
<1> QED BY <1>4 DEF r0

\* What is read back from an entry is an entry of the pot with the same lock.
LEMMA EntryFields ==
  ASSUME NEW coin \in Coins, IsEntry(coin)
  PROVE  /\ EntryOf(coin) \in Pot!Entry
         /\ EntryOf(coin).value = coin.value
         /\ coin.lock = EntryLock(EntryOf(coin).config, EntryOf(coin).entrant)
<1>1. PICK c \in Configs, e \in Keys : coin.lock = EntryLock(c, e)
  BY DEF IsEntry
<1>2. EntryOf(coin) = [config |-> c, entrant |-> e, value |-> coin.value]
  BY <1>1, EntryReadBack
<1>3. coin.value \in Nat
  BY DEF Coins
<1> QED BY <1>1, <1>2, <1>3 DEF Pot!Entry

\* An unspent entry is open in the pot.
LEMMA OpenEntry ==
  ASSUME TypeOK, NEW x \in DOMAIN utxo, IsEntry(utxo[x])
  PROVE  /\ utxo[x] \in Coins
         /\ x \in DOMAIN OpenEntries
         /\ OpenEntries[x] = EntryOf(utxo[x])
<1>1. utxo[x] \in Coins
  BY LedgerAssumption DEF TypeOK
<1> QED BY <1>1 DEF OpenEntries, OpenIds

\* Spending the outpoints S takes just those entries out of the pot.
LEMMA SpendFromPot ==
  ASSUME NEW S, utxo' = [x \in DOMAIN utxo \ S |-> utxo[x]]
  PROVE  OpenEntries' = Pot!Without(OpenEntries, S)
<1>1. DOMAIN utxo' = DOMAIN utxo \ S /\ \A x \in DOMAIN utxo' : utxo'[x] = utxo[x]
  OBVIOUS
<1>2. OpenIds' = OpenIds \ S
  BY <1>1 DEF OpenIds, IsEntry
<1>3. OpenEntries' = [x \in OpenIds' |-> EntryOf(utxo'[x])]
  BY DEF OpenEntries, EntryOf
<1>4. \A x \in OpenIds' : utxo'[x] = utxo[x] /\ x \in OpenIds
  BY <1>1, <1>2 DEF OpenIds
<1>5. [x \in OpenIds' |-> EntryOf(utxo'[x])] = [x \in OpenIds \ S |-> OpenEntries[x]]
  <2>1. \A x \in OpenIds \ S : EntryOf(utxo'[x]) = OpenEntries[x]
    BY <1>2, <1>4 DEF OpenEntries
  <2> QED BY <1>2, <2>1
<1>6. DOMAIN OpenEntries = OpenIds
  BY DEF OpenEntries
<1> QED BY <1>3, <1>5, <1>6 DEF Pot!Without

\* The empty ledger is the empty pot.
LEMMA PotInit == Init => Pot!Init
<1> SUFFICES ASSUME Init PROVE Pot!Init
  OBVIOUS
<1>1. OpenIds = {}
  BY DEF Init, OpenIds
<1>2. OpenEntries = << >>
  BY <1>1 DEF OpenEntries
<1> QED BY <1>2 DEF Init, Pot!Init

\* A deposit enters the pot, or is no business of it.
LEMMA PotDeposit == TypeOK /\ Deposit => [Pot!Next]_(Pot!vars)
<1> SUFFICES ASSUME TypeOK, Deposit PROVE [Pot!Next]_(Pot!vars)
  OBVIOUS
<1>1. PICK id \in Ids \ (DOMAIN utxo \cup spent), coin \in Deposits :
         /\ utxo' = [x \in DOMAIN utxo \cup {id} |-> IF x = id THEN coin ELSE utxo[x]]
         /\ UNCHANGED <<spent, wallet, medianTime, chain>>
  BY DEF Deposit
<1>2. /\ DOMAIN utxo' = DOMAIN utxo \cup {id} /\ utxo'[id] = coin
      /\ \A x \in DOMAIN utxo : utxo'[x] = utxo[x]
  BY <1>1
<1>3. coin \in Coins
  BY LedgerAssumption
<1>4. id \notin DOMAIN utxo /\ id \in Ids
  OBVIOUS
<1>5. DOMAIN OpenEntries = OpenIds /\ DOMAIN OpenEntries' = OpenIds'
  BY DEF OpenEntries
<1>6. \A x \in OpenIds : x \in OpenIds' /\ OpenEntries'[x] = OpenEntries[x]
  <2>1. \A x \in OpenIds : x \in OpenIds' /\ utxo'[x] = utxo[x]
    BY <1>2 DEF OpenIds, IsEntry
  <2>2. \A x \in OpenIds' : OpenEntries'[x] = EntryOf(utxo'[x])
    BY DEF OpenEntries, EntryOf
  <2>3. \A x \in OpenIds : OpenEntries[x] = EntryOf(utxo[x])
    BY DEF OpenEntries
  <2> QED BY <2>1, <2>2, <2>3
<1>7. CASE IsEntry(coin)
  <2>1. OpenIds' = OpenIds \cup {id}
    BY <1>2, <1>7 DEF OpenIds, IsEntry
  <2>2. OpenEntries'[id] = EntryOf(coin)
    BY <1>2, <2>1 DEF OpenEntries, EntryOf
  <2>3. OpenEntries'[id] \in Pot!Entry
    BY <1>3, <1>7, <2>2, EntryFields
  <2>4. id \in Ids \ DOMAIN OpenEntries
    BY <1>4, <1>5 DEF OpenIds
  <2>5. Pot!Enter
    BY <1>1, <1>5, <1>6, <2>1, <2>3, <2>4 DEF Pot!Enter
  <2> QED BY <2>5 DEF Pot!Next
<1>8. CASE ~ IsEntry(coin)
  <2>1. OpenIds' = OpenIds
    BY <1>2, <1>8 DEF OpenIds, IsEntry
  <2>2. OpenEntries' = OpenEntries
    BY <1>6, <2>1 DEF OpenEntries
  <2> QED BY <1>1, <2>2 DEF Pot!vars
<1> QED BY <1>7, <1>8
-----------------------------------------------------------------------------
\* The total of a single input is its value.
LEMMA TotalOfOne ==
  ASSUME NEW vals \in Seq(Nat), Len(vals) = 1
  PROVE  Total(vals) = vals[1]
<1>1. 1 \in 1 .. Len(vals) /\ 1 - 1 = 0
  OBVIOUS
<1>2. /\ RunningTotal(vals)[0] = 0
      /\ RunningTotal(vals)[1] = RunningTotal(vals)[1 - 1] + vals[1]
      /\ vals[1] \in Nat
  BY <1>1, RunningTotalUnfolds, NatAtEachPosition
<1>3. RunningTotal(vals)[1] = vals[1]
  BY <1>1, <1>2
<1> QED BY <1>3 DEF Total

\* A winner that is found is one of the inputs, whatever the ticket.
LEMMA WinnerInRange ==
  ASSUME NEW vals \in Seq(Nat), NEW r \in Nat, Winner(vals, r) # NoWinner
  PROVE  Winner(vals, r) \in 1 .. Len(vals)
<1> DEFINE idx == WinnerAfter(vals, r)
           Good == {n \in Nat : n <= Len(vals) => idx[n] = NoWinner \/ idx[n] \in 1 .. n}
<1>1. PICK N \in Nat : N = Len(vals)
  OBVIOUS
<1>2. idx[0] = NoWinner
  BY WinnerAfterUnfolds
<1>3. \A j \in 1 .. N : idx[j] = j \/ idx[j] = idx[j - 1]
  BY <1>1, WinnerAfterUnfolds
<1> HIDE DEF idx
<1>4. 0 \in Good
  BY <1>2
<1>5. \A n \in Good : n + 1 \in Good
  <2> SUFFICES ASSUME NEW n \in Good PROVE n + 1 \in Good
    OBVIOUS
  <2>1. n \in Nat /\ (n <= N => idx[n] = NoWinner \/ idx[n] \in 1 .. n)
    BY <1>1
  <2>2. CASE n + 1 <= N
    <3>1. n + 1 \in 1 .. N /\ (n + 1) - 1 = n /\ n <= N
      BY <1>1, <2>1, <2>2
    <3>2. idx[n + 1] = n + 1 \/ idx[n + 1] = idx[n]
      BY <1>3, <3>1
    <3>3. idx[n + 1] = NoWinner \/ idx[n + 1] \in 1 .. (n + 1)
      BY <2>1, <3>1, <3>2
    <3> QED BY <2>1, <3>3
  <2>3. CASE ~ (n + 1 <= N)
    BY <1>1, <2>1, <2>3
  <2> QED BY <2>2, <2>3
<1>6. N \in Good
  <2>1. Good \subseteq Nat
    OBVIOUS
  <2> HIDE DEF Good
  <2> QED BY <1>1, <1>4, <1>5, <2>1, NatSetInduction
<1>7. idx[N] # NoWinner
  BY <1>1 DEF Winner, idx
<1>8. idx[N] \in 1 .. N
  BY <1>1, <1>6, <1>7
<1> QED BY <1>1, <1>8 DEF Winner, idx
\* What a draw's three outputs pay to one key, written out.
LEMMA CreditOfThree ==
  ASSUME NEW outputs \in Seq(Coins), NEW k, Len(outputs) = 3
  PROVE  Credit(outputs, k) =
           (IF outputs[1].lock = P2PK(k) THEN outputs[1].value ELSE 0)
             + (IF outputs[2].lock = P2PK(k) THEN outputs[2].value ELSE 0)
             + (IF outputs[3].lock = P2PK(k) THEN outputs[3].value ELSE 0)
<1> DEFINE part == [i \in 1 .. Len(outputs) |->
                      IF outputs[i].lock = P2PK(k) THEN outputs[i].value ELSE 0]
<1>1. \A i \in 1 .. Len(outputs) : outputs[i].value \in Nat
  <2>1. \A i \in 1 .. Len(outputs) : outputs[i] \in Coins
    OBVIOUS
  <2> QED BY <2>1 DEF Coins
<1>2. /\ part \in Seq(Nat) /\ Len(part) = 3
      /\ \A i \in 1 .. 3 :
           part[i] = IF outputs[i].lock = P2PK(k) THEN outputs[i].value ELSE 0
  BY <1>1
<1>3. Credit(outputs, k) = Total(part)
  BY DEF Credit
<1> HIDE DEF part
<1>4. Total(part) = part[1] + part[2] + part[3]
  BY <1>2, TotalOfThree
<1>5. 1 \in 1 .. 3 /\ 2 \in 1 .. 3 /\ 3 \in 1 .. 3
  OBVIOUS
<1> QED BY <1>2, <1>3, <1>4, <1>5

\* The winner's output is at least its share less the fee cap, and no more than
\* its share: the two other outputs and the total leave no more.
LEMMA WinnerOutput ==
  ASSUME NEW c \in Configs, NEW tx, NEW w, NEW outputs \in Seq(Coins),
         tx.inputs \in Seq(Coins), LeaderOutputs(c, tx, w, outputs),
         Total(Values(outputs)) <= Total(Values(tx.inputs))
  PROVE  /\ outputs[1].value \in Nat
         /\ WinnerAmt(Total(Values(tx.inputs))) - outputs[1].value \in 0 .. MAX_FEE
<1> DEFINE total == Total(Values(tx.inputs))
<1>1. total \in Nat
  BY CoinValues, TotalType
<1>2. DevAmt(total) \in Nat /\ OpsAmt(total) \in Nat /\ DevAmt(total) + OpsAmt(total) <= total
  BY <1>1, SplitLeavesHalf
<1>3. /\ Len(outputs) = 3
      /\ outputs[1].value >= total - DevAmt(total) - OpsAmt(total) - MAX_FEE
      /\ outputs[2].value = DevAmt(total) /\ outputs[3].value = OpsAmt(total)
  BY DEF LeaderOutputs
<1>4. /\ Values(outputs) \in Seq(Nat) /\ Len(Values(outputs)) = 3
      /\ \A i \in 1 .. 3 : Values(outputs)[i] = outputs[i].value
  <2>1. \A i \in 1 .. 3 : Values(outputs)[i] = outputs[i].value
    BY <1>3 DEF Values
  <2> QED BY <1>3, <2>1, CoinValues
<1>5. Total(Values(outputs)) = outputs[1].value + outputs[2].value + outputs[3].value
  <2>1. 1 \in 1 .. 3 /\ 2 \in 1 .. 3 /\ 3 \in 1 .. 3
    OBVIOUS
  <2> QED BY <1>4, <2>1, TotalOfThree
<1>6. outputs[1].value \in Nat
  <2>1. Len(outputs) = 3
    BY <1>3
  <2>2. 1 \in 1 .. Len(outputs)
    BY <2>1
  <2>3. outputs[1] \in Coins
    BY <2>2
  <2> QED BY <2>3 DEF Coins
<1> HIDE DEF total
<1>7. outputs[1].value + DevAmt(total) + OpsAmt(total) <= total
  BY <1>3, <1>5 DEF total
<1>8. WinnerAmt(total) = total - DevAmt(total) - OpsAmt(total)
  BY DEF WinnerAmt
<1>9. MAX_FEE \in Nat
  BY EntryAssumption
<1>10. WinnerAmt(total) - outputs[1].value \in 0 .. MAX_FEE
  BY <1>1, <1>2, <1>3, <1>6, <1>7, <1>8, <1>9
<1> QED BY <1>6, <1>10 DEF total
\* The transaction of the input list ins, as Submit builds it.
IsTxOf(tx, ins) ==
  /\ tx.inputs = [i \in 1 .. Len(ins) |-> utxo[ins[i]]]
  /\ tx.lockTime \in LockTimes /\ tx.lockTime < medianTime

\* What Submit does to the ledger.
Applied(ins, outputs) ==
  /\ wallet' = [k \in Keys |-> wallet[k] + Credit(outputs, k)]
  /\ utxo' = [x \in DOMAIN utxo \ {ins[i] : i \in DOMAIN ins} |-> utxo[x]]
  /\ UNCHANGED <<medianTime, chain>>

\* An input list is a nonempty list of distinct live outpoints.
LEMMA InputListType ==
  ASSUME NEW ins \in InputLists
  PROVE  /\ Len(ins) \in Nat \ {0} /\ DOMAIN ins = 1 .. Len(ins)
         /\ \A i \in 1 .. Len(ins) : ins[i] \in DOMAIN utxo
         /\ \A i, j \in 1 .. Len(ins) : ins[i] = ins[j] => i = j
         /\ ins \in [1 .. Len(ins) -> DOMAIN utxo]
<1>1. PICK n \in 1 .. MaxInputs : ins \in [1 .. n -> DOMAIN utxo]
  BY DEF InputLists
<1>2. n \in Nat \ {0} /\ Len(ins) = n
  BY <1>1, LedgerAssumption
<1>3. \A i, j \in DOMAIN ins : ins[i] = ins[j] => i = j
  BY DEF InputLists
<1> QED BY <1>1, <1>2, <1>3

\* The inputs of a transaction are coins of the ledger.
LEMMA TxInputs ==
  ASSUME TypeOK, NEW ins \in InputLists, NEW tx, IsTxOf(tx, ins)
  PROVE  /\ tx.inputs \in Seq(Coins) /\ Len(tx.inputs) = Len(ins)
         /\ \A i \in 1 .. Len(ins) : tx.inputs[i] = utxo[ins[i]]
<1>1. \A i \in 1 .. Len(ins) : utxo[ins[i]] \in Coins
  BY InputListType, LedgerAssumption DEF TypeOK
<1>2. Len(ins) \in Nat
  BY InputListType
<1> QED BY <1>1, <1>2 DEF IsTxOf

\* A settlement on the ledger is a settlement of the pot.
LEMMA PotSettle ==
  ASSUME TypeOK, NEW ins \in InputLists, NEW tx, IsTxOf(tx, ins),
         NEW c \in Configs, NEW w \in Witnesses, NEW outputs \in Seq(Coins),
         Settlement(c, tx, w, outputs), Applied(ins, outputs),
         Total(Values(outputs)) <= Total(Values(tx.inputs))
  PROVE  Pot!Settle
<1> DEFINE vals == Values(tx.inputs)
           total == Total(vals)
           potVals == [i \in 1 .. Len(ins) |-> OpenEntries[ins[i]].value]
           win == WinnerIndex(tx, w)
           winner == w.entrants[win]
           share(k, payee, amount) == IF k = payee THEN amount ELSE 0
           fee == WinnerAmt(total) - outputs[1].value
<1>1. PICK n \in Nat \ {0} : n = Len(ins)
  BY InputListType
<1>2. /\ tx.inputs \in Seq(Coins) /\ Len(tx.inputs) = n
      /\ \A i \in 1 .. n : tx.inputs[i] = utxo[ins[i]]
  BY <1>1, TxInputs
<1>3. /\ DOMAIN ins = 1 .. n /\ \A i \in 1 .. n : ins[i] \in DOMAIN utxo
      /\ \A i, j \in 1 .. n : ins[i] = ins[j] => i = j
  BY <1>1, InputListType
<1>4. /\ TimeReached(tx, c.closeTime) /\ LeaderInputs(tx, w, chain)
      /\ LeaderOutputs(c, tx, w, outputs) /\ Len(w.entrants) = n
      /\ \A j \in 1 .. n : tx.inputs[j].lock = EntryLock(c, w.entrants[j])
  BY <1>2 DEF Settlement
<1>5. w.entrants \in Seq(Keys) /\ w.block \in Blocks
  BY LedgerAssumption
<1>6. \A j \in 1 .. n : w.entrants[j] \in Keys
  BY <1>4, <1>5
<1>7. \A j \in 1 .. n : /\ ins[j] \in DOMAIN OpenEntries
                       /\ OpenEntries[ins[j]].config = c
                       /\ OpenEntries[ins[j]].entrant = w.entrants[j]
                       /\ OpenEntries[ins[j]].value = tx.inputs[j].value
  <2> SUFFICES ASSUME NEW j \in 1 .. n
               PROVE  /\ ins[j] \in DOMAIN OpenEntries
                      /\ OpenEntries[ins[j]].config = c
                      /\ OpenEntries[ins[j]].entrant = w.entrants[j]
                      /\ OpenEntries[ins[j]].value = tx.inputs[j].value
    OBVIOUS
  <2>1. /\ ins[j] \in DOMAIN utxo /\ w.entrants[j] \in Keys
        /\ utxo[ins[j]].lock = EntryLock(c, w.entrants[j])
        /\ tx.inputs[j] = utxo[ins[j]]
    BY <1>2, <1>3, <1>4, <1>6
  <2>2. IsEntry(utxo[ins[j]])
    BY <2>1 DEF IsEntry
  <2>3. /\ utxo[ins[j]] \in Coins /\ ins[j] \in DOMAIN OpenEntries
        /\ OpenEntries[ins[j]] = EntryOf(utxo[ins[j]])
    BY <2>1, <2>2, OpenEntry
  <2>4. EntryOf(utxo[ins[j]]) =
          [config |-> c, entrant |-> w.entrants[j], value |-> utxo[ins[j]].value]
    BY <2>1, <2>3, EntryReadBack
  <2> QED BY <2>1, <2>3, <2>4
<1>8. vals \in Seq(Nat) /\ Len(vals) = n /\ total \in Nat
  BY <1>2, CoinValues, TotalType
<1>9. potVals = vals
  <2>1. \A i \in 1 .. n : OpenEntries[ins[i]].value = tx.inputs[i].value
    BY <1>7
  <2> QED BY <1>1, <1>2, <2>1 DEF Values
<1>10. \A i \in 1 .. n : vals[i] >= MIN_ENTRY /\ tx.inputs[i].value = vals[i]
  BY <1>2, <1>4 DEF LeaderInputs, Values
<1>11. ins \in Pot!Batches
  <2>1. n \in 1 .. MAX_ENTRIES
    BY <1>1, <1>2, <1>4, EntryAssumption DEF LeaderInputs
  <2>2. ins \in [1 .. n -> DOMAIN OpenEntries]
    <3>1. ins \in [1 .. n -> DOMAIN utxo]
      BY <1>1, InputListType
    <3> QED BY <1>7, <3>1
  <2>3. ins \in UNION {[1 .. m -> DOMAIN OpenEntries] : m \in 1 .. MAX_ENTRIES}
    BY <2>1, <2>2
  <2>4. \A i \in 1 .. n : /\ OpenEntries[ins[i]].config = c
                          /\ OpenEntries[ins[i]].value >= MIN_ENTRY
    BY <1>7, <1>10
  <2>5. 1 \in 1 .. n
    BY <1>1
  <2> QED BY <1>3, <2>3, <2>4, <2>5 DEF Pot!Batches
<1>12. win \in 1 .. n
  <2>1. 1 \in 0 .. Len(vals) /\ Len(vals) \in 1 .. Len(vals) /\ 1 \in 1 .. n
    BY <1>1, <1>8
  <2>2. RunningTotal(vals)[1] <= total
    BY <1>8, <2>1, RunningTotalMonotone DEF Total
  <2>3. RunningTotal(vals)[1] = vals[1] /\ vals[1] \in Nat
    <3>1. 1 \in 1 .. Len(vals) /\ 1 - 1 = 0
      BY <1>8, <2>1
    <3>2. /\ RunningTotal(vals)[0] = 0
          /\ RunningTotal(vals)[1] = RunningTotal(vals)[1 - 1] + vals[1]
          /\ vals[1] \in Nat
      BY <1>8, <3>1, RunningTotalUnfolds, NatAtEachPosition
    <3> QED BY <3>1, <3>2
  <2>4. vals[1] >= MIN_ENTRY /\ MIN_ENTRY \in Nat \ {0}
    BY <1>10, <2>1, EntryAssumption
  <2>5. Ticket(Rand[w.block], total) \in Nat
    <3>1. Rand[w.block] \in Nat
      BY <1>5, EntryAssumption, RandRangeAssumption
    <3>2. total > 0
      BY <1>8, <2>2, <2>3, <2>4
    <3> QED BY <1>8, <3>1, <3>2 DEF Ticket
  <2>6. win = Winner(vals, Ticket(Rand[w.block], total)) /\ win # NoWinner
    BY <1>4 DEF WinnerIndex, LeaderInputs
  <2>7. win \in 1 .. Len(vals)
    BY <1>8, <2>5, <2>6, WinnerInRange
  <2> QED BY <1>8, <2>7
<1>13. fee \in 0 .. MAX_FEE /\ outputs[1].value \in Nat
  BY <1>2, <1>4, WinnerOutput
<1>14. /\ OpenEntries[ins[1]].config = c
       /\ OpenEntries[ins[win]].entrant = w.entrants[win]
       /\ win = Pot!Winner(potVals, Pot!Ticket(Rand[w.block], Pot!Total(potVals)))
       /\ Pot!Total(potVals) = total
  <2>1. 1 \in 1 .. n
    BY <1>1
  <2>2. win = Winner(vals, Ticket(Rand[w.block], total))
    BY DEF WinnerIndex
  <2>3. /\ OpenEntries[ins[1]].config = c
        /\ OpenEntries[ins[win]].entrant = w.entrants[win]
    BY <1>7, <1>12, <2>1
  <2>4. Pot!Total(potVals) = total
    BY <1>9, PotArithmetic
  <2>5. Pot!Winner(potVals, Pot!Ticket(Rand[w.block], Pot!Total(potVals)))
          = Winner(vals, Ticket(Rand[w.block], total))
    BY <1>9, <2>4, PotArithmetic
  <2> QED BY <2>2, <2>3, <2>4, <2>5
<1>15. medianTime > c.closeTime
  <2>1. tx.lockTime \in Nat /\ c.closeTime \in Nat /\ medianTime \in Nat
    BY LedgerAssumption, EntryAssumption DEF IsTxOf, TypeOK
  <2>2. tx.lockTime < medianTime /\ tx.lockTime >= c.closeTime
    BY <1>4 DEF IsTxOf, TimeReached
  <2> QED BY <2>1, <2>2
<1>16. OpenEntries' = Pot!Without(OpenEntries, {ins[i] : i \in DOMAIN ins})
  BY SpendFromPot DEF Applied
<1>17. \A k : Credit(outputs, k) = share(k, winner, WinnerAmt(total) - fee)
                + share(k, c.devFund, DevAmt(total)) + share(k, c.ops, OpsAmt(total))
  <2> SUFFICES ASSUME NEW k
               PROVE  Credit(outputs, k) = share(k, winner, WinnerAmt(total) - fee)
                        + share(k, c.devFund, DevAmt(total)) + share(k, c.ops, OpsAmt(total))
    OBVIOUS
  <2>1. /\ Len(outputs) = 3 /\ outputs[1].lock = P2PK(winner)
        /\ outputs[2] = [lock |-> P2PK(c.devFund), value |-> DevAmt(total)]
        /\ outputs[3] = [lock |-> P2PK(c.ops), value |-> OpsAmt(total)]
    BY <1>4 DEF LeaderOutputs
  <2>3. Credit(outputs, k) =
          (IF outputs[1].lock = P2PK(k) THEN outputs[1].value ELSE 0)
            + (IF outputs[2].lock = P2PK(k) THEN outputs[2].value ELSE 0)
            + (IF outputs[3].lock = P2PK(k) THEN outputs[3].value ELSE 0)
    BY <2>1, CreditOfThree
  <2>4. WinnerAmt(total) - fee = outputs[1].value
    <3>1. WinnerAmt(total) \in Int
      BY <1>8 DEF WinnerAmt, DevAmt, OpsAmt
    <3> QED BY <1>13, <3>1
  <2>5. /\ outputs[2].lock = P2PK(c.devFund) /\ outputs[2].value = DevAmt(total)
        /\ outputs[3].lock = P2PK(c.ops) /\ outputs[3].value = OpsAmt(total)
    BY <2>1
  <2> HIDE DEF winner
  <2>6. outputs[1].lock = P2PK(k) <=> k = winner
    BY <2>1, P2PKInjective
  <2>7. outputs[2].lock = P2PK(k) <=> k = c.devFund
    BY <2>5, P2PKInjective
  <2>8. outputs[3].lock = P2PK(k) <=> k = c.ops
    BY <2>5, P2PKInjective
  <2> HIDE DEF fee, total
  <2> QED BY <2>3, <2>4, <2>5, <2>6, <2>7, <2>8
<1>18. \A k \in Keys :
         wallet[k] + Credit(outputs, k) = wallet[k] + share(k, winner, WinnerAmt(total) - fee)
           + share(k, c.devFund, DevAmt(total)) + share(k, c.ops, OpsAmt(total))
  <2>1. /\ WinnerAmt(total) - fee \in Int /\ DevAmt(total) \in Int /\ OpsAmt(total) \in Int
    BY <1>8, <1>13 DEF WinnerAmt, DevAmt, OpsAmt
  <2>2. \A k \in Keys : wallet[k] \in Int
    BY DEF TypeOK
  <2> HIDE DEF winner, fee, total
  <2> QED BY <1>17, <2>1, <2>2
<1>19. wallet' = [k \in Keys |-> wallet[k] + share(k, winner, WinnerAmt(total) - fee)
                   + share(k, c.devFund, DevAmt(total)) + share(k, c.ops, OpsAmt(total))]
  BY <1>18 DEF Applied
<1> DEFINE potTotal == Pot!Total(potVals)
           potWin == Pot!Winner(potVals, Pot!Ticket(Rand[w.block], potTotal))
           potC == OpenEntries[ins[1]].config
           potWinner == OpenEntries[ins[potWin]].entrant
<1>20. /\ potC = c /\ potWinner = winner
       /\ Pot!WinnerAmt(potTotal) = WinnerAmt(total)
       /\ Pot!DevAmt(potTotal) = DevAmt(total)
       /\ Pot!OpsAmt(potTotal) = OpsAmt(total)
  BY <1>14, PotArithmetic
<1>21. /\ w.block \in chain /\ UNCHANGED <<medianTime, chain>>
  BY <1>4 DEF LeaderInputs, Applied
<1> HIDE DEF vals, total, win, winner, fee
<1>22. wallet' = [k \in Keys |-> wallet[k]
                    + (IF k = potWinner THEN Pot!WinnerAmt(potTotal) - fee ELSE 0)
                    + (IF k = potC.devFund THEN Pot!DevAmt(potTotal) ELSE 0)
                    + (IF k = potC.ops THEN Pot!OpsAmt(potTotal) ELSE 0)]
  BY <1>19, <1>20, Zenon
<1>23. medianTime > potC.closeTime
  BY <1>15, <1>20
<1> QED BY <1>11, <1>13, <1>16, <1>21, <1>22, <1>23 DEF Pot!Settle
\* A reclaim on the ledger takes one entry back.
LEMMA PotTakeBack ==
  ASSUME TypeOK, TypeOK', NEW ins \in InputLists, NEW tx, IsTxOf(tx, ins),
         NEW c \in Configs, NEW e \in Keys, NEW signers, NEW outputs \in Seq(Coins),
         utxo[ins[1]].lock = EntryLock(c, e),
         Reclaim(c, e, tx, signers), Applied(ins, outputs),
         Total(Values(outputs)) <= Total(Values(tx.inputs))
  PROVE  Pot!TakeBack
<1> DEFINE id == ins[1]
           total == Total(Values(tx.inputs))
<1>1. /\ tx.inputs \in Seq(Coins) /\ Len(tx.inputs) = 1 /\ Len(ins) = 1
      /\ tx.inputs[1] = utxo[id]
  <2>1. Len(tx.inputs) = 1
    BY DEF Reclaim
  <2>2. tx.inputs \in Seq(Coins) /\ Len(ins) = 1
    BY <2>1, TxInputs
  <2>3. 1 \in 1 .. Len(ins)
    BY <2>2
  <2> QED BY <2>1, <2>2, <2>3, TxInputs
<1>2. /\ DOMAIN ins = {1} /\ id \in DOMAIN utxo
  <2>1. 1 \in 1 .. Len(ins) /\ 1 .. Len(ins) = {1}
    BY <1>1
  <2> QED BY <2>1, InputListType
<1>3. {ins[i] : i \in DOMAIN ins} = {id}
  BY <1>2
<1>4. IsEntry(utxo[id])
  BY DEF IsEntry
<1>5. /\ utxo[id] \in Coins /\ id \in DOMAIN OpenEntries
      /\ OpenEntries[id] = EntryOf(utxo[id])
  BY <1>2, <1>4, OpenEntry
<1>6. EntryOf(utxo[id]) = [config |-> c, entrant |-> e, value |-> utxo[id].value]
  BY <1>5, EntryReadBack
<1>7. OpenEntries[id].config = c /\ OpenEntries[id].value = utxo[id].value
  BY <1>5, <1>6
<1>8. total = utxo[id].value
  <2>1. /\ Values(tx.inputs) \in Seq(Nat) /\ Len(Values(tx.inputs)) = 1
    BY <1>1, CoinValues
  <2>2. Values(tx.inputs)[1] = utxo[id].value
    BY <1>1 DEF Values
  <2> QED BY <2>1, <2>2, TotalOfOne
<1>9. medianTime > c.closeTime + c.reclaimDelay
  <2>1. /\ c.closeTime \in Nat /\ c.reclaimDelay \in Nat
        /\ tx.lockTime \in Nat /\ medianTime \in Nat
    <3>1. c.closeTime \in Nat /\ c.reclaimDelay \in Nat
      BY EntryAssumption
    <3>2. tx.lockTime \in Nat
      BY LedgerAssumption DEF IsTxOf
    <3>3. medianTime \in Nat
      BY LedgerAssumption DEF TypeOK
    <3> QED BY <3>1, <3>2, <3>3
  <2>2. tx.lockTime < medianTime /\ tx.lockTime >= c.closeTime + c.reclaimDelay
    BY DEF IsTxOf, TimeReached, Reclaim
  <2> QED BY <2>1, <2>2
<1>10. OpenEntries' = Pot!Without(OpenEntries, {id})
  BY <1>3, SpendFromPot DEF Applied
<1> HIDE DEF id, total
<1>11. \A k \in Keys : wallet[k] <= wallet'[k] /\ wallet'[k] <= wallet[k] + OpenEntries[id].value
  <2> SUFFICES ASSUME NEW k \in Keys
               PROVE  /\ wallet[k] <= wallet'[k]
                      /\ wallet'[k] <= wallet[k] + OpenEntries[id].value
    OBVIOUS
  <2>1. Credit(outputs, k) \in Nat /\ Credit(outputs, k) <= Total(Values(outputs))
    BY CreditType
  <2>2. Total(Values(outputs)) \in Nat /\ total \in Nat
    BY <1>1, CoinValues, TotalType DEF total
  <2>3. Total(Values(outputs)) <= total
    BY DEF total
  <2>4. wallet'[k] = wallet[k] + Credit(outputs, k) /\ wallet[k] \in Nat
    BY DEF Applied, TypeOK
  <2> QED BY <1>7, <1>8, <2>1, <2>2, <2>3, <2>4
<1>12. wallet' \in [Keys -> Nat]
  BY DEF TypeOK
<1>13. UNCHANGED <<medianTime, chain>>
  BY DEF Applied
<1> QED BY <1>5, <1>7, <1>9, <1>10, <1>11, <1>12, <1>13 DEF Pot!TakeBack

\* A transaction accepted by the ledger is a settlement of the pot or a reclaim.
LEMMA PotSubmit == TypeOK /\ TypeOK' /\ Submit => Pot!Next
<1> SUFFICES ASSUME TypeOK, TypeOK', Submit PROVE Pot!Next
  OBVIOUS
<1> DEFINE Tx(ins, lockTime) ==
             [inputs |-> [i \in 1 .. Len(ins) |-> utxo[ins[i]]], lockTime |-> lockTime]
<1>1. PICK ins \in InputLists, lockTime \in LockTimes :
         /\ lockTime < medianTime
         /\ Total(Values(Tx(ins, lockTime).inputs)) \in DOMAIN OutputLists
         /\ \E signers \in Signers,
               outputs \in OutputLists[Total(Values(Tx(ins, lockTime).inputs))] :
              /\ Total(Values(outputs)) <= Total(Values(Tx(ins, lockTime).inputs))
              /\ \A i \in 1 .. Len(ins) :
                   \/ FreeInput(Tx(ins, lockTime), i, signers)
                   \/ \E d \in [j \in 1 .. Len(ins) |->
                                  AdmittedDraws(Tx(ins, lockTime), j)][i] :
                        DrawOutputs(d[1], Tx(ins, lockTime), d[2], i, outputs)
              /\ wallet' = [k \in Keys |-> wallet[k] + Credit(outputs, k)]
         /\ utxo' = [x \in DOMAIN utxo \ {ins[i] : i \in DOMAIN ins} |-> utxo[x]]
         /\ UNCHANGED <<medianTime, chain>>
  BY DEF Submit
<1>2. PICK tx : tx = Tx(ins, lockTime)
  OBVIOUS
<1>3. IsTxOf(tx, ins)
  BY <1>1, <1>2 DEF IsTxOf
<1> HIDE DEF Tx
<1>4. PICK signers \in Signers, outputs \in OutputLists[Total(Values(tx.inputs))] :
         /\ Total(Values(tx.inputs)) \in DOMAIN OutputLists
         /\ Total(Values(outputs)) <= Total(Values(tx.inputs))
         /\ \A i \in 1 .. Len(ins) :
              \/ FreeInput(tx, i, signers)
              \/ \E d \in AdmittedDraws(tx, i) : DrawOutputs(d[1], tx, d[2], i, outputs)
         /\ wallet' = [k \in Keys |-> wallet[k] + Credit(outputs, k)]
  BY <1>1, <1>2
<1>5. outputs \in Seq(Coins)
  BY <1>4, LedgerAssumption
<1>6. Applied(ins, outputs)
  BY <1>1, <1>4 DEF Applied
<1>7. /\ tx.inputs \in Seq(Coins) /\ Len(tx.inputs) = Len(ins)
      /\ \A i \in 1 .. Len(ins) : tx.inputs[i] = utxo[ins[i]]
  BY <1>3, TxInputs
<1>8. AcceptedTx(tx, signers, outputs)
  BY <1>4, <1>7 DEF AcceptedTx
<1>9. PICK i \in 1 .. Len(ins) : IsEntry(utxo[ins[i]])
  <2>1. \E i \in DOMAIN ins : IsEntry(utxo[ins[i]])
    BY DEF InputLists
  <2> QED BY <2>1, InputListType
<1>10. PICK c \in Configs, e \in Keys : tx.inputs[i].lock = EntryLock(c, e)
  BY <1>7, <1>9 DEF IsEntry
<1>11. \/ Reclaim(c, e, tx, signers)
       \/ \E w \in Witnesses : Settlement(c, tx, w, outputs)
  <2>1. i \in 1 .. Len(tx.inputs)
    BY <1>7
  <2> QED BY <1>7, <1>8, <1>10, <2>1, DelegatesFollowLeader
<1>12. CASE Reclaim(c, e, tx, signers)
  <2>1. Len(ins) = 1
    BY <1>7, <1>12 DEF Reclaim
  <2>2. i = 1
    BY <2>1
  <2>3. utxo[ins[1]].lock = EntryLock(c, e)
    BY <1>7, <1>10, <2>2
  <2>4. Pot!TakeBack
    BY <1>3, <1>4, <1>5, <1>6, <1>12, <2>3, PotTakeBack
  <2> QED BY <2>4 DEF Pot!Next
<1>13. CASE \E w \in Witnesses : Settlement(c, tx, w, outputs)
  <2>1. Pot!Settle
    BY <1>3, <1>4, <1>5, <1>6, <1>13, PotSettle
  <2> QED BY <2>1 DEF Pot!Next
<1> QED BY <1>11, <1>12, <1>13

\* Time and chain blocks leave the entries alone.
LEMMA PotTick ==
  TypeOK /\ TypeOK' /\ (AdvanceTime \/ ExtendChain \/ Reorganise) => Pot!Next
<1> SUFFICES ASSUME TypeOK, TypeOK', AdvanceTime \/ ExtendChain \/ Reorganise
             PROVE  Pot!Next
  OBVIOUS
<1>1. UNCHANGED <<utxo, wallet>>
  BY DEF AdvanceTime, ExtendChain, Reorganise
<1>2. OpenEntries' = OpenEntries
  BY <1>1 DEF OpenEntries, OpenIds, IsEntry, EntryOf
<1>3. medianTime' \in Nat /\ medianTime <= medianTime'
  BY LedgerAssumption DEF AdvanceTime, ExtendChain, Reorganise, TypeOK
<1>4. chain' \subseteq Blocks
  BY DEF TypeOK
<1>5. Pot!Tick
  BY <1>1, <1>2, <1>3, <1>4 DEF Pot!Tick
<1> QED BY <1>5 DEF Pot!Next

\* Whatever anyone submits, the ledger behaves as the pot promises: entries leave it
\* in whole settlements of one day that pay the 50/40/10 split with the key the
\* entropy selects as the winner, or through a reclaim after its delay
\* (raffle_entry.sil:11-25, 58-139).
THEOREM LedgerImplementsPot == Spec => ImplementsPot
<1>1. Init => Pot!Init
  BY PotInit
<1>2. TypeOK /\ TypeOK' /\ [Next]_vars => [Pot!Next]_(Pot!vars)
  <2> SUFFICES ASSUME TypeOK, TypeOK', [Next]_vars PROVE [Pot!Next]_(Pot!vars)
    OBVIOUS
  <2>1. CASE Deposit
    BY <2>1, PotDeposit
  <2>2. CASE Submit
    BY <2>2, PotSubmit
  <2>3. CASE AdvanceTime \/ ExtendChain \/ Reorganise
    BY <2>3, PotTick
  <2>4. CASE UNCHANGED vars
    <3>1. OpenEntries' = OpenEntries
      BY <2>4 DEF vars, OpenEntries, OpenIds, IsEntry, EntryOf
    <3> QED BY <2>4, <3>1 DEF vars, Pot!vars
  <2> QED BY <2>1, <2>2, <2>3, <2>4 DEF Next
<1> QED BY <1>1, <1>2, TypeCorrect, PTL DEF Spec, ImplementsPot, Pot!Spec

-----------------------------------------------------------------------------
(* The settler's search for the winner *)

\* The coins a batch of open entries spends are what the pot says they are.
LEMMA BatchCoins ==
  ASSUME TypeOK, NEW b \in Pot!Batches
  PROVE  /\ Len(b) \in 1 .. MAX_ENTRIES /\ DOMAIN b = 1 .. Len(b)
         /\ OpenEntries[b[1]].config \in Configs
         /\ \A i \in 1 .. Len(b) :
              /\ utxo[b[i]] \in Coins /\ OpenEntries[b[i]].entrant \in Keys
              /\ utxo[b[i]].lock = EntryLock(OpenEntries[b[1]].config, OpenEntries[b[i]].entrant)
              /\ utxo[b[i]].value >= MIN_ENTRY
<1>1. PICK n \in 1 .. MAX_ENTRIES : b \in [1 .. n -> DOMAIN OpenEntries]
  BY DEF Pot!Batches
<1>2. n \in Nat \ {0} /\ Len(b) = n /\ DOMAIN b = 1 .. n
  BY <1>1, EntryAssumption
<1>3. \A i \in 1 .. n : /\ OpenEntries[b[i]].config = OpenEntries[b[1]].config
                        /\ OpenEntries[b[i]].value >= MIN_ENTRY
  BY <1>2 DEF Pot!Batches
<1>4. ASSUME NEW i \in 1 .. n
      PROVE  /\ utxo[b[i]] \in Coins
             /\ OpenEntries[b[i]].entrant \in Keys /\ OpenEntries[b[i]].config \in Configs
             /\ utxo[b[i]].lock = EntryLock(OpenEntries[b[i]].config, OpenEntries[b[i]].entrant)
             /\ OpenEntries[b[i]].value = utxo[b[i]].value
  <2>1. b[i] \in DOMAIN utxo /\ IsEntry(utxo[b[i]])
    BY <1>1 DEF OpenEntries, OpenIds
  <2>2. utxo[b[i]] \in Coins /\ OpenEntries[b[i]] = EntryOf(utxo[b[i]])
    BY <2>1, OpenEntry
  <2>3. /\ EntryOf(utxo[b[i]]) \in Pot!Entry
        /\ EntryOf(utxo[b[i]]).value = utxo[b[i]].value
        /\ utxo[b[i]].lock = EntryLock(EntryOf(utxo[b[i]]).config, EntryOf(utxo[b[i]]).entrant)
    BY <2>1, <2>2, EntryFields
  <2>4. OpenEntries[b[i]].entrant \in Keys /\ OpenEntries[b[i]].config \in Configs
    BY <2>2, <2>3 DEF Pot!Entry
  <2> QED BY <2>2, <2>3, <2>4
<1>5. 1 \in 1 .. n
  BY <1>2
<1> QED BY <1>1, <1>2, <1>3, <1>4, <1>5

\* A nonempty list of values of at least MIN_ENTRY has a winner, whatever the block.
LEMMA SomeoneWins ==
  ASSUME NEW vals \in Seq(Nat), Len(vals) >= 1, \A i \in 1 .. Len(vals) : vals[i] >= MIN_ENTRY,
         NEW blk \in Blocks
  PROVE  Winner(vals, Ticket(Rand[blk], Total(vals))) \in 1 .. Len(vals)
<1>1. 1 \in 0 .. Len(vals) /\ Len(vals) \in 1 .. Len(vals) /\ 1 \in 1 .. Len(vals) /\ 1 - 1 = 0
  OBVIOUS
<1>2. RunningTotal(vals)[1] <= Total(vals)
  BY <1>1, RunningTotalMonotone DEF Total
<1>3. /\ RunningTotal(vals)[0] = 0
      /\ RunningTotal(vals)[1] = RunningTotal(vals)[1 - 1] + vals[1]
      /\ vals[1] \in Nat
  BY <1>1, RunningTotalUnfolds, NatAtEachPosition
<1>4. Total(vals) \in Nat
  BY TotalType
<1>5. Total(vals) > 0
  <2>1. vals[1] > 0
    BY <1>1, <1>3, EntryAssumption
  <2>2. RunningTotal(vals)[1] = vals[1]
    BY <1>1, <1>3
  <2> QED BY <1>2, <1>3, <1>4, <2>1, <2>2
<1>6. Rand[blk] \in Nat
  BY EntryAssumption, RandRangeAssumption
<1>7. /\ Ticket(Rand[blk], Total(vals)) \in Nat
      /\ Ticket(Rand[blk], Total(vals)) < Total(vals)
  <2>1. \A r, t \in Nat : t > 0 => r % t \in Nat /\ r % t < t
    OBVIOUS
  <2> QED BY <1>4, <1>5, <1>6, <2>1 DEF Ticket
<1> QED BY <1>7, WinnerHoldsTicket

\* Every input of an honest draw takes the witness, and the leader takes the outputs
\* exactly when their payee is the one the entropy selects.
LEMMA HonestDraw ==
  ASSUME TypeOK, NEW b \in Pot!Batches, NEW blk \in chain
  PROVE  \E w \in DOMAIN b : AcceptedPayees(b, blk) = {OpenEntries[b[w]].entrant}
<1> DEFINE n == Len(b)
           c == OpenEntries[b[1]].config
           tx == HonestTx(b)
           w == HonestWitness(b, blk)
           total == Total(Values(tx.inputs))
           win == WinnerIndex(tx, w)
           payee == OpenEntries[b[win]].entrant
<1>1. /\ n \in 1 .. MAX_ENTRIES /\ DOMAIN b = 1 .. n /\ c \in Configs
      /\ \A i \in 1 .. n : /\ utxo[b[i]] \in Coins /\ OpenEntries[b[i]].entrant \in Keys
                           /\ utxo[b[i]].lock = EntryLock(c, OpenEntries[b[i]].entrant)
                           /\ utxo[b[i]].value >= MIN_ENTRY
  BY BatchCoins
<1>2. n \in Nat \ {0} /\ n <= MAX_ENTRIES
  BY <1>1, EntryAssumption
<1>3. /\ tx.inputs \in Seq(Coins) /\ Len(tx.inputs) = n
      /\ \A i \in 1 .. n : tx.inputs[i] = utxo[b[i]]
      /\ tx.lockTime = c.closeTime
  BY <1>1, <1>2 DEF HonestTx
<1>4. /\ Len(w.entrants) = n /\ \A i \in 1 .. n : w.entrants[i] = OpenEntries[b[i]].entrant
      /\ w.block = blk /\ w.prefix = EntryPrefix(c) /\ w.suffix = EntrySuffix
  BY <1>1, <1>2 DEF HonestWitness
<1>5. blk \in Blocks
  BY DEF TypeOK
<1>6. Values(tx.inputs) \in Seq(Nat) /\ Len(Values(tx.inputs)) = n
  BY <1>3, CoinValues
<1>7. \A i \in 1 .. n : Values(tx.inputs)[i] = tx.inputs[i].value /\ tx.inputs[i].value >= MIN_ENTRY
  BY <1>1, <1>3 DEF Values
<1>8. win \in 1 .. n
  <2>1. Winner(Values(tx.inputs), Ticket(Rand[blk], total)) \in 1 .. n
    <3>1. \A i \in 1 .. Len(Values(tx.inputs)) : Values(tx.inputs)[i] >= MIN_ENTRY
      BY <1>6, <1>7
    <3>2. Len(Values(tx.inputs)) >= 1
      BY <1>2, <1>6
    <3> HIDE DEF tx
    <3> QED BY <1>5, <1>6, <3>1, <3>2, SomeoneWins
  <2> QED BY <1>4, <2>1 DEF WinnerIndex
<1> HIDE DEF tx, w
<1>9. \A i \in 1 .. n : SameDay(tx, w, i)
  BY <1>1, <1>3, <1>4 DEF SameDay, EntryLock, EntryScript
<1>10. TimeReached(tx, c.closeTime)
  <2>1. c.closeTime \in Nat
    BY <1>1, EntryAssumption
  <2> QED BY <1>3, <2>1 DEF TimeReached
<1>11. LeaderInputs(tx, w, chain)
  <2>1. win # NoWinner
    BY <1>8 DEF NoWinner
  <2> QED BY <1>2, <1>3, <1>4, <1>7, <1>9, <2>1 DEF LeaderInputs
<1>12. Len(w.suffix) = SUFFIX_LEN /\ Len(w.entrants) = Len(tx.inputs)
  <2>1. Len(EntrySuffix) = SUFFIX_LEN
    BY <1>1, TemplateTypes
  <2> QED BY <1>3, <1>4, <2>1
<1>13. \A i \in 1 .. n : DrawInputs(c, tx, w, i, chain)
  <2>1. 1 \in 1 .. n
    BY <1>2
  <2> QED BY <1>9, <1>10, <1>11, <1>12, <2>1 DEF DrawInputs, Delegate
<1>14. \A k : LeaderOutputs(c, tx, w, HonestOutputs(b, k)) <=> k = payee
  <2> TAKE k
  <2> DEFINE outs == HonestOutputs(b, k)
  <2>1. outs = << [lock |-> P2PK(k), value |-> WinnerAmt(total) - MAX_FEE],
                  [lock |-> P2PK(c.devFund), value |-> DevAmt(total)],
                  [lock |-> P2PK(c.ops), value |-> OpsAmt(total)] >>
    BY DEF HonestOutputs, tx
  <2>2. /\ Len(outs) = 3 /\ outs[1].lock = P2PK(k) /\ outs[1].value = WinnerAmt(total) - MAX_FEE
        /\ outs[2] = [lock |-> P2PK(c.devFund), value |-> DevAmt(total)]
        /\ outs[3] = [lock |-> P2PK(c.ops), value |-> OpsAmt(total)]
    BY <2>1
  <2>3. /\ total \in Nat /\ MAX_FEE \in Nat /\ DevAmt(total) \in Nat /\ OpsAmt(total) \in Nat
    BY <1>6, TotalType, EntryAssumption, SplitLeavesHalf
  <2> HIDE DEF outs, total
  <2>4. outs[1].value >= total - DevAmt(total) - OpsAmt(total) - MAX_FEE
    BY <2>2, <2>3 DEF WinnerAmt
  <2>5. w.entrants[win] = payee
    BY <1>4, <1>8
  <2>6. P2PK(k) = P2PK(payee) <=> k = payee
    BY P2PKInjective
  <2> QED BY <2>2, <2>4, <2>5, <2>6 DEF LeaderOutputs, total, outs
<1>15. \A k : (\A i \in 1 .. n : DrawOutputs(c, tx, w, i, HonestOutputs(b, k))) <=> k = payee
  <2>1. 1 \in 1 .. n
    BY <1>2
  <2> QED BY <1>14, <2>1 DEF DrawOutputs
<1>16. payee \in Keys
  BY <1>1, <1>8
<1>17. AcceptedPayees(b, blk) =
         {k \in Keys : \A i \in 1 .. n : DrawInputs(c, tx, w, i, chain)
                                         /\ DrawOutputs(c, tx, w, i, HonestOutputs(b, k))}
  BY <1>1 DEF AcceptedPayees, tx, w
<1> HIDE DEF payee, c, n
<1>18. \A k : k \in AcceptedPayees(b, blk) <=> k = payee
  BY <1>13, <1>15, <1>16, <1>17
<1>19. AcceptedPayees(b, blk) = {payee}
  BY <1>18
<1>20. win \in DOMAIN b
  BY <1>1, <1>8
<1> QED BY <1>19, <1>20 DEF payee

\* The settler's search ends: of any batch of one day's open entries that fits, in any
\* order and for any chain block, the covenant takes exactly one payee, an entrant of
\* the batch (draw.js:100-101), whatever was deposited and spent before.
THEOREM SettlerFindsItsWinner == Spec => []ExactlyOneWinner
<1>1. TypeOK => ExactlyOneWinner
  <2> SUFFICES ASSUME TypeOK, NEW b \in Pot!Batches, NEW blk \in chain
               PROVE  \E k \in Keys : /\ AcceptedPayees(b, blk) = {k}
                                      /\ \E i \in DOMAIN b : OpenEntries[b[i]].entrant = k
    BY DEF ExactlyOneWinner
  <2>1. PICK w \in DOMAIN b : AcceptedPayees(b, blk) = {OpenEntries[b[w]].entrant}
    BY HonestDraw
  <2>2. OpenEntries[b[w]].entrant \in Keys
    BY BatchCoins
  <2> QED BY <2>1, <2>2
<1> QED BY <1>1, TypeCorrect, PTL
=============================================================================
