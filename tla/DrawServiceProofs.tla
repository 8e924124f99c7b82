-------------------------- MODULE DrawServiceProofs --------------------------
(* The promises of the draw service for every number of callers, keys, deposits *)
(* and settleAllDue calls, whatever fails and restarts: first what its variables *)
(* hold (TypeOK), with the lemmas about its helpers, then what it promises.      *)
(* PaidAsRecorded needs nothing else; the others hold under what their           *)
(* statements assume, and the runs settle_twice and heartbeat_keys show two of   *)
(* them broken without it.                                                       *)
EXTENDS DrawService, NatInduction, SequenceTheorems

(* The sets the variables draw their values from.                            *)

Settlements == {NoRecord, Empty} \cup [kind : {"draw"}, tx : Draws]

DayRecords == [close : Nat, entrants : SUBSET Addresses, keys : {{k} : k \in KeyPairs},
               settlement : Settlements]

OpenDays == {d \in DayRecords : \A a \in d.entrants : a.close = d.close}

Due == {d \in OpenDays : d.settlement = NoRecord}

Coins == [address : Addresses, amount : Amounts, at : Nat]

Calls == [pc : {"idle", "utxos", "block", "submit", "reply"},
          due : Seq(Due), entries : Seq(1 .. MaxCoins), block : Blocks \cup {0},
          candidate : Nat, attempt : Nat, fee : Nat, leader : Nat, delegate : Nat,
          reply : {"none", "accepted", "notFinalized", "feeTooLow", "leaderBudget",
                   "delegateBudget", "rejected"}]

ActiveRequests == [pc : {"cli", "answered"}, day : OpenDays, address : Addresses]

\* A call of settleAllDue works on days that have files, on a batch that fits one
\* draw, on a candidate of the batch; and an accepted draw is one the node took.
CallOK(p, closes, taken) ==
  /\ p.pc # "idle" => p.due # << >>
  /\ \A i \in DOMAIN p.due : p.due[i].close \in closes
  /\ p.pc \in {"utxos", "block"} => p.attempt = 0
  /\ p.pc \in {"block", "submit", "reply"} =>
       Len(p.entries) \in 1 .. MAX_ENTRIES_PER_DRAW /\ Len(p.entries) <= MaxCoins
  /\ p.pc \in {"submit", "reply"} =>
       /\ DrawTx(p) \in Draws
       /\ p.candidate \in 1 .. Len(p.entries)
       /\ p.attempt \in 0 .. MAX_ATTEMPTS - 1
       /\ p.fee <= FEE_CEILING
  /\ p.pc = "reply" /\ p.reply = "accepted" => DrawTx(p) \in taken

NodeShape ==
  /\ now \in 0 .. MaxTime /\ medianTime \in 0 .. now
  /\ coins \in Seq(Coins) /\ Len(coins) <= MaxCoins
  /\ \A i \in DOMAIN coins : coins[i].at <= now
  /\ reclaimed \subseteq DOMAIN coins
  /\ pool \subseteq Draws /\ drawn \subseteq Draws

FilesShape ==
  /\ files \in [DOMAIN files -> OpenDays]
  /\ \A c \in DOMAIN files : c \in Nat /\ files[c].close = c
  /\ configKeys \in KeyPairs

RequestsShape ==
  /\ requests \in [Requests \cup Heartbeats -> {NewRequest} \cup ActiveRequests]
  /\ \A r \in Requests \cup Heartbeats :
       requests[r].pc # "free" => requests[r].address.close \in DOMAIN files

CallsShape ==
  /\ settlers \in [Settlers -> Calls]
  /\ \A s \in Settlers : CallOK(settlers[s], DOMAIN files, Taken)

\* The inductive invariant behind TypeOK.
Shape ==
  /\ NodeShape /\ FilesShape /\ RequestsShape /\ CallsShape
  /\ faults \in 0 .. MaxFaults

-----------------------------------------------------------------------------
(* The helpers of the model.                                                  *)

\* A day on file is pinned to exactly one pair of wallets.
LEMMA OneKeyPair ==
  ASSUME NEW d \in OpenDays
  PROVE  /\ d.keys \subseteq KeyPairs /\ d.keys # {} /\ Cardinality(d.keys) = 1
<1>1. PICK k \in KeyPairs : d.keys = {k}
  BY DEF OpenDays, DayRecords
<1> QED BY <1>1, FS_Singleton

\* saveDay replaces one day file and leaves the others alone.
LEMMA WithDayReplaces ==
  ASSUME FilesShape, NEW d \in OpenDays
  PROVE  /\ DOMAIN WithDay(d) = DOMAIN files \cup {d.close}
         /\ WithDay(d) \in [DOMAIN WithDay(d) -> OpenDays]
         /\ WithDay(d)[d.close] = d
         /\ \A c \in DOMAIN files : c # d.close => WithDay(d)[c] = files[c]
         /\ \A c \in DOMAIN WithDay(d) : c \in Nat /\ WithDay(d)[c].close = c
<1>1. d.close \in Nat
  BY DEF OpenDays, DayRecords
<1> QED BY <1>1 DEF WithDay, FilesShape

\* loadDay answers with the day on file, or with a new one that has no entrants.
LEMMA LoadedDay ==
  ASSUME FilesShape, NEW close \in Nat
  PROVE  /\ close \in DOMAIN files => LoadDay(close) = files[close] /\ LoadDay(close) \in OpenDays
         /\ LoadDay(close).close = close
         /\ close \notin DOMAIN files =>
              LoadDay(close) = [close |-> close, entrants |-> {}, keys |-> {},
                                settlement |-> NoRecord]
BY DEF LoadDay, FilesShape

\* A day is pinned to one key pair when it is first touched, and keeps it.
LEMMA PinnedDay ==
  ASSUME FilesShape, NEW close \in Nat
  PROVE  /\ DayWithPinnedKeys(close) \in OpenDays
         /\ DayWithPinnedKeys(close).close = close
         /\ close \in DOMAIN files => DayWithPinnedKeys(close) = files[close]
         /\ close \notin DOMAIN files =>
              /\ DayWithPinnedKeys(close).entrants = {}
              /\ DayWithPinnedKeys(close).settlement = NoRecord
<1>1. CASE close \in DOMAIN files
  <2>1. LoadDay(close) = files[close] /\ files[close] \in OpenDays /\ files[close].close = close
    BY <1>1, LoadedDay DEF FilesShape
  <2>2. files[close].keys # {}
    BY <2>1, OneKeyPair
  <2> QED BY <1>1, <2>1, <2>2 DEF DayWithPinnedKeys
<1>2. CASE close \notin DOMAIN files
  <2>1. DayWithPinnedKeys(close) = [close |-> close, entrants |-> {}, keys |-> {configKeys},
                                    settlement |-> NoRecord]
    BY <1>2 DEF DayWithPinnedKeys, LoadDay
  <2>2. configKeys \in KeyPairs /\ NoRecord \in Settlements
    BY DEF FilesShape, Settlements
  <2>3. {configKeys} \in {{k} : k \in KeyPairs}
    BY <2>2
  <2> QED BY <1>2, <2>1, <2>2, <2>3 DEF OpenDays, DayRecords
<1> QED BY <1>1, <1>2

\* Whoever enters is on the day's list afterwards, with the address they had
\* before if their key was there already.
LEMMA EntrantAdded ==
  ASSUME NEW d \in OpenDays, NEW mine \in Addresses, mine.close = d.close
  PROVE  /\ AddEntrant(d, mine) \in OpenDays
         /\ AddEntrant(d, mine).close = d.close
         /\ AddEntrant(d, mine).keys = d.keys
         /\ AddEntrant(d, mine).settlement = d.settlement
         /\ d.entrants \subseteq AddEntrant(d, mine).entrants
         /\ AddEntrant(d, mine).entrants \subseteq d.entrants \cup {mine}
         /\ \E a \in AddEntrant(d, mine).entrants : a.pubkey = mine.pubkey
<1>1. CASE \E a \in d.entrants : a.pubkey = mine.pubkey
  BY <1>1 DEF AddEntrant
<1>2. CASE ~ \E a \in d.entrants : a.pubkey = mine.pubkey
  <2>1. AddEntrant(d, mine) = [d EXCEPT !.entrants = d.entrants \cup {mine}]
    BY <1>2 DEF AddEntrant
  <2>2. d.entrants \cup {mine} \in SUBSET Addresses
    BY DEF OpenDays, DayRecords
  <2>3. AddEntrant(d, mine) \in OpenDays
    BY <2>1, <2>2 DEF OpenDays, DayRecords
  <2> QED BY <2>1, <2>3 DEF OpenDays, DayRecords
<1> QED BY <1>1, <1>2

\* listUnsettledDays: files without a settlement, each once, by close time.
LEMMA UnsettledDaysListed ==
  ASSUME FilesShape, NEW t \in Int
  PROVE  /\ ListUnsettledDays(t) \in Seq(Due)
         /\ \A i \in DOMAIN ListUnsettledDays(t) :
               /\ ListUnsettledDays(t)[i].close \in DOMAIN files
               /\ ListUnsettledDays(t)[i].close <= t
               /\ ListUnsettledDays(t)[i] = files[ListUnsettledDays(t)[i].close]
         /\ \A i, j \in DOMAIN ListUnsettledDays(t) :
               ListUnsettledDays(t)[i].close = ListUnsettledDays(t)[j].close => i = j
<1> DEFINE S == {c \in DOMAIN files : files[c].settlement = NoRecord /\ c <= t}
           top == Cardinality(S)
           order == Ascending(S)
           list == ListUnsettledDays(t)
<1>1. S \in SUBSET Nat /\ IsFiniteSet(S)
  <2>1. S \in SUBSET Nat
    BY DEF FilesShape
  <2>2. CASE t \in Nat
    <3>1. \A c \in S : c <= t
      OBVIOUS
    <3> HIDE DEF S
    <3> QED BY <2>1, <2>2, <3>1, FS_BoundedSetOfNaturals
  <2>3. CASE t \notin Nat
    <3>1. S = {}
      BY <2>3 DEF FilesShape
    <3> QED BY <2>1, <3>1, FS_EmptySet
  <2> QED BY <2>2, <2>3
<1>2. /\ top \in Nat /\ order \in [1 .. top -> S]
      /\ \A i, j \in 1 .. top : order[i] = order[j] => i = j
  <2> HIDE DEF S
  <2> QED BY <1>1, AscendingLists
<1>3. list = [i \in 1 .. top |-> files[order[i]]]
  <2>1. list = [i \in DOMAIN order |-> files[order[i]]]
    BY DEF ListUnsettledDays
  <2>2. DOMAIN order = 1 .. top
    <3> HIDE DEF order, top, S
    <3> QED BY <1>2
  <2> HIDE DEF order, top, list, S
  <2> QED BY <2>1, <2>2
<1>4. ASSUME NEW i \in 1 .. top
      PROVE  /\ order[i] \in DOMAIN files /\ order[i] <= t
             /\ files[order[i]] \in Due /\ files[order[i]].close = order[i]
  <2>1. order[i] \in S
    <3> HIDE DEF order, top, S
    <3> QED BY <1>2
  <2>2. order[i] \in DOMAIN files /\ order[i] <= t /\ files[order[i]].settlement = NoRecord
    <3> HIDE DEF order
    <3> QED BY <2>1
  <2> HIDE DEF order, top, S
  <2> QED BY <2>2 DEF FilesShape, Due
<1> HIDE DEF order, top, S, list
<1>5. list \in Seq(Due) /\ DOMAIN list = 1 .. top
  <2>1. list \in [1 .. top -> Due]
    BY <1>3, <1>4
  <2> QED BY <1>2, <2>1
<1>6. \A i \in 1 .. top : list[i] = files[order[i]]
  BY <1>3
<1> QED BY <1>2, <1>4, <1>5, <1>6 DEF list

\* collectEligibleEntries: a batch of distinct unspent deposits that fits one draw.
LEMMA BatchFits ==
  ASSUME NodeShape, NEW day \in OpenDays
  PROVE  /\ EligibleEntries(day) \in Seq(1 .. MaxCoins)
         /\ EligibleEntries(day) # << >> =>
              /\ Len(EligibleEntries(day)) \in 1 .. MAX_ENTRIES_PER_DRAW
              /\ Len(EligibleEntries(day)) <= MaxCoins
<1> DEFINE S == {i \in EntryUtxos(day.entrants) : coins[i].amount >= MIN_ENTRY}
           all == Ascending(S)
           m == IF Len(all) < MAX_ENTRIES_PER_DRAW THEN Len(all) ELSE MAX_ENTRIES_PER_DRAW
<1>1. DOMAIN coins = 1 .. Len(coins) /\ Len(coins) \in Nat /\ Len(coins) <= MaxCoins
  BY DEF NodeShape
<1>2. S \in SUBSET (1 .. Len(coins))
  BY <1>1 DEF EntryUtxos, Live
<1>3. S \in SUBSET Nat /\ IsFiniteSet(S)
  <2> HIDE DEF S
  <2>1. IsFiniteSet(1 .. Len(coins)) /\ (1 .. Len(coins)) \subseteq Nat
    BY <1>1, FS_Interval
  <2> QED BY <1>2, <2>1, FS_Subset
<1>4. Cardinality(S) \in Nat /\ all \in [1 .. Cardinality(S) -> S]
      /\ Cardinality(S) <= Len(coins)
  <2> HIDE DEF S
  <2>1. IsFiniteSet(1 .. Len(coins)) /\ Cardinality(1 .. Len(coins)) = Len(coins)
    <3>1. PICK k \in Nat : k = Len(coins)
      BY <1>1
    <3>2. IsFiniteSet(1 .. k) /\ Cardinality(1 .. k) = IF 1 > k THEN 0 ELSE k - 1 + 1
      BY FS_Interval
    <3>3. Cardinality(1 .. k) = k
      BY <3>2
    <3> QED BY <3>1, <3>2, <3>3
  <2>2. Cardinality(S) <= Cardinality(1 .. Len(coins))
    BY <1>2, <2>1, FS_Subset
  <2> QED BY <1>3, <2>1, <2>2, AscendingLists
<1>5. Len(all) = Cardinality(S) /\ \A i \in 1 .. Len(all) : all[i] \in 1 .. MaxCoins
  <2> HIDE DEF S, all
  <2>1. all \in Seq(S) /\ Len(all) = Cardinality(S)
    BY <1>4
  <2>2. \A i \in 1 .. Len(all) : all[i] \in 1 .. Len(coins)
    BY <1>2, <1>4, <2>1
  <2> QED BY <1>1, <2>1, <2>2, NodeAssumption
<1>6. m \in Int /\ m <= Len(all) /\ m <= MAX_ENTRIES_PER_DRAW /\ m <= MaxCoins
  <2> HIDE DEF S, all
  <2> QED BY <1>1, <1>4, <1>5, ServiceAssumption, NodeAssumption
<1>7. EligibleEntries(day) = SubSeq(all, 1, m)
  BY DEF EligibleEntries
<1> HIDE DEF S, all, m
<1>8. \A i \in 1 .. m : all[i] \in 1 .. MaxCoins
  BY <1>4, <1>5, <1>6
<1>9. /\ SubSeq(all, 1, m) \in Seq(1 .. MaxCoins)
      /\ Len(SubSeq(all, 1, m)) = IF 1 <= m THEN m - 1 + 1 ELSE 0
  BY <1>6, <1>8, SubSeqProperties
<1>10. SubSeq(all, 1, m) # << >> => Len(SubSeq(all, 1, m)) \in Nat \ {0}
  BY <1>9, EmptySeq
<1> QED BY <1>6, <1>7, <1>9, <1>10, ServiceAssumption

\* A settler that does nothing is a proper call.
LEMMA IdleCall ==
  ASSUME NEW closes, NEW taken
  PROVE  Idle \in Calls /\ CallOK(Idle, closes, taken)
<1>1. << >> \in Seq(Due) /\ << >> \in Seq(1 .. MaxCoins) /\ DOMAIN << >> = {}
  BY EmptySeq
<1> QED BY <1>1 DEF Idle, Calls, CallOK

\* What was right about a call stays right while files and draws only grow.
LEMMA CallOKGrows ==
  ASSUME NEW p \in Calls, NEW closes, NEW taken, NEW closes2, NEW taken2,
         CallOK(p, closes, taken), closes \subseteq closes2, taken \subseteq taken2
  PROVE  CallOK(p, closes2, taken2)
BY DEF CallOK

\* The day a call works on.
LEMMA DayAtHand ==
  ASSUME NEW p \in Calls, NEW closes, NEW taken, CallOK(p, closes, taken), p.pc # "idle"
  PROVE  /\ Head(p.due) \in Due /\ Head(p.due) \in OpenDays
         /\ Head(p.due).close \in closes /\ Head(p.due).close \in Nat
         /\ Head(p.due) = p.due[1] /\ 1 \in DOMAIN p.due
<1>1. p.due \in Seq(Due) /\ p.due # << >>
  BY DEF Calls, CallOK
<1>2. Head(p.due) \in Due /\ Len(p.due) \in Nat \ {0} /\ DOMAIN p.due = 1 .. Len(p.due)
  BY <1>1, HeadTailProperties, EmptySeq, LenProperties
<1>3. Head(p.due) = p.due[1] /\ 1 \in DOMAIN p.due
  BY <1>1, <1>2
<1>4. p.due[1].close \in closes
  BY <1>3 DEF CallOK
<1> QED BY <1>2, <1>3, <1>4 DEF Due, OpenDays, DayRecords

\* settleAllDue goes on to the next day of its list, or is over.
LEMMA NextDay ==
  ASSUME NEW p \in Calls, NEW closes, NEW taken, CallOK(p, closes, taken), p.pc # "idle"
  PROVE  /\ AfterDay(p) \in Calls /\ CallOK(AfterDay(p), closes, taken)
         /\ AfterDay(p).pc \in {"idle", "utxos"}
         /\ \A i \in DOMAIN AfterDay(p).due :
               i + 1 \in DOMAIN p.due /\ AfterDay(p).due[i] = p.due[i + 1]
<1>1. /\ p.due \in Seq(Due) /\ p.due # << >>
      /\ \A i \in DOMAIN p.due : p.due[i].close \in closes
  BY DEF Calls, CallOK
<1>2. Len(p.due) \in Nat \ {0} /\ DOMAIN p.due = 1 .. Len(p.due)
  BY <1>1, EmptySeq, LenProperties
<1>3. CASE Len(p.due) = 1
  BY <1>3, IdleCall DEF AfterDay, Idle
<1>4. CASE Len(p.due) # 1
  <2> DEFINE q == AfterDay(p)
  <2>1. q = [Idle EXCEPT !.pc = "utxos", !.due = Tail(p.due)]
    BY <1>4 DEF AfterDay
  <2>2. /\ Tail(p.due) \in Seq(Due) /\ Len(Tail(p.due)) = Len(p.due) - 1
        /\ \A i \in 1 .. Len(Tail(p.due)) : Tail(p.due)[i] = p.due[i + 1]
    BY <1>1, HeadTailProperties
  <2>3. Idle \in Calls
    BY IdleCall
  <2>4. q \in Calls /\ q.pc = "utxos" /\ q.due = Tail(p.due) /\ q.attempt = 0
    BY <2>1, <2>2, <2>3 DEF Calls, Idle
  <2>5. q.due # << >> /\ DOMAIN q.due = 1 .. Len(p.due) - 1
    <3>1. Len(Tail(p.due)) # 0
      BY <1>2, <1>4, <2>2
    <3>2. Len(<< >>) = 0
      OBVIOUS
    <3>3. DOMAIN Tail(p.due) = 1 .. Len(Tail(p.due))
      BY <2>2, LenProperties
    <3> QED BY <2>2, <2>4, <3>1, <3>2, <3>3
  <2>6. \A i \in DOMAIN q.due : i + 1 \in DOMAIN p.due /\ q.due[i] = p.due[i + 1]
    BY <1>2, <2>2, <2>4, <2>5
  <2>7. CallOK(q, closes, taken)
    BY <1>1, <2>4, <2>5, <2>6 DEF CallOK
  <2> QED BY <2>4, <2>6, <2>7
<1> QED BY <1>3, <1>4

\* A candidate of the batch makes a well-formed draw.
LEMMA DrawIsWellFormed ==
  ASSUME NEW p \in Calls, p.due # << >>, p.block \in Blocks,
         p.candidate \in 1 .. Len(p.entries), Len(p.entries) <= MaxCoins
  PROVE  DrawTx(p) \in Draws
<1>1. Head(p.due).close \in Nat
  <2>1. Head(p.due) \in Due
    BY HeadTailProperties DEF Calls
  <2> QED BY <2>1 DEF Due, OpenDays, DayRecords
<1>2. p.entries \in Seq(1 .. MaxCoins)
  BY DEF Calls
<1>3. p.candidate \in 1 .. MaxCoins
  <2>1. Len(p.entries) \in Nat
    BY DEF Calls
  <2> QED BY <2>1, NodeAssumption
<1> QED BY <1>1, <1>2, <1>3 DEF DrawTx, Draws

\* A wrong guess of the winner: the next candidate of the batch, or the next day.
LEMMA NextCandidate ==
  ASSUME NEW p \in Calls, NEW closes, NEW taken, CallOK(p, closes, taken), p.pc = "reply"
  PROVE  /\ AfterCandidate(p) \in Calls /\ CallOK(AfterCandidate(p), closes, taken)
         /\ \/ AfterCandidate(p) = AfterDay(p)
            \/ AfterCandidate(p).pc = "submit" /\ AfterCandidate(p).due = p.due
<1>1. CASE p.candidate = Len(p.entries)
  BY <1>1, NextDay DEF AfterCandidate
<1>2. CASE p.candidate # Len(p.entries)
  <2> DEFINE q == [p EXCEPT !.pc = "submit", !.candidate = p.candidate + 1,
                            !.attempt = 0, !.reply = "none"]
  <2>1. AfterCandidate(p) = q
    BY <1>2 DEF AfterCandidate
  <2>2. /\ q \in Calls
        /\ q.pc = "submit" /\ q.due = p.due /\ q.entries = p.entries /\ q.block = p.block
        /\ q.candidate = p.candidate + 1 /\ q.attempt = 0 /\ q.fee = p.fee /\ q.reply = "none"
    <3>1. p.candidate + 1 \in Nat
      BY DEF Calls
    <3>2. q \in Calls
      BY <3>1 DEF Calls
    <3> QED BY <3>2 DEF Calls
  <2>3. /\ Len(p.entries) \in 1 .. MAX_ENTRIES_PER_DRAW /\ Len(p.entries) <= MaxCoins
        /\ p.candidate \in 1 .. Len(p.entries) /\ p.fee <= FEE_CEILING
        /\ DrawTx(p) \in Draws /\ p.due # << >>
        /\ \A i \in DOMAIN p.due : p.due[i].close \in closes
    BY DEF CallOK
  <2>4. Len(p.entries) \in Nat /\ p.candidate \in Nat
    BY DEF Calls
  <2>5. p.candidate + 1 \in 1 .. Len(p.entries) /\ 0 \in 0 .. MAX_ATTEMPTS - 1
    BY <1>2, <2>3, <2>4, ServiceAssumption
  <2>6. DrawTx(q) \in Draws
    <3>1. DrawTx(q) = [DrawTx(p) EXCEPT !.winner = p.candidate + 1]
      BY <2>2 DEF DrawTx
    <3>2. p.candidate + 1 \in 1 .. MaxCoins
      BY <2>3, <2>4, <2>5, NodeAssumption
    <3> HIDE DEF q
    <3> QED BY <2>3, <3>1, <3>2 DEF Draws
  <2> HIDE DEF q
  <2>7. CallOK(q, closes, taken)
    BY <2>2, <2>3, <2>5, <2>6 DEF CallOK
  <2> QED BY <2>1, <2>2, <2>7
<1> QED BY <1>1, <1>2

\* One attempt more at the same candidate, as long as there are any left.
LEMMA NextAttempt ==
  ASSUME NEW p \in Calls, NEW closes, NEW taken, CallOK(p, closes, taken), p.pc = "reply"
  PROVE  /\ AfterAttempt(p) \in Calls /\ CallOK(AfterAttempt(p), closes, taken)
         /\ \/ AfterAttempt(p) = AfterDay(p)
            \/ AfterAttempt(p).pc = "submit" /\ AfterAttempt(p).due = p.due
<1>1. CASE p.attempt + 1 = MAX_ATTEMPTS
  BY <1>1, NextCandidate DEF AfterAttempt
<1>2. CASE p.attempt + 1 # MAX_ATTEMPTS
  <2> DEFINE q == [p EXCEPT !.pc = "submit", !.attempt = p.attempt + 1, !.reply = "none"]
  <2>1. AfterAttempt(p) = q
    BY <1>2 DEF AfterAttempt
  <2>2. /\ q \in Calls
        /\ q.pc = "submit" /\ q.due = p.due /\ q.entries = p.entries /\ q.block = p.block
        /\ q.candidate = p.candidate /\ q.attempt = p.attempt + 1 /\ q.fee = p.fee
        /\ q.reply = "none"
    <3>1. p.attempt + 1 \in Nat
      BY DEF Calls
    <3>2. q \in Calls
      BY <3>1 DEF Calls
    <3> QED BY <3>2 DEF Calls
  <2>3. p.attempt \in 0 .. MAX_ATTEMPTS - 1
    BY DEF CallOK
  <2>4. p.attempt + 1 \in 0 .. MAX_ATTEMPTS - 1
    BY <1>2, <2>3, ServiceAssumption
  <2>5. DrawTx(q) = DrawTx(p)
    BY <2>2 DEF DrawTx
  <2> HIDE DEF q
  <2>6. CallOK(q, closes, taken)
    BY <2>2, <2>4, <2>5 DEF CallOK
  <2> QED BY <2>1, <2>2, <2>6
<1> QED BY <1>1, <1>2

\* The fee and the budgets of a call may be raised below the cap.
LEMMA RaisedCall ==
  ASSUME NEW p \in Calls, NEW closes, NEW taken, CallOK(p, closes, taken), p.pc = "reply",
         NEW fee \in Nat, fee <= FEE_CEILING, NEW leader \in Nat, NEW delegate \in Nat
  PROVE  /\ [p EXCEPT !.fee = fee] \in Calls /\ CallOK([p EXCEPT !.fee = fee], closes, taken)
         /\ [p EXCEPT !.leader = leader] \in Calls
         /\ CallOK([p EXCEPT !.leader = leader], closes, taken)
         /\ [p EXCEPT !.delegate = delegate] \in Calls
         /\ CallOK([p EXCEPT !.delegate = delegate], closes, taken)
<1> DEFINE a == [p EXCEPT !.fee = fee]
           b == [p EXCEPT !.leader = leader]
           c == [p EXCEPT !.delegate = delegate]
           Same(q) == /\ q.pc = p.pc /\ q.due = p.due /\ q.entries = p.entries
                      /\ q.block = p.block /\ q.candidate = p.candidate
                      /\ q.attempt = p.attempt /\ q.reply = p.reply
                      /\ q.fee <= FEE_CEILING
<1>1. p.fee <= FEE_CEILING
  BY DEF CallOK
<1>2. a \in Calls /\ b \in Calls /\ c \in Calls
  BY DEF Calls
<1>3. Same(a) /\ Same(b) /\ Same(c)
  BY <1>1 DEF Calls
<1>4. ASSUME NEW q \in Calls, Same(q) PROVE CallOK(q, closes, taken)
  <2>1. DrawTx(q) = DrawTx(p)
    BY <1>4 DEF DrawTx
  <2> QED BY <1>4, <2>1 DEF CallOK
<1> HIDE DEF Same
<1> QED BY <1>2, <1>3, <1>4

\* Compute budgets are whole numbers of units.
LEMMA BudgetIsNatural ==
  ASSUME NEW units \in Nat
  PROVE  BudgetUnitsFor(units) \in Nat
<1>1. units + UNITS_PER_BUDGET - 1 \in Nat
  BY NodeAssumption
<1>2. (units + UNITS_PER_BUDGET - 1) \div UNITS_PER_BUDGET \in Nat
  BY <1>1, NodeAssumption
<1> QED BY <1>2 DEF BudgetUnitsFor

-----------------------------------------------------------------------------
(* The steps.  First what a step leaves alone stays in shape.                 *)

\* The node's part of the invariant speaks of the node only.
LEMMA NodeFrame == NodeShape /\ UNCHANGED nodeVars => NodeShape'
BY DEF NodeShape, nodeVars

\* The files' part speaks of the files and the configured wallets only.
LEMMA FilesFrame == FilesShape /\ UNCHANGED <<files, configKeys>> => FilesShape'
BY DEF FilesShape

\* A request's day stays on file: the requests' part survives when files are only added.
LEMMA RequestsFrame ==
  RequestsShape /\ UNCHANGED requests /\ DOMAIN files \subseteq DOMAIN files' => RequestsShape'
BY DEF RequestsShape

\* A settler's part survives when files and draws are only added.
LEMMA CallsFrame ==
  ASSUME CallsShape, UNCHANGED settlers,
         DOMAIN files \subseteq DOMAIN files', Taken \subseteq Taken'
  PROVE  CallsShape'
<1>1. ASSUME NEW s \in Settlers PROVE CallOK(settlers[s], DOMAIN files', Taken')
  <2>1. settlers[s] \in Calls /\ CallOK(settlers[s], DOMAIN files, Taken)
    BY DEF CallsShape
  <2> QED BY <2>1, CallOKGrows
<1> QED BY <1>1 DEF CallsShape

\* Saving a day of the right shape keeps the files' part and adds no other day.
LEMMA SavedFile ==
  ASSUME FilesShape, NEW d \in OpenDays, files' = WithDay(d), UNCHANGED configKeys
  PROVE  FilesShape' /\ DOMAIN files' = DOMAIN files \cup {d.close}
<1>1. /\ DOMAIN files' = DOMAIN files \cup {d.close}
      /\ files' \in [DOMAIN files' -> OpenDays]
      /\ \A c \in DOMAIN files' : c \in Nat /\ files'[c].close = c
  BY WithDayReplaces
<1> QED BY <1>1 DEF FilesShape

\* One call of settleAllDue moves on, the others stay where they are.
LEMMA CallMoves ==
  ASSUME CallsShape, NEW s \in Settlers, NEW q \in Calls, Update(s, q),
         CallOK(q, DOMAIN files', Taken'),
         DOMAIN files \subseteq DOMAIN files', Taken \subseteq Taken'
  PROVE  CallsShape'
<1>1. settlers' = [settlers EXCEPT ![s] = q] /\ settlers \in [Settlers -> Calls]
  BY DEF Update, CallsShape
<1>2. settlers' \in [Settlers -> Calls]
  BY <1>1
<1>3. ASSUME NEW u \in Settlers PROVE CallOK(settlers'[u], DOMAIN files', Taken')
  <2>1. CASE u = s
    BY <1>1, <2>1
  <2>2. CASE u # s
    <3>1. settlers'[u] = settlers[u] /\ settlers[u] \in Calls
      BY <1>1, <2>2
    <3>2. CallOK(settlers[u], DOMAIN files, Taken)
      BY DEF CallsShape
    <3> QED BY <3>1, <3>2, CallOKGrows
  <2> QED BY <2>1, <2>2
<1> QED BY <1>2, <1>3 DEF CallsShape

\* The same for a step that touches nothing but the call.
LEMMA CallAlone ==
  ASSUME Shape, NEW s \in Settlers, NEW q \in Calls, CallOK(q, DOMAIN files, Taken),
         Update(s, q), UNCHANGED <<nodeVars, files, configKeys, requests>>,
         faults' \in 0 .. MaxFaults
  PROVE  Shape'
<1>1. files' = files /\ Taken' = Taken
  BY DEF nodeVars, Taken
<1>2. CallOK(q, DOMAIN files', Taken')
  BY <1>1
<1>3. CallsShape'
  BY <1>1, <1>2, CallMoves DEF Shape
<1> QED BY <1>1, <1>3, NodeFrame, FilesFrame, RequestsFrame DEF Shape

-----------------------------------------------------------------------------
(* Requests.                                                                  *)

\* The service starts with an empty registry, idle settlers and an empty node.
LEMMA ShapeInit == Init => Shape
<1> SUFFICES ASSUME Init PROVE Shape
  OBVIOUS
<1>1. NodeShape
  BY NodeAssumption, EmptySeq DEF Init, NodeInit, NodeShape
<1>2. FilesShape
  BY DEF Init, FilesShape
<1>3. RequestsShape
  BY DEF Init, RequestsShape, NewRequest
<1>4. CallsShape
  BY IdleCall DEF Init, CallsShape
<1> QED BY <1>1, <1>2, <1>3, <1>4, ServiceAssumption DEF Init, Shape

\* The day that is open now closes later than now.
LEMMA CloseTimes ==
  ASSUME NodeShape
  PROVE  CloseTimeForNow \in Nat /\ now < CloseTimeForNow
<1>1. now \in Nat /\ DayLength \in Nat \ {0}
  BY NodeAssumption, ServiceAssumption DEF NodeShape
<1>2. now \div DayLength \in Nat /\ now % DayLength \in 0 .. DayLength - 1
      /\ now = DayLength * (now \div DayLength) + (now % DayLength)
  BY <1>1
<1>3. (now \div DayLength + 1) * DayLength = DayLength * (now \div DayLength) + DayLength
  BY <1>1, <1>2
<1> QED BY <1>1, <1>2, <1>3 DEF CloseTimeForNow

\* A registration request pins the open day's wallets and waits for the CLI.
LEMMA BeginKeeps ==
  ASSUME Shape, NEW r \in Requests \cup Heartbeats, NEW pk \in Pubkeys \cup HeartbeatPubkeys,
         NEW keys \in SUBSET KeyPairs,
         BeginRequest(r, pk, DayWithPinnedKeys(CloseTimeForNow), keys)
  PROVE  Shape'
<1> DEFINE d == DayWithPinnedKeys(CloseTimeForNow)
           address == [close |-> d.close, keys |-> keys, pubkey |-> pk]
           q == [pc |-> "cli", day |-> d, address |-> address]
<1>1. d \in OpenDays /\ d.close \in Nat
  BY CloseTimes, PinnedDay DEF Shape, OpenDays, DayRecords
<1> HIDE DEF d
<1>2. /\ files' = WithDay(d) /\ requests' = [requests EXCEPT ![r] = q]
      /\ UNCHANGED <<nodeVars, configKeys, settlers, faults>>
  BY DEF BeginRequest, d
<1>3. FilesShape' /\ DOMAIN files' = DOMAIN files \cup {d.close}
  BY <1>1, <1>2, SavedFile DEF Shape
<1>4. address \in Addresses /\ address.close = d.close
  BY <1>1 DEF Addresses
<1> HIDE DEF address
<1>5. q \in ActiveRequests /\ q.address.close \in DOMAIN files'
  BY <1>1, <1>3, <1>4 DEF ActiveRequests
<1> HIDE DEF q
<1>6. RequestsShape'
  BY <1>2, <1>3, <1>5 DEF Shape, RequestsShape
<1>7. CallsShape'
  <2>1. Taken' = Taken /\ UNCHANGED settlers
    BY <1>2 DEF Taken, nodeVars
  <2> QED BY <1>3, <2>1, CallsFrame DEF Shape
<1> QED BY <1>2, <1>3, <1>6, <1>7, NodeFrame DEF Shape

\* POST /api/enter keeps the invariant.
LEMMA EnterKeeps ==
  ASSUME Shape, NEW r \in Requests, Enter(r)
  PROVE  Shape'
<1>1. DayWithPinnedKeys(CloseTimeForNow).keys \subseteq KeyPairs
  BY CloseTimes, PinnedDay, OneKeyPair DEF Shape
<1>2. PICK pk \in Pubkeys : BeginRequest(r, pk, DayWithPinnedKeys(CloseTimeForNow),
                                         DayWithPinnedKeys(CloseTimeForNow).keys)
  BY DEF Enter
<1> QED BY <1>1, <1>2, BeginKeeps

\* An entry of the heartbeat process keeps the invariant.
LEMMA HeartbeatKeeps ==
  ASSUME Shape, NEW r \in Heartbeats, Heartbeat(r)
  PROVE  Shape'
<1>1. {configKeys} \subseteq KeyPairs
  BY DEF Shape, FilesShape
<1>2. PICK pk \in HeartbeatPubkeys : BeginRequest(r, pk, DayWithPinnedKeys(CloseTimeForNow),
                                                  {configKeys})
  BY DEF Heartbeat
<1> QED BY <1>1, <1>2, BeginKeeps

\* What FinishRequest saves and answers.
LEMMA FinishedRequest ==
  ASSUME FilesShape, RequestsShape, NEW r \in Requests \cup Heartbeats, FinishRequest(r)
  PROVE  LET mine == requests[r].address
             old  == files[mine.close]
             d    == AddEntrant(old, mine)
         IN  /\ requests[r] \in ActiveRequests /\ requests[r].pc = "cli"
             /\ mine \in Addresses /\ mine.close \in DOMAIN files
             /\ old \in OpenDays /\ old.close = mine.close
             /\ d \in OpenDays /\ d.close = mine.close
             /\ files' = WithDay(d)
             /\ \E a \in d.entrants :
                  requests' = [requests EXCEPT ![r].pc = "answered", ![r].address = a]
<1> DEFINE mine == requests[r].address
           old  == files[mine.close]
           d    == AddEntrant(old, mine)
<1>1. /\ requests[r] \in ActiveRequests /\ requests[r].pc = "cli"
      /\ mine \in Addresses /\ mine.close \in DOMAIN files /\ mine.close \in Nat
  BY DEF FinishRequest, RequestsShape, ActiveRequests, NewRequest, Addresses
<1>2. old \in OpenDays /\ old.close = mine.close /\ LoadDay(mine.close) = old
  BY <1>1, LoadedDay DEF FilesShape
<1>3. /\ files' = WithDay(d)
      /\ requests' = [requests EXCEPT ![r].pc = "answered",
           ![r].address = CHOOSE a \in d.entrants : a.pubkey = mine.pubkey]
  BY <1>2 DEF FinishRequest
<1> HIDE DEF mine, old
<1>4. /\ d \in OpenDays /\ d.close = old.close
      /\ \E a \in d.entrants : a.pubkey = mine.pubkey
  BY <1>1, <1>2, EntrantAdded
<1> HIDE DEF d
<1>5. (CHOOSE a \in d.entrants : a.pubkey = mine.pubkey) \in d.entrants
  BY <1>4
<1> QED BY <1>1, <1>2, <1>3, <1>4, <1>5 DEF mine, old, d

\* Saving a registered entrant keeps the invariant.
LEMMA FinishKeeps ==
  ASSUME Shape, NEW r \in Requests \cup Heartbeats, FinishRequest(r)
  PROVE  Shape'
<1>1. PICK d \in OpenDays :
         /\ requests[r] \in ActiveRequests
         /\ d.close = requests[r].address.close /\ d.close \in DOMAIN files
         /\ files' = WithDay(d)
         /\ \E a \in d.entrants :
              requests' = [requests EXCEPT ![r].pc = "answered", ![r].address = a]
  <2> DEFINE mine == requests[r].address
             e == AddEntrant(files[mine.close], mine)
  <2>1. /\ requests[r] \in ActiveRequests /\ mine.close \in DOMAIN files
        /\ e \in OpenDays /\ e.close = mine.close /\ files' = WithDay(e)
        /\ \E a \in e.entrants :
             requests' = [requests EXCEPT ![r].pc = "answered", ![r].address = a]
    BY FinishedRequest DEF Shape
  <2> HIDE DEF e
  <2> QED BY <2>1
<1>2. UNCHANGED <<nodeVars, configKeys, settlers, faults>>
  BY DEF FinishRequest
<1>3. FilesShape' /\ DOMAIN files' = DOMAIN files
  BY <1>1, <1>2, SavedFile DEF Shape
<1>4. RequestsShape'
  <2>a. PICK a \in d.entrants :
           requests' = [requests EXCEPT ![r].pc = "answered", ![r].address = a]
    BY <1>1
  <2> DEFINE q == [pc |-> "answered", day |-> requests[r].day, address |-> a]
  <2>1. requests' = [requests EXCEPT ![r] = q]
    BY <1>1, <2>a DEF ActiveRequests, Shape, RequestsShape
  <2>2. a \in Addresses
    BY DEF OpenDays, DayRecords
  <2>3. q \in ActiveRequests
    BY <1>1, <2>2 DEF ActiveRequests
  <2>4. a.close = d.close
    BY DEF OpenDays
  <2> HIDE DEF q
  <2>5. q.pc = "answered" /\ q.address = a
    BY DEF q
  <2> QED BY <1>1, <1>3, <2>1, <2>3, <2>4, <2>5 DEF Shape, RequestsShape
<1>5. CallsShape'
  <2>1. Taken' = Taken /\ UNCHANGED settlers
    BY <1>2 DEF Taken, nodeVars
  <2> QED BY <1>3, <2>1, CallsFrame DEF Shape
<1> QED BY <1>2, <1>3, <1>4, <1>5, NodeFrame DEF Shape

-----------------------------------------------------------------------------
(* The node, the clock and a restart.                                         *)

\* An entrant's payment adds one coin to the node.
LEMMA PayKeeps == Shape /\ PayEntry => Shape'
<1> SUFFICES ASSUME Shape, PayEntry PROVE Shape'
  OBVIOUS
<1>1. PICK r \in DOMAIN requests, amount \in Amounts :
         requests[r].pc = "answered" /\ Deposit(requests[r].address, amount)
  BY DEF PayEntry
<1>2. UNCHANGED serviceVars
  BY DEF PayEntry
<1> DEFINE coin == [address |-> requests[r].address, amount |-> amount, at |-> now]
<1>3. requests[r].address \in Addresses
  BY <1>1 DEF Shape, RequestsShape, ActiveRequests, NewRequest
<1>4. coin \in Coins /\ coin.at = now
  BY <1>3, NodeAssumption DEF Coins, Shape, NodeShape
<1>5. /\ coins' = Append(coins, coin) /\ Len(coins) < MaxCoins
      /\ UNCHANGED <<now, medianTime, reclaimed, pool, drawn>>
  BY <1>1 DEF Deposit
<1> HIDE DEF coin
<1>6. /\ coins \in Seq(Coins) /\ Len(coins) \in Nat /\ DOMAIN coins = 1 .. Len(coins)
      /\ reclaimed \subseteq DOMAIN coins /\ \A i \in DOMAIN coins : coins[i].at <= now
      /\ now \in Nat
  BY NodeAssumption DEF Shape, NodeShape
<1>7. /\ coins' \in Seq(Coins) /\ Len(coins') = Len(coins) + 1
      /\ DOMAIN coins' = 1 .. Len(coins) + 1
      /\ \A i \in 1 .. Len(coins) : coins'[i] = coins[i]
      /\ coins'[Len(coins) + 1] = coin
  BY <1>4, <1>5, <1>6, AppendProperties
<1>8. \A i \in DOMAIN coins' : coins'[i].at <= now
  <2>1. \A i \in 1 .. Len(coins) + 1 : i \in 1 .. Len(coins) \/ i = Len(coins) + 1
    BY <1>6
  <2> QED BY <1>4, <1>6, <1>7, <2>1
<1>9. NodeShape'
  <2>1. Len(coins') <= MaxCoins /\ reclaimed' \subseteq DOMAIN coins'
    BY <1>5, <1>6, <1>7, NodeAssumption
  <2> QED BY <1>5, <1>7, <1>8, <2>1 DEF Shape, NodeShape
<1>10. CallsShape'
  <2>1. files' = files /\ settlers' = settlers /\ Taken' = Taken
    BY <1>2, <1>5 DEF serviceVars, Taken
  <2> QED BY <2>1, CallsFrame DEF Shape
<1> QED BY <1>2, <1>9, <1>10, FilesFrame, RequestsFrame DEF Shape, serviceVars

\* The chain takes draws from the mempool, and entrants take deposits back.
LEMMA NodeKeeps == Shape /\ Node => Shape' /\ Taken \subseteq Taken'
<1> SUFFICES ASSUME Shape, Node PROVE Shape' /\ Taken \subseteq Taken'
  OBVIOUS
<1>1. UNCHANGED serviceVars
  BY DEF Node
<1>2. NodeShape' /\ Taken \subseteq Taken'
  <2>1. CASE MedianStep
    <3>1. medianTime + 1 \in 0 .. now
      BY <2>1, NodeAssumption DEF MedianStep, Shape, NodeShape
    <3> QED BY <2>1, <3>1 DEF MedianStep, Shape, NodeShape, Taken
  <2>2. CASE Confirm
    BY <2>2 DEF Confirm, Shape, NodeShape, Taken
  <2>3. CASE TakeBack
    <3>1. PICK i \in Live \ InPool : reclaimed' = reclaimed \cup {i}
      BY <2>3 DEF TakeBack
    <3>2. i \in DOMAIN coins /\ UNCHANGED <<now, medianTime, coins, pool, drawn>>
      BY <2>3, <3>1 DEF TakeBack, Live
    <3> QED BY <3>1, <3>2 DEF Shape, NodeShape, Taken
  <2> QED BY <2>1, <2>2, <2>3 DEF Node
<1>3. CallsShape'
  BY <1>1, <1>2, CallsFrame DEF Shape, serviceVars
<1> QED BY <1>1, <1>2, <1>3, FilesFrame, RequestsFrame DEF Shape, serviceVars

\* Time passes at the node and nothing else changes.
LEMMA TickKeeps == Shape /\ Tick => Shape'
<1> SUFFICES ASSUME Shape, Tick PROVE Shape'
  OBVIOUS
<1>1. /\ now < MaxTime /\ now' = now + 1
      /\ UNCHANGED <<medianTime, coins, reclaimed, pool, drawn, serviceVars>>
  BY DEF Tick
<1>2. NodeShape'
  <2>1. /\ now \in Nat /\ now + 1 \in 0 .. MaxTime
        /\ medianTime \in 0 .. now + 1
    BY <1>1, NodeAssumption DEF Shape, NodeShape
  <2>2. \A i \in DOMAIN coins : coins[i].at <= now + 1
    <3> TAKE i \in DOMAIN coins
    <3>1. coins[i] \in Coins /\ coins[i].at <= now
      BY ElementOfSeq, LenProperties DEF Shape, NodeShape
    <3>2. coins[i].at \in Nat
      BY <3>1 DEF Coins
    <3> QED BY <2>1, <3>1, <3>2
  <2> QED BY <1>1, <2>1, <2>2 DEF Shape, NodeShape
<1>3. CallsShape'
  BY <1>1, CallsFrame DEF Shape, Taken, serviceVars
<1> QED BY <1>1, <1>2, <1>3, FilesFrame, RequestsFrame DEF Shape, serviceVars

\* A fault is counted, and the count stays in its bound.
LEMMA FaultCounted ==
  ASSUME Shape, NEW f, Fault(f)
  PROVE  faults' \in 0 .. MaxFaults
BY ServiceAssumption DEF Shape, Fault

\* A restart drops the requests and the settlers' calls and keeps the files.
LEMMA RestartKeeps == Shape /\ Restart => Shape'
<1> SUFFICES ASSUME Shape, Restart PROVE Shape'
  OBVIOUS
<1>1. /\ configKeys' \in KeyPairs /\ UNCHANGED <<nodeVars, files>>
      /\ requests' = [r \in DOMAIN requests |->
           IF r \in Requests /\ requests[r].pc = "cli" THEN NewRequest ELSE requests[r]]
      /\ settlers' = [s \in Settlers |-> Idle]
      /\ faults' \in 0 .. MaxFaults
  BY FaultCounted DEF Restart
<1>2. FilesShape'
  BY <1>1 DEF Shape, FilesShape
<1>3. RequestsShape'
  BY <1>1 DEF Shape, RequestsShape, NewRequest
<1>4. CallsShape'
  BY <1>1, IdleCall DEF CallsShape
<1> QED BY <1>1, <1>2, <1>3, <1>4, NodeFrame DEF Shape

-----------------------------------------------------------------------------
(* settleAllDue, from await to await.                                         *)

\* Each settler's call is a proper one in every state of the invariant.
LEMMA CallAtHand ==
  ASSUME Shape, NEW s \in Settlers
  PROVE  settlers[s] \in Calls /\ CallOK(settlers[s], DOMAIN files, Taken)
BY DEF Shape, CallsShape

\* A round starts with the unsettled days that are due.
LEMMA StartKeeps ==
  ASSUME Shape, NEW s \in Settlers, Start(s)
  PROVE  Shape'
<1> DEFINE due == ListUnsettledDays(now - DRAW_DELAY)
           q == [Idle EXCEPT !.pc = "utxos", !.due = due]
<1>1. now - DRAW_DELAY \in Int
  BY NodeAssumption, ServiceAssumption DEF Shape, NodeShape
<1>2. /\ due \in Seq(Due)
      /\ \A i \in DOMAIN due : due[i].close \in DOMAIN files
  BY <1>1, UnsettledDaysListed DEF Shape
<1>3. due # << >> /\ Update(s, q) /\ UNCHANGED <<nodeVars, files, configKeys, requests, faults>>
  BY DEF Start
<1> HIDE DEF due
<1>4. Idle \in Calls
  BY IdleCall
<1>5. q \in Calls /\ q.pc = "utxos" /\ q.due = due /\ q.attempt = 0
  BY <1>2, <1>4 DEF Calls, Idle
<1> HIDE DEF q
<1>6. CallOK(q, DOMAIN files, Taken)
  BY <1>2, <1>3, <1>5 DEF CallOK
<1> QED BY <1>3, <1>5, <1>6, CallAlone DEF Shape

\* A settlement is saved with the day as it was listed.
LEMMA SettlementSaved ==
  ASSUME Shape, NEW s \in Settlers, settlers[s].pc # "idle",
         NEW m \in Settlements, SaveSettlement(settlers[s], m),
         Update(s, AfterDay(settlers[s])),
         UNCHANGED <<nodeVars, configKeys, requests, faults>>
  PROVE  Shape' /\ DOMAIN files' = DOMAIN files
<1> DEFINE p == settlers[s]
           d == [Head(p.due) EXCEPT !.settlement = m]
<1>1. p \in Calls /\ CallOK(p, DOMAIN files, Taken)
  BY CallAtHand
<1> HIDE DEF p
<1>2. Head(p.due) \in OpenDays /\ Head(p.due).close \in DOMAIN files
  BY <1>1, DayAtHand DEF p
<1>3. d \in OpenDays /\ d.close = Head(p.due).close
  BY <1>2 DEF OpenDays, DayRecords
<1>4. files' = WithDay(d)
  BY DEF SaveSettlement, p
<1> HIDE DEF d
<1>5. FilesShape' /\ DOMAIN files' = DOMAIN files
  BY <1>2, <1>3, <1>4, SavedFile DEF Shape
<1>6. AfterDay(p) \in Calls /\ CallOK(AfterDay(p), DOMAIN files, Taken)
  BY <1>1, NextDay DEF p
<1>7. Taken' = Taken
  BY DEF nodeVars, Taken
<1>8. CallsShape'
  <2>1. CallOK(AfterDay(p), DOMAIN files', Taken')
    BY <1>5, <1>6, <1>7
  <2> QED BY <1>5, <1>6, <1>7, <2>1, CallMoves DEF Shape, p
<1> QED BY <1>5, <1>8, NodeFrame, RequestsFrame DEF Shape

\* Collecting a day's paid entries keeps the invariant.
LEMMA CollectKeeps ==
  ASSUME Shape, NEW s \in Settlers, CollectEntries(s)
  PROVE  Shape'
<1> DEFINE p == settlers[s]
           entries == EligibleEntries(Head(p.due))
           q == [p EXCEPT !.pc = "block", !.entries = entries]
<1>1. p \in Calls /\ CallOK(p, DOMAIN files, Taken) /\ p.pc = "utxos"
  BY CallAtHand DEF CollectEntries
<1>2. UNCHANGED <<nodeVars, configKeys, requests, faults>>
  BY DEF CollectEntries
<1>3. CASE SaveSettlement(p, Empty) /\ Update(s, AfterDay(p))
  <2>1. Empty \in Settlements
    BY DEF Settlements
  <2> QED BY <1>1, <1>2, <1>3, <2>1, SettlementSaved
<1>4. CASE entries # << >> /\ Update(s, q) /\ UNCHANGED files
  <2>1. Head(p.due) \in OpenDays
    BY <1>1, DayAtHand
  <2>2. /\ entries \in Seq(1 .. MaxCoins)
        /\ Len(entries) \in 1 .. MAX_ENTRIES_PER_DRAW /\ Len(entries) <= MaxCoins
    BY <1>4, <2>1, BatchFits DEF Shape
  <2> HIDE DEF entries
  <2>3. /\ q \in Calls /\ q.pc = "block" /\ q.entries = entries /\ q.due = p.due
        /\ q.attempt = p.attempt
    BY <1>1, <2>2 DEF Calls
  <2> HIDE DEF q
  <2>4. CallOK(q, DOMAIN files, Taken)
    BY <1>1, <2>2, <2>3 DEF CallOK
  <2> QED BY <1>2, <1>4, <2>3, <2>4, CallAlone DEF Shape
<1> QED BY <1>3, <1>4 DEF CollectEntries

\* The first candidate of a batch, within the limits of a submission.
LEMMA PreparedCall ==
  ASSUME NEW p \in Calls, NEW closes, NEW taken, CallOK(p, closes, taken), p.pc = "block",
         NEW b \in Blocks
  PROVE  /\ Prepared(p, b) \in Calls /\ CallOK(Prepared(p, b), closes, taken)
         /\ Prepared(p, b).pc = "submit" /\ Prepared(p, b).due = p.due
<1> DEFINE leader == BudgetUnitsFor(12000 + 6000 * Len(p.entries))
           delegate == BudgetUnitsFor(15000)
<1>1. Len(p.entries) \in Nat /\ Len(p.entries) >= 1 /\ Len(p.entries) <= MaxCoins
  <2>1. Len(p.entries) \in Nat
    BY DEF Calls
  <2> QED BY <2>1, ServiceAssumption DEF CallOK
<1>2. leader \in Nat /\ delegate \in Nat
  BY <1>1, BudgetIsNatural
<1>3. Prepared(p, b) = [p EXCEPT !.pc = "submit", !.block = b, !.candidate = 1,
                                 !.fee = DRAW_FEE, !.leader = leader, !.delegate = delegate]
  BY DEF Prepared
<1> HIDE DEF leader, delegate
<1> DEFINE q == Prepared(p, b)
<1>4. q \in Calls
  <2>1. DRAW_FEE \in Nat /\ b \in Blocks \cup {0}
    BY ServiceAssumption
  <2> DEFINE q1 == [p EXCEPT !.pc = "submit", !.block = b, !.candidate = 1]
  <2>2. q1 \in Calls
    BY <2>1 DEF Calls
  <2>3. q = [q1 EXCEPT !.fee = DRAW_FEE, !.leader = leader, !.delegate = delegate]
    BY <1>3
  <2> HIDE DEF q, q1
  <2> QED BY <1>2, <2>1, <2>2, <2>3 DEF Calls
<1>5. /\ q.pc = "submit" /\ q.due = p.due /\ q.entries = p.entries /\ q.block = b
      /\ q.candidate = 1 /\ q.fee = DRAW_FEE /\ q.attempt = p.attempt
  BY <1>3, <1>4 DEF Calls
<1> HIDE DEF q
<1>6. q.due # << >> /\ q.candidate \in 1 .. Len(q.entries) /\ q.attempt = 0
  BY <1>1, <1>5 DEF CallOK
<1>7. DrawTx(q) \in Draws
  BY <1>1, <1>4, <1>5, <1>6, DrawIsWellFormed
<1>8. CallOK(q, closes, taken)
  <2>1. 0 \in 0 .. MAX_ATTEMPTS - 1 /\ DRAW_FEE <= FEE_CEILING
    BY ServiceAssumption
  <2> QED BY <1>1, <1>5, <1>6, <1>7, <2>1 DEF CallOK
<1> QED BY <1>4, <1>5, <1>8 DEF q

\* Choosing the block and preparing the draw keeps the invariant.
LEMMA PrepareKeeps ==
  ASSUME Shape, NEW s \in Settlers, PrepareDraw(s)
  PROVE  Shape'
<1>1. PICK b \in Blocks : Update(s, Prepared(settlers[s], b))
  BY DEF PrepareDraw
<1>2. UNCHANGED <<nodeVars, files, configKeys, requests, faults>> /\ settlers[s].pc = "block"
  BY DEF PrepareDraw
<1>3. /\ Prepared(settlers[s], b) \in Calls
      /\ CallOK(Prepared(settlers[s], b), DOMAIN files, Taken)
  BY <1>2, CallAtHand, PreparedCall
<1> QED BY <1>1, <1>2, <1>3, CallAlone DEF Shape

\* The node takes the call of submitTransaction: the answer it will give is true.
LEMMA Answered ==
  ASSUME NEW p \in Calls, NEW closes, NEW taken, CallOK(p, closes, taken), p.pc = "submit",
         NEW c \in {"accepted", "notFinalized", "feeTooLow", "leaderBudget",
                    "delegateBudget", "rejected"},
         c = "accepted" => DrawTx(p) \in taken
  PROVE  /\ [p EXCEPT !.pc = "reply", !.reply = c] \in Calls
         /\ CallOK([p EXCEPT !.pc = "reply", !.reply = c], closes, taken)
<1> DEFINE q == [p EXCEPT !.pc = "reply", !.reply = c]
<1>1. q \in Calls
  BY DEF Calls
<1>2. /\ q.pc = "reply" /\ q.due = p.due /\ q.entries = p.entries /\ q.block = p.block
      /\ q.candidate = p.candidate /\ q.attempt = p.attempt /\ q.fee = p.fee /\ q.reply = c
  BY <1>1 DEF Calls
<1>3. DrawTx(q) = DrawTx(p)
  BY <1>2 DEF DrawTx
<1> HIDE DEF q
<1>4. CallOK(q, closes, taken)
  BY <1>2, <1>3 DEF CallOK
<1> QED BY <1>1, <1>4 DEF q

\* Either nothing reaches the node, or the draw of the call's candidate does.
LEMMA SubmitMoves ==
  ASSUME Shape, NEW s \in Settlers, settlers[s].pc = "submit",
         NEW c \in {"accepted", "notFinalized", "feeTooLow", "leaderBudget",
                    "delegateBudget", "rejected"},
         Update(s, [settlers[s] EXCEPT !.pc = "reply", !.reply = c]),
         (c # "accepted" /\ UNCHANGED pool) \/ pool' = pool \cup {DrawTx(settlers[s])},
         UNCHANGED <<now, medianTime, coins, reclaimed, drawn>>,
         UNCHANGED <<files, configKeys, requests>>, faults' \in 0 .. MaxFaults
  PROVE  Shape' /\ Taken \subseteq Taken'
<1> DEFINE p == settlers[s]
           q == [p EXCEPT !.pc = "reply", !.reply = c]
<1>1. p \in Calls /\ CallOK(p, DOMAIN files, Taken) /\ p.pc = "submit"
  BY CallAtHand
<1>2. DrawTx(p) \in Draws
  BY <1>1 DEF CallOK
<1> HIDE DEF p
<1>3. NodeShape' /\ Taken \subseteq Taken'
  BY <1>2 DEF Shape, NodeShape, Taken, p
<1>4. c = "accepted" => DrawTx(p) \in Taken'
  BY DEF Taken, p
<1>5. CallOK(p, DOMAIN files, Taken')
  BY <1>1, <1>3, CallOKGrows
<1>6. q \in Calls /\ CallOK(q, DOMAIN files, Taken')
  BY <1>1, <1>4, <1>5, Answered
<1> HIDE DEF q
<1>7. CallsShape'
  <2>1. Update(s, q)
    BY DEF p, q
  <2> QED BY <1>3, <1>6, <2>1, CallMoves DEF Shape
<1> QED BY <1>3, <1>7, FilesFrame, RequestsFrame DEF Shape

\* The node's answer to a draw, accepting or refusing, keeps the invariant and no draw is withdrawn.
LEMMA AnswersKeep ==
  ASSUME Shape, NEW s \in Settlers, NodeAnswers(s)
  PROVE  Shape' /\ Taken \subseteq Taken'
<1> DEFINE p == settlers[s]
           complaints == Complaints(DrawTx(p), Head(p.due), p.fee, p.leader, p.delegate)
<1>1. /\ p.pc = "submit"
      /\ UNCHANGED <<now, medianTime, coins, reclaimed, drawn>>
      /\ UNCHANGED <<files, configKeys, requests, faults>>
      /\ \/ \E c \in complaints :
              Update(s, [p EXCEPT !.pc = "reply", !.reply = c]) /\ UNCHANGED pool
         \/ /\ Update(s, [p EXCEPT !.pc = "reply", !.reply = "accepted"])
            /\ pool' = pool \cup {DrawTx(p)}
  BY DEF NodeAnswers
<1>2. complaints \subseteq {"notFinalized", "feeTooLow", "leaderBudget", "delegateBudget",
                            "rejected"}
  BY DEF Complaints
<1> HIDE DEF p, complaints
<1>3. CASE \E c \in complaints :
              Update(s, [p EXCEPT !.pc = "reply", !.reply = c]) /\ UNCHANGED pool
  <2>1. PICK c \in complaints :
              Update(s, [p EXCEPT !.pc = "reply", !.reply = c]) /\ UNCHANGED pool
    BY <1>3
  <2> QED BY <1>1, <1>2, <2>1, SubmitMoves DEF Shape, p
<1>4. CASE /\ Update(s, [p EXCEPT !.pc = "reply", !.reply = "accepted"])
           /\ pool' = pool \cup {DrawTx(p)}
  BY <1>1, <1>4, SubmitMoves DEF Shape, p
<1> QED BY <1>1, <1>3, <1>4

\* A lost answer leaves the draw with the node or not, and the settler with an error.
LEMMA AnswerLostKeeps ==
  ASSUME Shape, NEW s \in Settlers, AnswerLost(s)
  PROVE  Shape' /\ Taken \subseteq Taken'
<1>1. faults' \in 0 .. MaxFaults
  BY FaultCounted DEF AnswerLost
<1>2. /\ settlers[s].pc = "submit"
      /\ Update(s, [settlers[s] EXCEPT !.pc = "reply", !.reply = "rejected"])
      /\ UNCHANGED pool \/ pool' = pool \cup {DrawTx(settlers[s])}
      /\ UNCHANGED <<now, medianTime, coins, reclaimed, drawn>>
      /\ UNCHANGED <<files, configKeys, requests>>
  BY DEF AnswerLost
<1> QED BY <1>1, <1>2, SubmitMoves

\* Recording a confirmed draw in the day's file keeps the invariant.
LEMMA RecordKeeps ==
  ASSUME Shape, NEW s \in Settlers, RecordDraw(s)
  PROVE  Shape'
<1>1. /\ settlers[s].pc = "reply" /\ SaveSettlement(settlers[s], Record(DrawTx(settlers[s])))
      /\ Update(s, AfterDay(settlers[s]))
      /\ UNCHANGED <<nodeVars, configKeys, requests, faults>>
  BY DEF RecordDraw
<1>2. DrawTx(settlers[s]) \in Draws
  BY <1>1, CallAtHand DEF CallOK
<1>3. Record(DrawTx(settlers[s])) \in Settlements
  BY <1>2 DEF Record, Settlements
<1> QED BY <1>1, <1>3, SettlementSaved

\* A settler that goes on after an answer changes its own call only.
LEMMA ContinueKeeps ==
  ASSUME Shape, NEW s \in Settlers, NEW reply, NEW q \in Calls,
         CallOK(q, DOMAIN files, Taken), Continue(s, reply, q)
  PROVE  Shape'
<1>1. Update(s, q) /\ UNCHANGED <<nodeVars, files, configKeys, requests, faults>>
  BY DEF Continue
<1> QED BY <1>1, CallAlone DEF Shape

\* What a call becomes after a complaint it knows.
LEMMA RaisedFee ==
  ASSUME NEW p \in Calls, NEW closes, NEW taken, CallOK(p, closes, taken), p.pc = "reply",
         ~ (FeeNeeded[Len(p.entries)] > FEE_CEILING)
  PROVE  LET q == [p EXCEPT !.fee = FeeNeeded[Len(p.entries)]]
         IN  q \in Calls /\ CallOK(q, closes, taken) /\ q.pc = "reply" /\ q.due = p.due
<1> DEFINE need == FeeNeeded[Len(p.entries)]
           q == [p EXCEPT !.fee = need]
<1>1. need \in Nat
  BY ServiceAssumption DEF CallOK
<1>2. need <= FEE_CEILING
  BY <1>1, ServiceAssumption
<1> HIDE DEF need
<1>3. q \in Calls /\ CallOK(q, closes, taken)
  BY <1>1, <1>2, ServiceAssumption, RaisedCall
<1>4. q.pc = "reply" /\ q.due = p.due
  BY DEF Calls
<1> QED BY <1>3, <1>4 DEF need

\* A call with one of its budgets raised is a proper call.
LEMMA RaisedBudgets ==
  ASSUME NEW p \in Calls, NEW closes, NEW taken, CallOK(p, closes, taken), p.pc = "reply",
         NEW leader \in Nat, NEW delegate \in Nat
  PROVE  LET a == [p EXCEPT !.leader = leader]
             b == [p EXCEPT !.delegate = delegate]
         IN  /\ a \in Calls /\ CallOK(a, closes, taken) /\ a.pc = "reply" /\ a.due = p.due
             /\ b \in Calls /\ CallOK(b, closes, taken) /\ b.pc = "reply" /\ b.due = p.due
<1> DEFINE a == [p EXCEPT !.leader = leader]
           b == [p EXCEPT !.delegate = delegate]
<1>1. DRAW_FEE \in Nat /\ DRAW_FEE <= FEE_CEILING
  BY ServiceAssumption
<1>2. a \in Calls /\ CallOK(a, closes, taken) /\ b \in Calls /\ CallOK(b, closes, taken)
  BY <1>1, RaisedCall
<1>3. a.pc = "reply" /\ a.due = p.due /\ b.pc = "reply" /\ b.due = p.due
  BY DEF Calls
<1> QED BY <1>2, <1>3

\* After a fee complaint the settler submits again with the fee asked for, or gives the day up.
LEMMA RaiseFeeMoves ==
  ASSUME Shape, NEW s \in Settlers, RaiseFee(s)
  PROVE  LET p == settlers[s]
         IN  /\ p.pc = "reply" /\ p.reply = "feeTooLow"
             /\ \E q \in Calls :
                  /\ CallOK(q, DOMAIN files, Taken) /\ Continue(s, "feeTooLow", q)
                  /\ q = AfterDay(p) \/ (q.pc = "submit" /\ q.due = p.due)
<1> DEFINE p == settlers[s]
           need == FeeNeeded[Len(p.entries)]
           raised == [p EXCEPT !.fee = need]
           next == IF need > FEE_CEILING THEN AfterDay(p) ELSE AfterAttempt(raised)
<1>1. Continue(s, "feeTooLow", next)
  BY DEF RaiseFee
<1>2. p.pc = "reply" /\ p.reply = "feeTooLow"
  BY <1>1 DEF Continue
<1>3. p \in Calls /\ CallOK(p, DOMAIN files, Taken)
  BY CallAtHand
<1> HIDE DEF p
<1>4. CASE need > FEE_CEILING
  BY <1>1, <1>2, <1>3, <1>4, NextDay DEF p
<1>5. CASE ~ (need > FEE_CEILING)
  <2>1. /\ raised \in Calls /\ CallOK(raised, DOMAIN files, Taken)
        /\ raised.pc = "reply" /\ raised.due = p.due
    BY <1>2, <1>3, <1>5, RaisedFee
  <2> HIDE DEF raised
  <2>2. /\ AfterAttempt(raised) \in Calls
        /\ CallOK(AfterAttempt(raised), DOMAIN files, Taken)
        /\ \/ AfterAttempt(raised) = AfterDay(raised)
           \/ AfterAttempt(raised).pc = "submit" /\ AfterAttempt(raised).due = raised.due
    BY <2>1, NextAttempt
  <2>3. AfterDay(raised) = AfterDay(p)
    BY <2>1 DEF AfterDay
  <2>4. Continue(s, "feeTooLow", AfterAttempt(raised))
    BY <1>1, <1>5
  <2> QED BY <1>2, <2>1, <2>2, <2>3, <2>4 DEF p
<1> QED BY <1>4, <1>5

\* After a budget complaint the settler submits again with a larger budget, or gives the day up.
LEMMA RaiseBudgetMoves ==
  ASSUME Shape, NEW s \in Settlers, RaiseBudget(s)
  PROVE  LET p == settlers[s]
         IN  /\ p.pc = "reply" /\ p.reply \in {"leaderBudget", "delegateBudget"}
             /\ \E q \in Calls :
                  /\ CallOK(q, DOMAIN files, Taken) /\ Continue(s, p.reply, q)
                  /\ q = AfterDay(p) \/ (q.pc = "submit" /\ q.due = p.due)
<1> DEFINE p == settlers[s]
           leader == AtLeast(p.leader, BudgetUnitsFor(LeaderUsed[Len(p.entries)]))
           delegate == AtLeast(p.delegate, BudgetUnitsFor(DelegateUsed))
           a == [p EXCEPT !.leader = leader]
           b == [p EXCEPT !.delegate = delegate]
<1>1. \/ Continue(s, "leaderBudget", AfterAttempt(a))
      \/ Continue(s, "delegateBudget", AfterAttempt(b))
  BY DEF RaiseBudget
<1>2. p.pc = "reply" /\ p.reply \in {"leaderBudget", "delegateBudget"}
  BY <1>1 DEF Continue
<1>3. p \in Calls /\ CallOK(p, DOMAIN files, Taken)
  BY CallAtHand
<1> HIDE DEF p
<1>4. leader \in Nat /\ delegate \in Nat
  <2>1. Len(p.entries) \in 1 .. MAX_ENTRIES_PER_DRAW
    BY <1>2, <1>3 DEF CallOK
  <2>2. LeaderUsed[Len(p.entries)] \in Nat /\ DelegateUsed \in Nat
    BY <2>1, ServiceAssumption, NodeAssumption
  <2>3. /\ BudgetUnitsFor(LeaderUsed[Len(p.entries)]) \in Nat
        /\ BudgetUnitsFor(DelegateUsed) \in Nat
    BY <2>2, BudgetIsNatural
  <2> QED BY <1>3, <2>3 DEF AtLeast, Calls
<1> HIDE DEF leader, delegate
<1>5. /\ a \in Calls /\ CallOK(a, DOMAIN files, Taken) /\ a.pc = "reply" /\ a.due = p.due
      /\ b \in Calls /\ CallOK(b, DOMAIN files, Taken) /\ b.pc = "reply" /\ b.due = p.due
  BY <1>2, <1>3, <1>4, RaisedBudgets
<1> HIDE DEF a, b
<1>6. ASSUME NEW c \in Calls, CallOK(c, DOMAIN files, Taken), c.pc = "reply", c.due = p.due
      PROVE  /\ AfterAttempt(c) \in Calls /\ CallOK(AfterAttempt(c), DOMAIN files, Taken)
             /\ \/ AfterAttempt(c) = AfterDay(p)
                \/ AfterAttempt(c).pc = "submit" /\ AfterAttempt(c).due = p.due
  <2>1. AfterDay(c) = AfterDay(p)
    BY <1>6 DEF AfterDay
  <2> QED BY <1>6, <2>1, NextAttempt
<1>7. CASE Continue(s, "leaderBudget", AfterAttempt(a))
  <2>1. p.reply = "leaderBudget"
    BY <1>7 DEF Continue, p
  <2> QED BY <1>2, <1>5, <1>6, <1>7, <2>1 DEF p
<1>8. CASE Continue(s, "delegateBudget", AfterAttempt(b))
  <2>1. p.reply = "delegateBudget"
    BY <1>8 DEF Continue, p
  <2> QED BY <1>2, <1>5, <1>6, <1>8, <2>1 DEF p
<1> QED BY <1>1, <1>7, <1>8

\* Whatever the answer, short of "accepted", the call goes on with another
\* submission for the same day or leaves the day.
LEMMA RetryMoves ==
  ASSUME Shape, NEW s \in Settlers,
         NotFinalized(s) \/ RaiseFee(s) \/ RaiseBudget(s) \/ WrongWinner(s)
  PROVE  LET p == settlers[s]
         IN  /\ p.pc = "reply" /\ p.reply # "accepted"
             /\ \E q \in Calls :
                  /\ CallOK(q, DOMAIN files, Taken) /\ Continue(s, p.reply, q)
                  /\ q = AfterDay(p) \/ (q.pc = "submit" /\ q.due = p.due)
<1> DEFINE p == settlers[s]
<1>1. p \in Calls /\ CallOK(p, DOMAIN files, Taken)
  BY CallAtHand
<1>2. CASE NotFinalized(s)
  <2>1. p.pc = "reply" /\ p.reply = "notFinalized" /\ Continue(s, p.reply, AfterDay(p))
    BY <1>2 DEF NotFinalized, Continue
  <2> QED BY <1>1, <2>1, NextDay
<1>3. CASE RaiseFee(s)
  BY <1>3, RaiseFeeMoves
<1>4. CASE RaiseBudget(s)
  BY <1>4, RaiseBudgetMoves
<1>5. CASE WrongWinner(s)
  <2>1. p.pc = "reply" /\ p.reply = "rejected" /\ Continue(s, p.reply, AfterCandidate(p))
    BY <1>5 DEF WrongWinner, Continue
  <2> QED BY <1>1, <2>1, NextCandidate
<1> QED BY <1>2, <1>3, <1>4, <1>5

\* Every way to go on after a refusal keeps the invariant.
LEMMA RetryKeeps ==
  ASSUME Shape, NEW s \in Settlers,
         NotFinalized(s) \/ RaiseFee(s) \/ RaiseBudget(s) \/ WrongWinner(s)
  PROVE  Shape'
BY RetryMoves, ContinueKeeps

\* A failing call of the node gives the day up for this round.
LEMMA RpcFailsKeeps ==
  ASSUME Shape, NEW s \in Settlers, RpcFails(s)
  PROVE  Shape'
<1>1. /\ settlers[s].pc \in {"utxos", "block"} /\ Update(s, AfterDay(settlers[s]))
      /\ UNCHANGED <<nodeVars, files, configKeys, requests>> /\ faults' \in 0 .. MaxFaults
  BY FaultCounted DEF RpcFails
<1>2. /\ AfterDay(settlers[s]) \in Calls
      /\ CallOK(AfterDay(settlers[s]), DOMAIN files, Taken)
  BY <1>1, CallAtHand, NextDay
<1> QED BY <1>1, <1>2, CallAlone

\* The invariant speaks of the variables only.
LEMMA ShapeStutters == Shape /\ UNCHANGED vars => Shape'
<1> SUFFICES ASSUME Shape, UNCHANGED vars PROVE Shape'
  OBVIOUS
<1>1. UNCHANGED <<nodeVars, files, configKeys, requests, settlers, faults>> /\ Taken' = Taken
  BY DEF vars, serviceVars, nodeVars, Taken
<1> QED BY <1>1, NodeFrame, FilesFrame, RequestsFrame, CallsFrame DEF Shape

\* Which action a step is.
LEMMA StepCases ==
  ASSUME RequestsShape, [Next]_vars
  PROVE  \/ \E r \in Requests : Enter(r)
         \/ \E r \in Heartbeats : Heartbeat(r)
         \/ \E r \in Requests \cup Heartbeats : FinishRequest(r)
         \/ PayEntry \/ Node \/ Tick \/ Restart
         \/ \E s \in Settlers :
              \/ Start(s) \/ CollectEntries(s) \/ PrepareDraw(s)
              \/ NodeAnswers(s) \/ AnswerLost(s) \/ RecordDraw(s) \/ RpcFails(s)
              \/ NotFinalized(s) \/ RaiseFee(s) \/ RaiseBudget(s) \/ WrongWinner(s)
         \/ UNCHANGED vars
<1>1. DOMAIN requests = Requests \cup Heartbeats
  BY DEF RequestsShape
<1> QED BY <1>1, Zenon DEF Next, Settle

\* Every step of the service, of its callers, of the node and of what goes wrong
\* keeps the variables in shape.
LEMMA ShapeStep ==
  ASSUME Shape, [Next]_vars
  PROVE  Shape'
<1>1. RequestsShape
  BY DEF Shape
<1> QED BY <1>1, StepCases, EnterKeeps, HeartbeatKeeps, FinishKeeps, PayKeeps, NodeKeeps,
           TickKeeps, RestartKeeps, StartKeeps, CollectKeeps, PrepareKeeps, AnswersKeep,
           AnswerLostKeeps, RecordKeeps, RpcFailsKeeps, RetryKeeps, ShapeStutters, Zenon

\* The variables are in shape in every state the service reaches.
THEOREM ShapeInvariant == Spec => []Shape
<1>1. Shape /\ [Next]_vars => Shape'
  BY ShapeStep
<1> QED BY ShapeInit, <1>1, PTL DEF Spec

\* Whatever enters, pays, settles, fails and restarts: every day file is a day of
\* its own name with one key pair, and every submission is for a candidate of its
\* own batch, within the attempts and the fee that the covenant allows
\* (draw.js:127-175, registry.js:24-59).
THEOREM ServiceTypes == Spec => []TypeOK
<1>1. Shape => TypeOK
  <2> SUFFICES ASSUME Shape PROVE TypeOK
    OBVIOUS
  <2>1. ASSUME NEW d \in OpenDays PROVE IsDay(d)
    <3>1. d.close \in Nat /\ d.entrants \subseteq Addresses /\ d.settlement \in Settlements
      BY DEF OpenDays, DayRecords
    <3>2. IsRecord(d.settlement)
      BY <3>1 DEF IsRecord, Settlements
    <3> QED BY <3>1, <3>2, OneKeyPair DEF IsDay
  <2>2. now \in 0 .. MaxTime /\ medianTime \in 0 .. now
    BY DEF Shape, NodeShape
  <2>3. ASSUME NEW i \in DOMAIN coins
        PROVE  /\ coins[i].address \in Addresses /\ coins[i].amount \in Amounts
               /\ coins[i].at \in 0 .. now
    <3>1. coins[i] \in Coins /\ coins[i].at <= now
      BY ElementOfSeq, LenProperties DEF Shape, NodeShape
    <3> QED BY <2>2, <3>1 DEF Coins
  <2>4. ASSUME NEW c \in DOMAIN files PROVE IsDay(files[c]) /\ files[c].close = c
    BY <2>1 DEF Shape, FilesShape
  <2>5. ASSUME NEW r \in DOMAIN requests, requests[r].pc # "free"
        PROVE  IsDay(requests[r].day) /\ requests[r].address \in Addresses
    <3>1. requests[r] \in ActiveRequests
      BY <2>5 DEF Shape, RequestsShape, NewRequest
    <3> QED BY <2>1, <3>1 DEF ActiveRequests
  <2>6. ASSUME NEW s \in Settlers
        PROVE  LET p == settlers[s] IN
               /\ \A i \in DOMAIN p.due : IsDay(p.due[i])
               /\ p.pc # "idle" => p.due # << >>
               /\ p.pc \in {"submit", "reply"} =>
                    /\ p.candidate \in DOMAIN p.entries /\ p.attempt \in 0 .. MAX_ATTEMPTS - 1
                    /\ p.fee <= FEE_CEILING
    <3> DEFINE p == settlers[s]
    <3>1. p \in Calls /\ CallOK(p, DOMAIN files, Taken)
      BY CallAtHand
    <3> HIDE DEF p
    <3>2. p.due \in Seq(Due) /\ p.entries \in Seq(1 .. MaxCoins)
      BY <3>1 DEF Calls
    <3>3. \A i \in DOMAIN p.due : IsDay(p.due[i])
      BY <2>1, <3>2, ElementOfSeq, LenProperties DEF Due
    <3>4. DOMAIN p.entries = 1 .. Len(p.entries)
      BY <3>2, LenProperties
    <3> QED BY <3>1, <3>3, <3>4 DEF CallOK, p
  <2>7. /\ reclaimed \subseteq DOMAIN coins /\ pool \cup drawn \subseteq Draws
        /\ configKeys \in KeyPairs /\ faults \in 0 .. MaxFaults
    BY DEF Shape, NodeShape, FilesShape
  <2> QED BY <2>2, <2>3, <2>4, <2>5, <2>6, <2>7 DEF TypeOK
<1> QED BY ShapeInvariant, <1>1, PTL

-----------------------------------------------------------------------------
(* What the service promises.                                                *)

\* All entries of the day were compiled from the same keys.
OneTemplate(d) == \A a \in d.entrants : a.keys = d.keys

\* Behind OneTemplatePerDay: an address still being compiled has its day's keys,
\* and a settlement under way will write back a day with the keys of its file.
TemplatesAgree ==
  /\ \A c \in DOMAIN files : OneTemplate(files[c])
  /\ \A r \in Requests \cup Heartbeats : requests[r].pc = "cli" =>
       requests[r].address.keys = files[requests[r].address.close].keys
  /\ \A s \in Settlers : \A i \in DOMAIN settlers[s].due :
       LET d == settlers[s].due[i] IN d.keys = files[d.close].keys /\ OneTemplate(d)

\* Behind EntrantsKept: no request is still under way when its day becomes due,
\* so that the entrants read with the due days stay those of the files.
EntrantsListed ==
  /\ \A r \in Requests \cup Heartbeats :
       /\ requests[r].pc = "answered" =>
            requests[r].address \in files[requests[r].address.close].entrants
       /\ requests[r].pc = "cli" =>
            /\ requests[r].day.close = requests[r].address.close
            /\ now <= requests[r].address.close + RequestOverrun
  /\ \A s \in Settlers : \A i \in DOMAIN settlers[s].due :
       LET d == settlers[s].due[i]
       IN  d.close + DRAW_DELAY <= now /\ d.entrants = files[d.close].entrants

\* The node took the draw and settleDay has still to write it down.
InFlight(tx) ==
  \E s \in Settlers : /\ settlers[s].pc = "reply" /\ settlers[s].reply = "accepted"
                      /\ tx = DrawTx(settlers[s])

\* Behind OneDrawPerDay: every draw is on record or about to be, and the days
\* that a call has still to settle are different ones, none of them on record.
DrawsAccountedFor ==
  /\ \A tx \in Taken :
       \/ tx.close \in DOMAIN files /\ files[tx.close].settlement = Record(tx)
       \/ InFlight(tx)
  /\ \A s \in Settlers :
       /\ \A i \in DOMAIN settlers[s].due :
            files[settlers[s].due[i].close].settlement = NoRecord
       /\ \A i, j \in DOMAIN settlers[s].due :
            settlers[s].due[i].close = settlers[s].due[j].close => i = j

-----------------------------------------------------------------------------
(* The kinds of steps, as far as these invariants tell them apart.            *)

\* A request makes the day's file if it is not there, and starts compiling.
Begins(r) ==
  \E pk \in Pubkeys \cup HeartbeatPubkeys, keys \in SUBSET KeyPairs :
    /\ BeginRequest(r, pk, DayWithPinnedKeys(CloseTimeForNow), keys)
    /\ \/ keys = DayWithPinnedKeys(CloseTimeForNow).keys
       \/ Heartbeats # {} /\ keys = {configKeys}

\* settleDay writes its copy of the day with a settlement and leaves it.
Settles(s, m) ==
  LET p == settlers[s] IN
  /\ \/ p.pc = "utxos" /\ m = Empty
     \/ p.pc = "reply" /\ p.reply = "accepted" /\ m = Record(DrawTx(p))
  /\ SaveSettlement(p, m) /\ Update(s, AfterDay(p))
  /\ UNCHANGED <<nodeVars, configKeys, requests, faults>>

\* The draw of a candidate is submitted; only an accepted one leaves a trace,
\* unless answers get lost.
Submits(s, c) ==
  LET p == settlers[s] IN
  /\ p.pc = "submit" /\ Update(s, [p EXCEPT !.pc = "reply", !.reply = c])
  /\ Taken \subseteq Taken'
  /\ c = "accepted" => Taken' = Taken \cup {DrawTx(p)}
  /\ c # "accepted" => Taken' = Taken \/ "lost" \in Faults
  /\ UNCHANGED <<now, files, configKeys, requests>>

\* A call that has nothing to write down moves on: it starts with the days that
\* are due, stays with the first of them or leaves it.
Moves(s, q) ==
  LET p == settlers[s] IN
  /\ Update(s, q) /\ q.pc # "reply"
  /\ ~ (p.pc = "reply" /\ p.reply = "accepted")
  /\ \/ q.due = ListUnsettledDays(now - DRAW_DELAY)
     \/ p.pc # "idle" /\ q = AfterDay(p)
     \/ q.due = p.due
  /\ UNCHANGED <<nodeVars, files, configKeys, requests>>

\* The callers pay and the node works, or nothing happens at all.
Elsewhere ==
  /\ Taken' = Taken
  /\ UNCHANGED <<now, files, configKeys, requests, settlers>>

\* What each action of settleAllDue does to the call that takes it.
LEMMA CallSteps ==
  ASSUME Shape, NEW s \in Settlers,
         \/ Start(s) \/ CollectEntries(s) \/ PrepareDraw(s)
         \/ NodeAnswers(s) \/ AnswerLost(s) \/ RecordDraw(s) \/ RpcFails(s)
         \/ NotFinalized(s) \/ RaiseFee(s) \/ RaiseBudget(s) \/ WrongWinner(s)
  PROVE  \/ \E m \in Settlements : Settles(s, m)
         \/ \E c \in {"accepted", "notFinalized", "feeTooLow", "leaderBudget",
                      "delegateBudget", "rejected"} : Submits(s, c)
         \/ \E q \in Calls : Moves(s, q)
<1> DEFINE p == settlers[s]
           answers == {"notFinalized", "feeTooLow", "leaderBudget", "delegateBudget",
                       "rejected"}
           goal == \/ \E m \in Settlements : Settles(s, m)
                   \/ \E c \in answers \cup {"accepted"} : Submits(s, c)
                   \/ \E q \in Calls : Moves(s, q)
<1>0. p \in Calls /\ CallOK(p, DOMAIN files, Taken)
  BY CallAtHand
<1>1. CASE Start(s)
  <2> DEFINE q == [Idle EXCEPT !.pc = "utxos", !.due = ListUnsettledDays(now - DRAW_DELAY)]
  <2>1. /\ p.pc = "idle" /\ Update(s, q)
        /\ UNCHANGED <<nodeVars, files, configKeys, requests, faults>>
    BY <1>1 DEF Start
  <2>2. now - DRAW_DELAY \in Int
    BY NodeAssumption, ServiceAssumption DEF Shape, NodeShape
  <2>3. ListUnsettledDays(now - DRAW_DELAY) \in Seq(Due)
    BY <2>2, UnsettledDaysListed DEF Shape
  <2>4. q \in Calls /\ q.pc = "utxos" /\ q.due = ListUnsettledDays(now - DRAW_DELAY)
    BY <2>3, IdleCall DEF Calls, Idle
  <2> HIDE DEF q
  <2>5. Moves(s, q)
    BY <2>1, <2>4 DEF Moves
  <2> QED BY <2>4, <2>5
<1>2. CASE CollectEntries(s)
  <2> DEFINE entries == EligibleEntries(Head(p.due))
             q == [p EXCEPT !.pc = "block", !.entries = entries]
  <2>1. p.pc = "utxos" /\ UNCHANGED <<nodeVars, configKeys, requests, faults>>
    BY <1>2 DEF CollectEntries
  <2>2. CASE SaveSettlement(p, Empty) /\ Update(s, AfterDay(p))
    <3>1. Settles(s, Empty) /\ Empty \in Settlements
      BY <2>1, <2>2 DEF Settles, Settlements
    <3> QED BY <3>1
  <2>3. CASE Update(s, q) /\ UNCHANGED files
    <3>1. Head(p.due) \in OpenDays
      BY <1>0, <2>1, DayAtHand
    <3>2. entries \in Seq(1 .. MaxCoins)
      BY <3>1, BatchFits DEF Shape
    <3> HIDE DEF entries
    <3>3. q \in Calls /\ q.pc = "block" /\ q.due = p.due
      BY <1>0, <3>2 DEF Calls
    <3> HIDE DEF q
    <3>4. Moves(s, q)
      BY <2>1, <2>3, <3>3 DEF Moves
    <3> QED BY <3>3, <3>4
  <2>4. \/ SaveSettlement(p, Empty) /\ Update(s, AfterDay(p))
        \/ Update(s, q) /\ UNCHANGED files
    BY <1>2 DEF CollectEntries
  <2> QED BY <2>2, <2>3, <2>4
<1>3. CASE PrepareDraw(s)
  <2>1. PICK b \in Blocks : Update(s, Prepared(p, b))
    BY <1>3 DEF PrepareDraw
  <2>2. p.pc = "block" /\ UNCHANGED <<nodeVars, files, configKeys, requests, faults>>
    BY <1>3 DEF PrepareDraw
  <2>3. Prepared(p, b) \in Calls /\ Prepared(p, b).pc = "submit" /\ Prepared(p, b).due = p.due
    BY <1>0, <2>2, PreparedCall
  <2>4. Moves(s, Prepared(p, b))
    BY <2>1, <2>2, <2>3 DEF Moves
  <2> QED BY <2>3, <2>4
<1>4. CASE NodeAnswers(s)
  <2> DEFINE complaints == Complaints(DrawTx(p), Head(p.due), p.fee, p.leader, p.delegate)
  <2>1. /\ p.pc = "submit" /\ UNCHANGED <<now, drawn>>
        /\ UNCHANGED <<files, configKeys, requests, faults>>
        /\ \/ \E c \in complaints :
                Update(s, [p EXCEPT !.pc = "reply", !.reply = c]) /\ UNCHANGED pool
           \/ /\ Update(s, [p EXCEPT !.pc = "reply", !.reply = "accepted"])
              /\ pool' = pool \cup {DrawTx(p)}
    BY <1>4 DEF NodeAnswers
  <2>2. complaints \subseteq answers
    BY DEF Complaints
  <2>3. "accepted" \notin answers
    OBVIOUS
  <2> HIDE DEF complaints
  <2>4. CASE \E c \in complaints :
                Update(s, [p EXCEPT !.pc = "reply", !.reply = c]) /\ UNCHANGED pool
    <3>1. PICK c \in complaints :
                Update(s, [p EXCEPT !.pc = "reply", !.reply = c]) /\ UNCHANGED pool
      BY <2>4
    <3>2. c \in answers /\ c # "accepted"
      BY <2>2, <2>3
    <3>3. Taken' = Taken
      BY <2>1, <3>1 DEF Taken
    <3>4. Submits(s, c)
      BY <2>1, <3>1, <3>2, <3>3 DEF Submits
    <3> QED BY <3>2, <3>4
  <2>5. CASE /\ Update(s, [p EXCEPT !.pc = "reply", !.reply = "accepted"])
             /\ pool' = pool \cup {DrawTx(p)}
    <3>1. Taken' = Taken \cup {DrawTx(p)}
      BY <2>1, <2>5 DEF Taken
    <3>2. Submits(s, "accepted")
      BY <2>1, <2>5, <3>1 DEF Submits
    <3> QED BY <3>2
  <2> QED BY <2>1, <2>4, <2>5
<1>5. CASE AnswerLost(s)
  <2>1. /\ "lost" \in Faults /\ p.pc = "submit"
        /\ Update(s, [p EXCEPT !.pc = "reply", !.reply = "rejected"])
        /\ UNCHANGED <<now, files, configKeys, requests>>
    BY <1>5 DEF AnswerLost, Fault
  <2>2. Submits(s, "rejected")
    BY <1>5, <2>1, AnswerLostKeeps DEF Submits
  <2> QED BY <2>2
<1>6. CASE RecordDraw(s)
  <2>1. Settles(s, Record(DrawTx(p)))
    BY <1>6 DEF RecordDraw, Settles
  <2>2. DrawTx(p) \in Draws
    BY <1>0, <1>6 DEF CallOK, RecordDraw
  <2>3. Record(DrawTx(p)) \in Settlements
    BY <2>2 DEF Record, Settlements
  <2> QED BY <2>1, <2>3
<1>7. CASE RpcFails(s)
  <2>1. /\ p.pc \in {"utxos", "block"} /\ Update(s, AfterDay(p))
        /\ UNCHANGED <<nodeVars, files, configKeys, requests>>
    BY <1>7 DEF RpcFails
  <2>2. AfterDay(p) \in Calls /\ AfterDay(p).pc # "reply"
    BY <1>0, <2>1, NextDay
  <2>3. Moves(s, AfterDay(p))
    BY <2>1, <2>2 DEF Moves
  <2> QED BY <2>2, <2>3
<1>8. CASE NotFinalized(s) \/ RaiseFee(s) \/ RaiseBudget(s) \/ WrongWinner(s)
  <2>1. /\ p.pc = "reply" /\ p.reply # "accepted"
        /\ \E q \in Calls :
             /\ CallOK(q, DOMAIN files, Taken) /\ Continue(s, p.reply, q)
             /\ q = AfterDay(p) \/ (q.pc = "submit" /\ q.due = p.due)
    BY <1>8, RetryMoves
  <2>2. PICK q \in Calls :
             /\ Continue(s, p.reply, q)
             /\ q = AfterDay(p) \/ (q.pc = "submit" /\ q.due = p.due)
    BY <2>1
  <2>3. q.pc # "reply"
    BY <1>0, <2>1, <2>2, NextDay
  <2>4. Moves(s, q)
    BY <2>1, <2>2, <2>3 DEF Moves, Continue
  <2> QED BY <2>4
<1> QED BY <1>1, <1>2, <1>3, <1>4, <1>5, <1>6, <1>7, <1>8

\* Every step is of one of these kinds.
LEMMA StepKinds ==
  ASSUME Shape, [Next]_vars
  PROVE  \/ \E r \in Requests \cup Heartbeats : Begins(r)
         \/ \E r \in Requests \cup Heartbeats : FinishRequest(r)
         \/ \E s \in Settlers : \E m \in Settlements : Settles(s, m)
         \/ \E s \in Settlers : \E c \in {"accepted", "notFinalized", "feeTooLow",
                "leaderBudget", "delegateBudget", "rejected"} : Submits(s, c)
         \/ \E s \in Settlers : \E q \in Calls : Moves(s, q)
         \/ Elsewhere \/ Tick \/ Restart
<1>1. RequestsShape
  BY DEF Shape
<1>2. ASSUME NEW r \in Requests, Enter(r) PROVE Begins(r)
  <2>1. DayWithPinnedKeys(CloseTimeForNow).keys \in SUBSET KeyPairs
    BY CloseTimes, PinnedDay, OneKeyPair DEF Shape
  <2> QED BY <1>2, <2>1 DEF Enter, Begins
<1>3. ASSUME NEW r \in Heartbeats, Heartbeat(r) PROVE Begins(r)
  <2>1. {configKeys} \in SUBSET KeyPairs
    BY DEF Shape, FilesShape
  <2> QED BY <1>3, <2>1 DEF Heartbeat, Begins
<1>4. ASSUME PayEntry PROVE Elsewhere
  BY <1>4 DEF PayEntry, Deposit, Elsewhere, serviceVars, Taken
<1>5. ASSUME Node PROVE Elsewhere
  <2>1. Taken' = Taken
    BY <1>5 DEF Node, MedianStep, Confirm, TakeBack, Taken
  <2>2. UNCHANGED <<now, files, configKeys, requests, settlers>>
    BY <1>5 DEF Node, MedianStep, Confirm, TakeBack, serviceVars
  <2> QED BY <2>1, <2>2 DEF Elsewhere
<1>6. ASSUME UNCHANGED vars PROVE Elsewhere
  BY <1>6 DEF vars, nodeVars, serviceVars, Elsewhere, Taken
<1> QED BY <1>1, <1>2, <1>3, <1>4, <1>5, <1>6, StepCases, CallSteps, Zenon

-----------------------------------------------------------------------------
(* What these kinds of steps do to the day files and to the due days.         *)

\* The files there were are the same, and new ones have nobody and no record.
OnlyOpened ==
  /\ \A c \in DOMAIN files : c \in DOMAIN files' /\ files'[c] = files[c]
  /\ \A c \in DOMAIN files' \ DOMAIN files :
       files'[c].entrants = {} /\ files'[c].settlement = NoRecord

\* A request that begins leaves the day files alone, but for opening its day.
LEMMA BeginOpens ==
  ASSUME Shape, NEW r \in Requests \cup Heartbeats, Begins(r)
  PROVE  /\ OnlyOpened /\ UNCHANGED <<now, medianTime, configKeys, settlers>> /\ Taken' = Taken
         /\ CloseTimeForNow \in DOMAIN files'
         /\ \E q \in ActiveRequests :
              /\ requests' = [requests EXCEPT ![r] = q]
              /\ q.pc = "cli" /\ q.day.close = CloseTimeForNow
              /\ q.address.close = CloseTimeForNow
              /\ \/ q.address.keys = files'[CloseTimeForNow].keys
                 \/ Heartbeats # {} /\ q.address.keys = {configKeys}
<1> DEFINE close == CloseTimeForNow
           d == DayWithPinnedKeys(close)
<1>1. FilesShape /\ close \in Nat
  BY CloseTimes DEF Shape
<1>2. /\ d \in OpenDays /\ d.close = close
      /\ close \in DOMAIN files => d = files[close]
      /\ close \notin DOMAIN files => d.entrants = {} /\ d.settlement = NoRecord
  <2> HIDE DEF close
  <2> QED BY <1>1, PinnedDay
<1>3. PICK pk \in Pubkeys \cup HeartbeatPubkeys, keys \in SUBSET KeyPairs :
         /\ BeginRequest(r, pk, d, keys)
         /\ keys = d.keys \/ (Heartbeats # {} /\ keys = {configKeys})
  BY DEF Begins
<1> HIDE DEF d, close
<1>4. /\ files' = WithDay(d) /\ UNCHANGED <<nodeVars, configKeys, settlers, faults>>
      /\ requests' = [requests EXCEPT ![r] =
           [pc |-> "cli", day |-> d,
            address |-> [close |-> d.close, keys |-> keys, pubkey |-> pk]]]
  BY <1>3 DEF BeginRequest
<1>5. /\ DOMAIN files' = DOMAIN files \cup {close} /\ files'[close] = d
      /\ \A c \in DOMAIN files : c # close => files'[c] = files[c]
  BY <1>1, <1>2, <1>4, WithDayReplaces
<1>6. OnlyOpened
  BY <1>2, <1>5 DEF OnlyOpened
<1> DEFINE address == [close |-> close, keys |-> keys, pubkey |-> pk]
           q == [pc |-> "cli", day |-> d, address |-> address]
<1>7. address \in Addresses /\ address.close = close /\ address.keys = keys
  BY <1>1 DEF Addresses
<1>8. requests' = [requests EXCEPT ![r] = q]
  BY <1>2, <1>4
<1> HIDE DEF address
<1>9. q \in ActiveRequests /\ q.pc = "cli" /\ q.day = d /\ q.address = address
  BY <1>2, <1>7 DEF ActiveRequests
<1> HIDE DEF q
<1>10. UNCHANGED <<now, medianTime, configKeys, settlers>> /\ Taken' = Taken
  BY <1>4 DEF nodeVars, Taken
<1> QED BY <1>2, <1>3, <1>5, <1>6, <1>7, <1>8, <1>9, <1>10 DEF close

\* A request that is answered adds its caller to the day, if to anything.
LEMMA FinishAdds ==
  ASSUME Shape, NEW r \in Requests \cup Heartbeats, FinishRequest(r)
  PROVE  LET mine == requests[r].address IN
         /\ requests[r].pc = "cli" /\ mine.close \in DOMAIN files
         /\ DOMAIN files' = DOMAIN files
         /\ \A c \in DOMAIN files : c # mine.close => files'[c] = files[c]
         /\ files'[mine.close].settlement = files[mine.close].settlement
         /\ files'[mine.close].keys = files[mine.close].keys
         /\ files[mine.close].entrants \subseteq files'[mine.close].entrants
         /\ files'[mine.close].entrants \subseteq files[mine.close].entrants \cup {mine}
         /\ UNCHANGED <<now, configKeys, settlers>> /\ Taken' = Taken
         /\ \E a \in files'[mine.close].entrants :
              /\ a.close = mine.close
              /\ requests' = [requests EXCEPT ![r].pc = "answered", ![r].address = a]
<1> DEFINE mine == requests[r].address
           old  == files[mine.close]
           d    == AddEntrant(old, mine)
<1>1. /\ requests[r].pc = "cli" /\ mine \in Addresses /\ mine.close \in DOMAIN files
      /\ old \in OpenDays /\ old.close = mine.close
      /\ d \in OpenDays /\ d.close = mine.close
      /\ files' = WithDay(d)
      /\ \E a \in d.entrants :
           requests' = [requests EXCEPT ![r].pc = "answered", ![r].address = a]
  BY FinishedRequest DEF Shape
<1> HIDE DEF mine, old
<1>2. /\ d.keys = old.keys /\ d.settlement = old.settlement
      /\ old.entrants \subseteq d.entrants /\ d.entrants \subseteq old.entrants \cup {mine}
  BY <1>1, EntrantAdded
<1>3. \A a \in d.entrants : a.close = mine.close
  BY <1>1 DEF OpenDays
<1> HIDE DEF d
<1>4. /\ DOMAIN files' = DOMAIN files \cup {mine.close} /\ files'[mine.close] = d
      /\ \A c \in DOMAIN files : c # mine.close => files'[c] = files[c]
  BY <1>1, WithDayReplaces DEF Shape
<1>5. UNCHANGED <<now, configKeys, settlers>> /\ Taken' = Taken
  BY DEF FinishRequest, nodeVars, Taken
<1> QED BY <1>1, <1>2, <1>3, <1>4, <1>5 DEF mine, old

\* settleDay overwrites the file of the day at hand with its own copy.
LEMMA SettleSaves ==
  ASSUME Shape, NEW s \in Settlers, NEW m \in Settlements, Settles(s, m)
  PROVE  LET d == Head(settlers[s].due) IN
         /\ settlers[s].pc # "idle" /\ d = settlers[s].due[1] /\ 1 \in DOMAIN settlers[s].due
         /\ d.close \in DOMAIN files /\ DOMAIN files' = DOMAIN files
         /\ \A c \in DOMAIN files : c # d.close => files'[c] = files[c]
         /\ files'[d.close].settlement = m
         /\ files'[d.close].keys = d.keys /\ files'[d.close].entrants = d.entrants
         /\ settlers' = [settlers EXCEPT ![s] = AfterDay(settlers[s])]
         /\ UNCHANGED <<now, configKeys, requests>> /\ Taken' = Taken
<1> DEFINE p == settlers[s]
           d == Head(p.due)
           saved == [d EXCEPT !.settlement = m]
<1>1. /\ p.pc # "idle" /\ files' = WithDay(saved)
      /\ settlers' = [settlers EXCEPT ![s] = AfterDay(p)]
      /\ UNCHANGED <<nodeVars, configKeys, requests, faults>>
  BY DEF Settles, SaveSettlement, Update
<1>2. p \in Calls /\ CallOK(p, DOMAIN files, Taken)
  BY CallAtHand
<1>3. /\ d \in OpenDays /\ d.close \in DOMAIN files
      /\ d = p.due[1] /\ 1 \in DOMAIN p.due
  BY <1>1, <1>2, DayAtHand
<1> HIDE DEF p, d
<1>4. /\ saved \in OpenDays /\ saved.close = d.close /\ saved.settlement = m
      /\ saved.keys = d.keys /\ saved.entrants = d.entrants
  BY <1>3 DEF OpenDays, DayRecords
<1> HIDE DEF saved
<1>5. /\ DOMAIN files' = DOMAIN files \cup {d.close} /\ files'[d.close] = saved
      /\ \A c \in DOMAIN files : c # d.close => files'[c] = files[c]
  BY <1>1, <1>4, WithDayReplaces DEF Shape
<1>6. UNCHANGED <<now, configKeys, requests>> /\ Taken' = Taken
  BY <1>1 DEF nodeVars, Taken
<1> QED BY <1>1, <1>3, <1>4, <1>5, <1>6 DEF p, d

\* A day that a call works on after a step is one it worked on before, or one
\* that its start has just read from the files.
LEMMA DueSource ==
  ASSUME Shape, [Next]_vars, NEW s \in Settlers, NEW i \in DOMAIN settlers'[s].due
  PROVE  LET d == settlers'[s].due[i] IN
         \/ \E j \in DOMAIN settlers[s].due : d = settlers[s].due[j]
         \/ /\ UNCHANGED <<now, files>>
            /\ d.close \in DOMAIN files /\ d = files[d.close] /\ d \in Due
            /\ d.close <= now - DRAW_DELAY
<1> DEFINE old(u) == \E j \in DOMAIN settlers[u].due :
                       settlers'[u].due[i] = settlers[u].due[j]
<1>1. ASSUME NEW q, q = AfterDay(settlers[s]), settlers[s].pc # "idle", settlers'[s] = q
      PROVE  old(s)
  <2>1. i + 1 \in DOMAIN settlers[s].due /\ settlers'[s].due[i] = settlers[s].due[i + 1]
    BY <1>1, CallAtHand, NextDay
  <2> QED BY <2>1
<1>2. ASSUME settlers'[s].due = settlers[s].due PROVE old(s)
  BY <1>2
<1>3. settlers \in [Settlers -> Calls]
  BY DEF Shape, CallsShape
<1>4. CASE settlers' = settlers
  BY <1>2, <1>4
<1>5. ASSUME NEW u \in Settlers, NEW q, Update(u, q), u # s PROVE old(s)
  BY <1>2, <1>3, <1>5 DEF Update
<1>6. ASSUME NEW q, Update(s, q) PROVE settlers'[s] = q
  BY <1>3, <1>6 DEF Update
<1>7. CASE \E r \in Requests \cup Heartbeats : Begins(r)
  BY <1>4, <1>7, BeginOpens
<1>8. CASE \E r \in Requests \cup Heartbeats : FinishRequest(r)
  BY <1>4, <1>8, FinishAdds
<1>9. CASE \E u \in Settlers : \E m \in Settlements : Settles(u, m)
  <2>1. PICK u \in Settlers : \E m \in Settlements : Settles(u, m)
    BY <1>9
  <2>2. settlers[u].pc # "idle" /\ Update(u, AfterDay(settlers[u]))
    BY <2>1 DEF Settles
  <2> QED BY <1>1, <1>5, <1>6, <2>2
<1>10. CASE \E u \in Settlers : \E c \in {"accepted", "notFinalized", "feeTooLow",
               "leaderBudget", "delegateBudget", "rejected"} : Submits(u, c)
  <2>1. PICK u \in Settlers, c \in {"accepted", "notFinalized", "feeTooLow",
               "leaderBudget", "delegateBudget", "rejected"} : Submits(u, c)
    BY <1>10
  <2> DEFINE q == [settlers[u] EXCEPT !.pc = "reply", !.reply = c]
  <2>2. Update(u, q)
    BY <2>1 DEF Submits
  <2>3. q.due = settlers[u].due
    BY <1>3 DEF Calls
  <2> HIDE DEF q
  <2> QED BY <1>2, <1>5, <1>6, <2>2, <2>3
<1>11. CASE \E u \in Settlers : \E q \in Calls : Moves(u, q)
  <2>1. PICK u \in Settlers, q \in Calls : Moves(u, q)
    BY <1>11
  <2>2. Update(u, q) /\ UNCHANGED <<now, files>>
    BY <2>1 DEF Moves, nodeVars
  <2>3. CASE u = s
    <3>1. settlers'[s] = q
      BY <1>6, <2>2, <2>3
    <3>2. CASE q.due = ListUnsettledDays(now - DRAW_DELAY)
      <4>1. now - DRAW_DELAY \in Int
        BY NodeAssumption, ServiceAssumption DEF Shape, NodeShape
      <4>2. /\ q.due \in Seq(Due)
            /\ q.due[i].close \in DOMAIN files
            /\ q.due[i].close <= now - DRAW_DELAY
            /\ q.due[i] = files[q.due[i].close]
        BY <3>1, <3>2, <4>1, UnsettledDaysListed DEF Shape
      <4>3. q.due[i] \in Due
        BY <3>1, <4>2, ElementOfSeq, LenProperties
      <4> QED BY <2>2, <3>1, <4>2, <4>3
    <3> QED BY <1>1, <1>2, <2>1, <2>3, <3>1, <3>2 DEF Moves
  <2> QED BY <1>5, <2>2, <2>3
<1>12. CASE Elsewhere \/ Tick
  BY <1>4, <1>12 DEF Elsewhere, Tick, serviceVars
<1>13. CASE Restart
  <2>1. settlers'[s] = Idle
    BY <1>13 DEF Restart
  <2>2. DOMAIN settlers'[s].due = {}
    BY <2>1 DEF Idle
  <2> QED BY <2>2
<1> QED BY <1>7, <1>8, <1>9, <1>10, <1>11, <1>12, <1>13, StepKinds

-----------------------------------------------------------------------------
(* Records                                                                    *)

\* The node never forgets a draw it has taken.
LEMMA TakenGrows ==
  ASSUME Shape, [Next]_vars
  PROVE  Taken \subseteq Taken'
<1>1. ASSUME NEW s \in Settlers, NEW c, Submits(s, c) PROVE Taken \subseteq Taken'
  BY <1>1 DEF Submits
<1>2. ASSUME NEW s \in Settlers, NEW q, Moves(s, q) PROVE Taken' = Taken
  BY <1>2 DEF Moves, nodeVars, Taken
<1>3. Tick \/ Restart => Taken' = Taken
  BY DEF Tick, Restart, nodeVars, Taken
<1>4. Elsewhere => Taken' = Taken
  BY DEF Elsewhere
<1> QED BY <1>1, <1>2, <1>3, <1>4, StepKinds, BeginOpens, FinishAdds, SettleSaves

\* Outside settleDay no step changes what is on record for a day, and a file
\* that is opened has nothing on record.
LEMMA RecordsStay ==
  ASSUME Shape, [Next]_vars, ~ \E s \in Settlers : \E m \in Settlements : Settles(s, m)
  PROVE  /\ DOMAIN files \subseteq DOMAIN files'
         /\ \A c \in DOMAIN files : files'[c].settlement = files[c].settlement
         /\ \A c \in DOMAIN files' \ DOMAIN files : files'[c].settlement = NoRecord
<1> DEFINE goal == /\ DOMAIN files \subseteq DOMAIN files'
                   /\ \A c \in DOMAIN files : files'[c].settlement = files[c].settlement
                   /\ \A c \in DOMAIN files' \ DOMAIN files : files'[c].settlement = NoRecord
<1>1. ASSUME NEW r \in Requests \cup Heartbeats, Begins(r) PROVE goal
  BY <1>1, BeginOpens DEF OnlyOpened
<1>2. ASSUME NEW r \in Requests \cup Heartbeats, FinishRequest(r) PROVE goal
  BY <1>2, FinishAdds
<1>3. ASSUME UNCHANGED files PROVE goal
  BY <1>3
<1>4. ASSUME NEW s \in Settlers, NEW c, Submits(s, c) PROVE UNCHANGED files
  BY <1>4 DEF Submits
<1>5. ASSUME NEW s \in Settlers, NEW q, Moves(s, q) PROVE UNCHANGED files
  BY <1>5 DEF Moves
<1>6. Elsewhere \/ Tick \/ Restart => UNCHANGED files
  BY DEF Elsewhere, Tick, Restart, serviceVars
<1> HIDE DEF goal
<1>7. goal
  BY <1>1, <1>2, <1>3, <1>4, <1>5, <1>6, StepKinds
<1> QED BY <1>7 DEF goal

\* Records of draws are kept truthful by every step: settleDay writes down only
\* what the node has accepted.
LEMMA PaidStep ==
  ASSUME Shape, PaidAsRecorded, [Next]_vars
  PROVE  PaidAsRecorded'
<1>1. Taken \subseteq Taken'
  BY TakenGrows
<1>2. CASE ~ \E s \in Settlers : \E m \in Settlements : Settles(s, m)
  <2>1. /\ DOMAIN files \subseteq DOMAIN files'
        /\ \A c \in DOMAIN files : files'[c].settlement = files[c].settlement
        /\ \A c \in DOMAIN files' \ DOMAIN files : files'[c].settlement = NoRecord
    BY <1>2, RecordsStay
  <2> QED BY <1>1, <2>1 DEF PaidAsRecorded, NoRecord
<1>3. CASE \E s \in Settlers : \E m \in Settlements : Settles(s, m)
  <2>1. PICK s \in Settlers, m \in Settlements : Settles(s, m)
    BY <1>3
  <2> DEFINE close == Head(settlers[s].due).close
  <2>2. /\ DOMAIN files' = DOMAIN files
        /\ \A c \in DOMAIN files : c # close => files'[c] = files[c]
        /\ files'[close].settlement = m
    BY <2>1, SettleSaves
  <2>3. m.kind = "draw" => m.tx \in Taken
    <3>1. CASE m = Empty
      BY <3>1 DEF Empty
    <3>2. CASE /\ settlers[s].pc = "reply" /\ settlers[s].reply = "accepted"
               /\ m = Record(DrawTx(settlers[s]))
      BY <3>2, CallAtHand DEF CallOK, Record
    <3> QED BY <2>1, <3>1, <3>2 DEF Settles
  <2> HIDE DEF close
  <2> QED BY <1>1, <2>2, <2>3 DEF PaidAsRecorded
<1> QED BY <1>2, <1>3

\* Whatever enters, pays, settles, fails, gets lost and restarts, and however many
\* calls of settleAllDue are under way (draw.js:177-191, server.js:137-156): a
\* draw that the history shows is one the node has taken, with that winner.
THEOREM RecordedDrawsHappened == Spec => []PaidAsRecorded
<1>1. Init => PaidAsRecorded
  BY DEF Init, PaidAsRecorded
<1>2. Shape /\ PaidAsRecorded /\ [Next]_vars => PaidAsRecorded'
  BY PaidStep
<1> QED BY <1>1, <1>2, ShapeInvariant, PTL DEF Spec

-----------------------------------------------------------------------------
(* Templates                                                                  *)

\* A step keeps the keys of a day, of its entrants and of its copies together.
LEMMA TemplateStep ==
  ASSUME Heartbeats = {} \/ (\A k, l \in KeyPairs : k = l),
         Shape, TemplatesAgree, [Next]_vars
  PROVE  TemplatesAgree'
<1> DEFINE keysKept == /\ DOMAIN files \subseteq DOMAIN files'
                       /\ \A c \in DOMAIN files : files'[c].keys = files[c].keys
<1>1. FilesShape /\ RequestsShape /\ CallsShape /\ FilesShape'
  BY ShapeStep DEF Shape
<1>2. ASSUME NEW s \in Settlers, NEW i \in DOMAIN settlers[s].due
      PROVE  /\ settlers[s].due[i].close \in DOMAIN files
             /\ settlers[s].due[i].keys = files[settlers[s].due[i].close].keys
             /\ OneTemplate(settlers[s].due[i])
  BY CallAtHand DEF CallOK, TemplatesAgree
<1>3. ASSUME NEW r \in Requests \cup Heartbeats, requests[r].pc = "cli"
      PROVE  /\ requests[r].address.close \in DOMAIN files
             /\ requests[r].address.keys = files[requests[r].address.close].keys
  BY <1>1, <1>3 DEF RequestsShape, TemplatesAgree
\* What a call works on has the keys of its file, whether read before or just now.
<1>4. ASSUME keysKept
      PROVE  \A s \in Settlers : \A i \in DOMAIN settlers'[s].due :
               LET d == settlers'[s].due[i]
               IN  d.keys = files'[d.close].keys /\ OneTemplate(d)
  <2> SUFFICES ASSUME NEW s \in Settlers, NEW i \in DOMAIN settlers'[s].due
               PROVE  LET d == settlers'[s].due[i]
                      IN  d.keys = files'[d.close].keys /\ OneTemplate(d)
    OBVIOUS
  <2> DEFINE d == settlers'[s].due[i]
  <2>1. CASE \E j \in DOMAIN settlers[s].due : d = settlers[s].due[j]
    BY <1>2, <1>4, <2>1
  <2>2. CASE UNCHANGED files /\ d.close \in DOMAIN files /\ d = files[d.close]
    BY <2>2 DEF TemplatesAgree
  <2> QED BY <2>1, <2>2, DueSource
<1>5. CASE \E r \in Requests \cup Heartbeats : Begins(r)
  <2>1. PICK r \in Requests \cup Heartbeats : Begins(r)
    BY <1>5
  <2> DEFINE close == CloseTimeForNow
  <2>2. PICK q \in ActiveRequests :
           /\ OnlyOpened /\ UNCHANGED configKeys /\ close \in DOMAIN files'
           /\ requests' = [requests EXCEPT ![r] = q] /\ q.address.close = close
           /\ \/ q.address.keys = files'[close].keys
              \/ Heartbeats # {} /\ q.address.keys = {configKeys}
    BY <2>1, BeginOpens
  <2> HIDE DEF close
  <2>3. q.address.keys = files'[close].keys
    <3>1. CASE Heartbeats # {} /\ q.address.keys = {configKeys}
      <4>1. PICK k \in KeyPairs : files'[close].keys = {k}
        BY <1>1, <2>2 DEF FilesShape, OpenDays, DayRecords
      <4> QED BY <1>1, <3>1, <4>1 DEF FilesShape
    <3> QED BY <2>2, <3>1
  <2>4. keysKept /\ \A c \in DOMAIN files' : OneTemplate(files'[c])
    BY <2>2 DEF OnlyOpened, OneTemplate, TemplatesAgree
  <2>5. ASSUME NEW u \in Requests \cup Heartbeats, requests'[u].pc = "cli"
        PROVE  requests'[u].address.keys = files'[requests'[u].address.close].keys
    <3>1. CASE u = r
      BY <1>1, <2>2, <2>3, <3>1 DEF RequestsShape
    <3>2. CASE u # r
      <4>1. requests'[u] = requests[u]
        BY <1>1, <2>2, <3>2 DEF RequestsShape
      <4> QED BY <1>3, <2>4, <2>5, <4>1
    <3> QED BY <3>1, <3>2
  <2> QED BY <1>4, <2>4, <2>5 DEF TemplatesAgree
<1>6. CASE \E r \in Requests \cup Heartbeats : FinishRequest(r)
  <2>1. PICK r \in Requests \cup Heartbeats : FinishRequest(r)
    BY <1>6
  <2> DEFINE mine == requests[r].address
  <2>2. /\ requests[r].pc = "cli" /\ mine.close \in DOMAIN files
        /\ DOMAIN files' = DOMAIN files
        /\ \A c \in DOMAIN files : c # mine.close => files'[c] = files[c]
        /\ files'[mine.close].keys = files[mine.close].keys
        /\ files'[mine.close].entrants \subseteq files[mine.close].entrants \cup {mine}
    BY <2>1, FinishAdds
  <2>3. keysKept
    BY <2>2
  <2>4. mine.keys = files[mine.close].keys
    BY <1>3, <2>2
  <2>5. ASSUME NEW c \in DOMAIN files' PROVE OneTemplate(files'[c])
    <3> HIDE DEF mine
    <3> QED BY <2>2, <2>4 DEF OneTemplate, TemplatesAgree
  <2>6. ASSUME NEW u \in Requests \cup Heartbeats, requests'[u].pc = "cli"
        PROVE  requests'[u] = requests[u]
    BY <1>1, <2>1, <2>6 DEF FinishRequest, RequestsShape, NewRequest, ActiveRequests
  <2> QED BY <1>3, <1>4, <2>3, <2>5, <2>6 DEF TemplatesAgree
<1>7. CASE \E s \in Settlers : \E m \in Settlements : Settles(s, m)
  <2>1. PICK s \in Settlers, m \in Settlements : Settles(s, m)
    BY <1>7
  <2> DEFINE d == Head(settlers[s].due)
  <2>2. /\ d = settlers[s].due[1] /\ 1 \in DOMAIN settlers[s].due
        /\ DOMAIN files' = DOMAIN files /\ UNCHANGED requests
        /\ \A c \in DOMAIN files : c # d.close => files'[c] = files[c]
        /\ files'[d.close].keys = d.keys /\ files'[d.close].entrants = d.entrants
    BY <2>1, SettleSaves
  <2>3. d.keys = files[d.close].keys /\ OneTemplate(d)
    BY <1>2, <2>2
  <2> HIDE DEF d
  <2>4. keysKept
    BY <2>2, <2>3
  <2>5. ASSUME NEW c \in DOMAIN files' PROVE OneTemplate(files'[c])
    <3>1. CASE c = d.close
      BY <2>2, <2>3, <3>1 DEF OneTemplate
    <3>2. CASE c # d.close
      BY <2>2, <3>2 DEF TemplatesAgree
    <3> QED BY <3>1, <3>2
  <2> QED BY <1>3, <1>4, <2>2, <2>4, <2>5 DEF TemplatesAgree
<1>8. ASSUME UNCHANGED files,
             \A u \in Requests \cup Heartbeats :
               requests'[u].pc = "cli" => requests'[u] = requests[u]
      PROVE  TemplatesAgree'
  <2>1. keysKept
    BY <1>8
  <2> QED BY <1>4, <1>8, <2>1 DEF TemplatesAgree
<1>9. ASSUME NEW s \in Settlers, NEW c, Submits(s, c) PROVE UNCHANGED <<files, requests>>
  BY <1>9 DEF Submits
<1>10. ASSUME NEW s \in Settlers, NEW q, Moves(s, q) PROVE UNCHANGED <<files, requests>>
  BY <1>10 DEF Moves
<1>11. Elsewhere \/ Tick => UNCHANGED <<files, requests>>
  BY DEF Elsewhere, Tick, serviceVars
<1>12. CASE Restart
  <2>1. ASSUME NEW u \in Requests \cup Heartbeats, requests'[u].pc = "cli"
        PROVE  requests'[u] = requests[u]
    BY <1>1, <1>12, <2>1 DEF Restart, RequestsShape, NewRequest
  <2>2. UNCHANGED files
    BY <1>12 DEF Restart
  <2> QED BY <1>8, <2>1, <2>2
<1>13. UNCHANGED <<files, requests>> => TemplatesAgree'
  BY <1>8
<1> QED BY <1>5, <1>6, <1>7, <1>9, <1>10, <1>11, <1>12, <1>13, StepKinds

\* Once pinned, a later change of the configured keys does not reach the entries
\* of a day (registry.js:28-31), unless the heartbeat, which compiles with the
\* running keys, meets changed ones: all entries of a day share one template,
\* through concurrent requests, settlements, failures and restarts.
THEOREM DaysKeepTheirTemplate ==
  ASSUME Heartbeats = {} \/ (\A k, l \in KeyPairs : k = l)
  PROVE  Spec => []OneTemplatePerDay
<1>1. Init => TemplatesAgree
  BY DEF Init, TemplatesAgree, Idle, NewRequest
<1>2. Shape /\ TemplatesAgree /\ [Next]_vars => TemplatesAgree'
  BY TemplateStep
<1>3. TemplatesAgree => OneTemplatePerDay
  BY DEF TemplatesAgree, OneTemplatePerDay, OneTemplate
<1> QED BY <1>1, <1>2, <1>3, ShapeInvariant, PTL DEF Spec

-----------------------------------------------------------------------------
(* Entrants                                                                   *)

\* A step that loses no entrant keeps the lists that calls work on, and whoever
\* was answered, in line with the files.
LEMMA ListsKept ==
  ASSUME Shape, EntrantsListed, [Next]_vars,
         now <= now', now' \in Nat,
         DOMAIN files \subseteq DOMAIN files',
         \A c \in DOMAIN files : c + DRAW_DELAY <= now => files'[c].entrants = files[c].entrants,
         \A c \in DOMAIN files : files[c].entrants \subseteq files'[c].entrants,
         \A u \in Requests \cup Heartbeats :
           \/ requests'[u] = requests[u] \/ requests'[u].pc = "free"
           \/ /\ requests'[u].pc = "answered"
              /\ requests'[u].address \in files'[requests'[u].address.close].entrants
           \/ /\ requests'[u].pc = "cli"
              /\ requests'[u].day.close = requests'[u].address.close
              /\ now' <= requests'[u].address.close + RequestOverrun,
         now' # now => \A u \in Requests \cup Heartbeats : requests[u].pc = "cli" =>
                          now' <= requests[u].address.close + RequestOverrun
  PROVE  EntrantsListed'
<1>1. ASSUME NEW s \in Settlers, NEW i \in DOMAIN settlers'[s].due
      PROVE  LET d == settlers'[s].due[i]
             IN  d.close + DRAW_DELAY <= now' /\ d.entrants = files'[d.close].entrants
  <2> DEFINE d == settlers'[s].due[i]
  <2>0. now \in Nat /\ DRAW_DELAY \in Nat
    BY NodeAssumption, ServiceAssumption DEF Shape, NodeShape
  <2>1. CASE \E j \in DOMAIN settlers[s].due : d = settlers[s].due[j]
    <3>1. PICK j \in DOMAIN settlers[s].due : d = settlers[s].due[j]
      BY <2>1
    <3>2. d.close \in DOMAIN files /\ d.close \in Nat
      BY <3>1, CallAtHand DEF CallOK, Shape, FilesShape
    <3>3. d.close + DRAW_DELAY <= now /\ d.entrants = files[d.close].entrants
      BY <3>1 DEF EntrantsListed
    <3> HIDE DEF d
    <3>4. d.close + DRAW_DELAY <= now'
      BY <2>0, <3>2, <3>3
    <3> QED BY <3>2, <3>3, <3>4 DEF d
  <2>2. CASE /\ UNCHANGED <<now, files>>
             /\ d.close \in DOMAIN files /\ d = files[d.close]
             /\ d.close <= now - DRAW_DELAY
    <3>1. d.close \in Nat
      BY <2>2 DEF Shape, FilesShape
    <3> HIDE DEF d
    <3>2. d.close + DRAW_DELAY <= now'
      BY <2>0, <2>2, <3>1
    <3> QED BY <2>2, <3>2 DEF d
  <2> QED BY <2>1, <2>2, DueSource
<1>2. ASSUME NEW u \in Requests \cup Heartbeats, requests'[u].pc = "answered"
      PROVE  requests'[u].address \in files'[requests'[u].address.close].entrants
  <2>1. CASE requests'[u] = requests[u]
    <3>1. requests[u].address.close \in DOMAIN files
      BY <1>2, <2>1 DEF Shape, RequestsShape
    <3>2. requests[u].address \in files[requests[u].address.close].entrants
      BY <1>2, <2>1 DEF EntrantsListed
    <3> QED BY <2>1, <3>1, <3>2
  <2> QED BY <1>2, <2>1
<1>3. ASSUME NEW u \in Requests \cup Heartbeats, requests'[u].pc = "cli"
      PROVE  /\ requests'[u].day.close = requests'[u].address.close
             /\ now' <= requests'[u].address.close + RequestOverrun
  <2>1. CASE requests'[u] = requests[u]
    BY <1>3, <2>1 DEF EntrantsListed
  <2> QED BY <1>3, <2>1
<1> QED BY <1>1, <1>2, <1>3 DEF EntrantsListed

\* A request that ends before its day becomes due adds to a day that no call of
\* settleAllDue has read yet.
LEMMA EntrantStep ==
  ASSUME RequestOverrun < DRAW_DELAY, Shape, EntrantsListed, [Next]_vars
  PROVE  EntrantsListed'
<1>1. /\ now \in Nat /\ DRAW_DELAY \in Nat /\ RequestOverrun \in Nat
      /\ FilesShape /\ RequestsShape
      /\ \A c \in DOMAIN files : c \in Nat
  BY NodeAssumption, ServiceAssumption DEF Shape, NodeShape, FilesShape
<1>2. CASE \E r \in Requests \cup Heartbeats : Begins(r)
  <2>1. PICK r \in Requests \cup Heartbeats : Begins(r)
    BY <1>2
  <2> DEFINE close == CloseTimeForNow
  <2>2. PICK q \in ActiveRequests :
           /\ OnlyOpened /\ UNCHANGED now
           /\ requests' = [requests EXCEPT ![r] = q]
           /\ q.pc = "cli" /\ q.day.close = close /\ q.address.close = close
    BY <2>1, BeginOpens
  <2>3. close \in Nat /\ now < close
    BY CloseTimes DEF Shape
  <2> HIDE DEF close
  <2>4. now' <= close + RequestOverrun
    BY <1>1, <2>2, <2>3
  <2>5. ASSUME NEW u \in Requests \cup Heartbeats
        PROVE  \/ requests'[u] = requests[u]
               \/ /\ requests'[u].pc = "cli"
                  /\ requests'[u].day.close = requests'[u].address.close
                  /\ now' <= requests'[u].address.close + RequestOverrun
    BY <1>1, <2>2, <2>4 DEF RequestsShape
  <2>6. /\ now <= now' /\ now' \in Nat /\ DOMAIN files \subseteq DOMAIN files'
        /\ \A c \in DOMAIN files : files'[c].entrants = files[c].entrants
    BY <1>1, <2>2 DEF OnlyOpened
  <2> QED BY <2>2, <2>5, <2>6, ListsKept
<1>3. CASE \E r \in Requests \cup Heartbeats : FinishRequest(r)
  <2>1. PICK r \in Requests \cup Heartbeats : FinishRequest(r)
    BY <1>3
  <2> DEFINE mine == requests[r].address
  <2>2. PICK a \in files'[mine.close].entrants :
           /\ requests[r].pc = "cli" /\ mine.close \in DOMAIN files
           /\ DOMAIN files' = DOMAIN files
           /\ \A c \in DOMAIN files : c # mine.close => files'[c] = files[c]
           /\ files[mine.close].entrants \subseteq files'[mine.close].entrants
           /\ UNCHANGED now /\ a.close = mine.close
           /\ requests' = [requests EXCEPT ![r].pc = "answered", ![r].address = a]
    BY <2>1, FinishAdds
  <2>3. now <= mine.close + RequestOverrun
    BY <2>2 DEF EntrantsListed
  <2>4. requests[r] \in ActiveRequests
    BY <1>1, <2>2 DEF RequestsShape, NewRequest
  <2>5. requests'[r].pc = "answered" /\ requests'[r].address = a
    BY <1>1, <2>2, <2>4 DEF RequestsShape, ActiveRequests
  <2> HIDE DEF mine
  <2>6. ~ (mine.close + DRAW_DELAY <= now)
    BY <1>1, <2>2, <2>3
  <2>7. ASSUME NEW c \in DOMAIN files
        PROVE  /\ files[c].entrants \subseteq files'[c].entrants
               /\ c + DRAW_DELAY <= now => files'[c].entrants = files[c].entrants
    BY <2>2, <2>6
  <2>8. ASSUME NEW u \in Requests \cup Heartbeats
        PROVE  \/ requests'[u] = requests[u]
               \/ /\ requests'[u].pc = "answered"
                  /\ requests'[u].address \in files'[requests'[u].address.close].entrants
    <3>1. CASE u = r
      BY <2>2, <2>5, <3>1
    <3>2. CASE u # r
      BY <1>1, <2>2, <3>2 DEF RequestsShape
    <3> QED BY <3>1, <3>2
  <2>9. now <= now' /\ now' \in Nat /\ DOMAIN files \subseteq DOMAIN files' /\ now' = now
    BY <1>1, <2>2
  <2> QED BY <2>7, <2>8, <2>9, ListsKept
<1>4. CASE \E s \in Settlers : \E m \in Settlements : Settles(s, m)
  <2>1. PICK s \in Settlers, m \in Settlements : Settles(s, m)
    BY <1>4
  <2> DEFINE d == Head(settlers[s].due)
  <2>2. /\ d = settlers[s].due[1] /\ 1 \in DOMAIN settlers[s].due
        /\ DOMAIN files' = DOMAIN files /\ UNCHANGED <<now, requests>>
        /\ \A c \in DOMAIN files : c # d.close => files'[c] = files[c]
        /\ files'[d.close].entrants = d.entrants
    BY <2>1, SettleSaves
  <2>3. d.entrants = files[d.close].entrants
    BY <2>2 DEF EntrantsListed
  <2> HIDE DEF d
  <2>4. \A c \in DOMAIN files : files'[c].entrants = files[c].entrants
    BY <2>2, <2>3
  <2>5. now <= now' /\ now' \in Nat /\ now' = now
    BY <1>1, <2>2
  <2> QED BY <2>2, <2>4, <2>5, ListsKept
<1>5. ASSUME UNCHANGED <<now, files>>,
             \A u \in Requests \cup Heartbeats :
               requests'[u] = requests[u] \/ requests'[u].pc = "free"
      PROVE  EntrantsListed'
  <2>1. now <= now' /\ now' \in Nat /\ now' = now
    BY <1>1, <1>5
  <2> QED BY <1>5, <2>1, ListsKept
<1>6. ASSUME NEW s \in Settlers, NEW c, Submits(s, c) PROVE UNCHANGED <<now, files, requests>>
  BY <1>6 DEF Submits
<1>7. ASSUME NEW s \in Settlers, NEW q, Moves(s, q) PROVE UNCHANGED <<now, files, requests>>
  BY <1>7 DEF Moves, nodeVars
<1>8. Elsewhere => UNCHANGED <<now, files, requests>>
  BY DEF Elsewhere
<1>9. UNCHANGED <<now, files, requests>> => EntrantsListed'
  BY <1>5
<1>10. CASE Tick
  <2>1. /\ now' = now + 1 /\ UNCHANGED <<files, requests>> /\ DOMAIN requests = Requests \cup Heartbeats
        /\ \A u \in DOMAIN requests :
             requests[u].pc = "cli" => now < requests[u].day.close + RequestOverrun
    BY <1>1, <1>10 DEF Tick, serviceVars, RequestsShape
  <2>2. ASSUME NEW u \in Requests \cup Heartbeats, requests[u].pc = "cli"
        PROVE  now' <= requests[u].address.close + RequestOverrun
    <3>1. requests[u].day.close = requests[u].address.close
      BY <2>2 DEF EntrantsListed
    <3>2. requests[u].address.close \in Nat
      BY <1>1, <2>2 DEF RequestsShape
    <3> QED BY <1>1, <2>1, <2>2, <3>1, <3>2
  <2>3. now <= now' /\ now' \in Nat
    BY <1>1, <2>1
  <2> QED BY <2>1, <2>2, <2>3, ListsKept
<1>11. CASE Restart
  <2>1. ASSUME NEW u \in Requests \cup Heartbeats
        PROVE  requests'[u] = requests[u] \/ requests'[u].pc = "free"
    BY <1>1, <1>11 DEF Restart, RequestsShape, NewRequest
  <2>2. UNCHANGED <<now, files>>
    BY <1>11 DEF Restart, nodeVars
  <2> QED BY <1>5, <2>1, <2>2
<1> QED BY <1>2, <1>3, <1>4, <1>6, <1>7, <1>8, <1>9, <1>10, <1>11, StepKinds

\* Whoever was given an entry address is in the day's file for good
\* (registry.js:46-59), whichever handlers and settlements rewrite that file, if
\* a call ends before its day becomes due (DRAW_DELAY after the close): a request
\* that lasts longer may be written over by settleDay's copy.
THEOREM AnsweredEntrantsAreKept ==
  ASSUME RequestOverrun < DRAW_DELAY
  PROVE  Spec => []EntrantsKept
<1>1. Init => EntrantsListed
  BY DEF Init, EntrantsListed, Idle, NewRequest
<1>2. Shape /\ EntrantsListed /\ [Next]_vars => EntrantsListed'
  BY EntrantStep
<1>3. Shape /\ EntrantsListed => EntrantsKept
  <2> SUFFICES ASSUME Shape, EntrantsListed, NEW r \in DOMAIN requests,
                      requests[r].pc = "answered"
               PROVE  requests[r].address \in LoadDay(requests[r].address.close).entrants
    BY DEF EntrantsKept
  <2>1. r \in Requests \cup Heartbeats /\ requests[r].address.close \in DOMAIN files
    BY DEF Shape, RequestsShape
  <2> QED BY <2>1 DEF EntrantsListed, LoadDay
<1> QED BY <1>1, <1>2, <1>3, ShapeInvariant, PTL DEF Spec

-----------------------------------------------------------------------------
(* One draw per day                                                           *)

\* With one call at a time, the call that a step updates is all there is.
LEMMA OneSettler ==
  ASSUME \A s, u \in Settlers : s = u, NEW s \in Settlers, NEW q, Update(s, q), Shape
  PROVE  settlers' = [u \in Settlers |-> q]
BY DEF Update, Shape, CallsShape

\* The days listed at the start of a call are different ones without a record.
LEMMA StartsUnsettled ==
  ASSUME Shape
  PROVE  LET due == ListUnsettledDays(now - DRAW_DELAY) IN
         /\ \A i \in DOMAIN due : files[due[i].close].settlement = NoRecord
         /\ \A i, j \in DOMAIN due : due[i].close = due[j].close => i = j
<1> DEFINE due == ListUnsettledDays(now - DRAW_DELAY)
<1>1. now - DRAW_DELAY \in Int
  BY NodeAssumption, ServiceAssumption DEF Shape, NodeShape
<1>2. /\ due \in Seq(Due)
      /\ \A i \in DOMAIN due : due[i] = files[due[i].close]
      /\ \A i, j \in DOMAIN due : due[i].close = due[j].close => i = j
  BY <1>1, UnsettledDaysListed DEF Shape
<1> HIDE DEF due
<1>3. \A i \in DOMAIN due : due[i] \in Due
  BY <1>2, ElementOfSeq, LenProperties
<1>4. \A i \in DOMAIN due : files[due[i].close].settlement = NoRecord
  BY <1>2, <1>3 DEF Due
<1> QED BY <1>2, <1>4 DEF due

\* A step of a lone call of settleAllDue, none of its answers lost and no crash,
\* keeps every draw on record or about to be.
LEMMA AccountStep ==
  ASSUME \A s, u \in Settlers : s = u, Faults \subseteq {"rpc"},
         Shape, DrawsAccountedFor, [Next]_vars
  PROVE  DrawsAccountedFor'
<1> DEFINE unsettled(due, f) ==
             /\ \A i \in DOMAIN due : f[due[i].close].settlement = NoRecord
             /\ \A i, j \in DOMAIN due : due[i].close = due[j].close => i = j
           recorded(tx, f) == tx.close \in DOMAIN f /\ f[tx.close].settlement = Record(tx)
<1>0. ASSUME NEW s \in Settlers
      PROVE  /\ unsettled(settlers[s].due, files)
             /\ \A i \in DOMAIN settlers[s].due : settlers[s].due[i].close \in DOMAIN files
  BY CallAtHand DEF CallOK, DrawsAccountedFor
\* Steps that write no record and leave the call and the node alone.
<1>1. ASSUME UNCHANGED settlers, Taken' = Taken,
             ~ \E s \in Settlers : \E m \in Settlements : Settles(s, m)
      PROVE  DrawsAccountedFor'
  <2>1. /\ DOMAIN files \subseteq DOMAIN files'
        /\ \A c \in DOMAIN files : files'[c].settlement = files[c].settlement
    BY <1>1, RecordsStay
  <2>2. ASSUME NEW tx \in Taken' PROVE recorded(tx, files') \/ InFlight(tx)'
    <3>1. recorded(tx, files) \/ InFlight(tx)
      BY <1>1 DEF DrawsAccountedFor
    <3>2. InFlight(tx) => InFlight(tx)'
      BY <1>1 DEF InFlight, DrawTx
    <3> QED BY <2>1, <3>1, <3>2
  <2>3. ASSUME NEW s \in Settlers PROVE unsettled(settlers'[s].due, files')
    BY <1>0, <1>1, <2>1
  <2> QED BY <2>2, <2>3 DEF DrawsAccountedFor
\* Steps of the call that leave the files alone.
<1>2. ASSUME NEW s \in Settlers, NEW q, Update(s, q), UNCHANGED files,
             unsettled(q.due, files),
             \A tx \in Taken' : \/ recorded(tx, files)
                                \/ q.pc = "reply" /\ q.reply = "accepted" /\ tx = DrawTx(q)
      PROVE  DrawsAccountedFor'
  <2>1. settlers' = [u \in Settlers |-> q]
    BY <1>2, OneSettler
  <2>2. ASSUME NEW tx \in Taken' PROVE recorded(tx, files') \/ InFlight(tx)'
    <3>1. CASE q.pc = "reply" /\ q.reply = "accepted" /\ tx = DrawTx(q)
      <4>1. InFlight(tx)'
        BY <2>1, <3>1 DEF InFlight, DrawTx
      <4> QED BY <4>1
    <3> QED BY <1>2, <3>1
  <2> QED BY <1>2, <2>1, <2>2 DEF DrawsAccountedFor
<1>3. CASE \E s \in Settlers : \E m \in Settlements : Settles(s, m)
  <2>1. PICK s \in Settlers, m \in Settlements : Settles(s, m)
    BY <1>3
  <2> DEFINE p == settlers[s]
             d == Head(p.due)
             q == AfterDay(p)
  <2>2. /\ p.pc # "idle" /\ d = p.due[1] /\ 1 \in DOMAIN p.due
        /\ d.close \in DOMAIN files /\ DOMAIN files' = DOMAIN files
        /\ \A c \in DOMAIN files : c # d.close => files'[c] = files[c]
        /\ files'[d.close].settlement = m /\ Taken' = Taken
    BY <2>1, SettleSaves
  <2>3. files[d.close].settlement = NoRecord
    BY <1>0, <2>2
  <2>4. settlers' = [u \in Settlers |-> q]
    BY <2>1, OneSettler DEF Settles
  <2>5. /\ p \in Calls /\ p.due \in Seq(Due)
        /\ \A i \in DOMAIN q.due : i + 1 \in DOMAIN p.due /\ q.due[i] = p.due[i + 1]
    BY <2>2, CallAtHand, NextDay DEF Calls
  <2>6. ASSUME NEW i \in DOMAIN q.due
        PROVE  i + 1 \in DOMAIN p.due /\ q.due[i] = p.due[i + 1] /\ i \in Nat \ {0}
    <3>1. q \in Calls /\ q.due \in Seq(Due)
      BY <2>2, CallAtHand, NextDay DEF Calls
    <3>2. i \in 1 .. Len(q.due) /\ Len(q.due) \in Nat
      BY <3>1, LenProperties
    <3> QED BY <2>5, <3>2
  <2>7. unsettled(q.due, files')
    <3>1. ASSUME NEW i \in DOMAIN q.due
          PROVE  q.due[i].close # d.close /\ files'[q.due[i].close].settlement = NoRecord
      <4>1. i + 1 # 1 /\ i + 1 \in DOMAIN p.due /\ q.due[i] = p.due[i + 1]
        BY <2>6
      <4>2. p.due[i + 1].close # d.close
        BY <1>0, <2>2, <4>1
      <4>3. p.due[i + 1].close \in DOMAIN files
            /\ files[p.due[i + 1].close].settlement = NoRecord
        BY <1>0, <4>1
      <4> QED BY <2>2, <4>1, <4>2, <4>3
    <3>2. ASSUME NEW i \in DOMAIN q.due, NEW j \in DOMAIN q.due,
                 q.due[i].close = q.due[j].close
          PROVE  i = j
      <4>1. i + 1 = j + 1
        BY <1>0, <2>6, <3>2
      <4> QED BY <2>6, <4>1
    <3> QED BY <3>1, <3>2
  <2>8. ASSUME NEW tx \in Taken PROVE recorded(tx, files')
    <3>1. CASE recorded(tx, files)
      <4>1. tx.close # d.close
        BY <2>3, <3>1 DEF Record, NoRecord
      <4> QED BY <2>2, <3>1, <4>1
    <3>2. CASE InFlight(tx)
      <4>1. p.pc = "reply" /\ p.reply = "accepted" /\ tx = DrawTx(p)
        BY <3>2 DEF InFlight
      <4>2. m = Record(tx) /\ tx.close = d.close
        BY <2>1, <4>1 DEF Settles, DrawTx
      <4> QED BY <2>2, <4>2
    <3> QED BY <3>1, <3>2 DEF DrawsAccountedFor
  <2> HIDE DEF q
  <2> QED BY <2>2, <2>4, <2>7, <2>8 DEF DrawsAccountedFor
<1>4. CASE \E s \in Settlers : \E c \in {"accepted", "notFinalized", "feeTooLow",
               "leaderBudget", "delegateBudget", "rejected"} : Submits(s, c)
  <2>1. PICK s \in Settlers, c \in {"accepted", "notFinalized", "feeTooLow",
               "leaderBudget", "delegateBudget", "rejected"} : Submits(s, c)
    BY <1>4
  <2> DEFINE p == settlers[s]
             q == [p EXCEPT !.pc = "reply", !.reply = c]
  <2>2. /\ p.pc = "submit" /\ Update(s, q) /\ UNCHANGED files
        /\ c = "accepted" => Taken' = Taken \cup {DrawTx(p)}
        /\ c # "accepted" => Taken' = Taken
    BY <2>1 DEF Submits
  <2>3. p \in Calls
    BY CallAtHand
  <2>4. /\ q.pc = "reply" /\ q.reply = c /\ q.due = p.due /\ q.entries = p.entries
        /\ q.block = p.block /\ q.candidate = p.candidate
    BY <2>3 DEF Calls
  <2>5. DrawTx(q) = DrawTx(p)
    BY <2>4 DEF DrawTx
  <2>6. ASSUME NEW tx \in Taken PROVE recorded(tx, files)
    <3>1. ~ InFlight(tx)
      BY <2>2 DEF InFlight
    <3> QED BY <3>1 DEF DrawsAccountedFor
  <2>7. unsettled(q.due, files)
    BY <1>0, <2>4
  <2> HIDE DEF q
  <2>8. \A tx \in Taken' : \/ recorded(tx, files)
                           \/ q.pc = "reply" /\ q.reply = "accepted" /\ tx = DrawTx(q)
    BY <2>2, <2>4, <2>5, <2>6
  <2> QED BY <1>2, <2>2, <2>7, <2>8
<1>5. CASE \E s \in Settlers : \E q \in Calls : Moves(s, q)
  <2>1. PICK s \in Settlers, q \in Calls : Moves(s, q)
    BY <1>5
  <2> DEFINE p == settlers[s]
  <2>2. /\ Update(s, q) /\ UNCHANGED <<nodeVars, files>>
        /\ ~ (p.pc = "reply" /\ p.reply = "accepted")
        /\ \/ q.due = ListUnsettledDays(now - DRAW_DELAY)
           \/ p.pc # "idle" /\ q = AfterDay(p)
           \/ q.due = p.due
    BY <2>1 DEF Moves
  <2>3. Taken' = Taken
    BY <2>2 DEF nodeVars, Taken
  <2>4. ASSUME NEW tx \in Taken' PROVE recorded(tx, files)
    <3>1. ~ InFlight(tx)
      BY <2>2 DEF InFlight
    <3> QED BY <2>3, <3>1 DEF DrawsAccountedFor
  <2>5. unsettled(q.due, files)
    <3>1. CASE q.due = ListUnsettledDays(now - DRAW_DELAY)
      BY <3>1, StartsUnsettled
    <3>2. CASE q.due = p.due
      BY <1>0, <3>2
    <3>3. CASE p.pc # "idle" /\ q = AfterDay(p)
      <4>1. ASSUME NEW i \in DOMAIN q.due
            PROVE  i + 1 \in DOMAIN p.due /\ q.due[i] = p.due[i + 1] /\ i \in Nat
        <5>1. i \in Nat
          BY LenProperties DEF Calls
        <5> QED BY <3>3, <5>1, CallAtHand, NextDay
      <4>2. ASSUME NEW i \in DOMAIN q.due, NEW j \in DOMAIN q.due,
                   q.due[i].close = q.due[j].close
            PROVE  i = j
        <5>1. i + 1 = j + 1
          BY <1>0, <4>1, <4>2
        <5> QED BY <4>1, <5>1
      <4> QED BY <1>0, <4>1, <4>2
    <3> QED BY <2>2, <3>1, <3>2, <3>3
  <2> QED BY <1>2, <2>2, <2>4, <2>5
<1>6. ~ Restart
  BY DEF Restart, Fault
<1>7. Elsewhere \/ Tick => UNCHANGED settlers /\ Taken' = Taken
  BY DEF Elsewhere, Tick, serviceVars, Taken
<1> QED BY <1>1, <1>3, <1>4, <1>5, <1>6, <1>7, StepKinds, BeginOpens, FinishAdds

\* A draw on record is no blank and no empty day, and it names one transaction.
LEMMA RecordsTell ==
  /\ NoRecord.kind = "none"
  /\ \A tx : Record(tx).kind = "draw" /\ Record(tx).tx = tx
BY DEF NoRecord, Record

\* What the account gives.
LEMMA AccountGives ==
  ASSUME \A s, u \in Settlers : s = u, Shape, DrawsAccountedFor
  PROVE  OneDrawPerDay /\ EmptyMeansNothingDrawn
<1>1. ASSUME NEW tx \in Taken, InFlight(tx)
      PROVE  files[tx.close].settlement = NoRecord
  <2>1. PICK s \in Settlers : settlers[s].pc = "reply" /\ tx = DrawTx(settlers[s])
    BY <1>1 DEF InFlight
  <2>2. /\ Head(settlers[s].due) = settlers[s].due[1] /\ 1 \in DOMAIN settlers[s].due
    BY <2>1, CallAtHand, DayAtHand
  <2> QED BY <2>1, <2>2 DEF DrawsAccountedFor, DrawTx
<1>2. ASSUME NEW tx \in Taken, ~ InFlight(tx)
      PROVE  files[tx.close].settlement = Record(tx)
  BY <1>2 DEF DrawsAccountedFor
<1>3. ASSUME NEW t \in Taken, NEW u \in Taken, t.close = u.close PROVE t = u
  <2>1. CASE InFlight(t) /\ InFlight(u)
    BY <2>1 DEF InFlight
  <2>2. CASE ~ InFlight(t) /\ ~ InFlight(u)
    BY <1>2, <1>3, <2>2, RecordsTell
  <2>3. ~ (InFlight(t) /\ ~ InFlight(u)) /\ ~ (InFlight(u) /\ ~ InFlight(t))
    <3>1. "none" # "draw"
      OBVIOUS
    <3> QED BY <1>1, <1>2, <1>3, <3>1, RecordsTell
  <2> QED BY <2>1, <2>2, <2>3
<1>4. ASSUME NEW tx \in Taken PROVE files[tx.close].settlement.kind # "empty"
  <2>1. "none" # "empty" /\ "draw" # "empty"
    OBVIOUS
  <2> QED BY <1>1, <1>2, <2>1, RecordsTell
<1> QED BY <1>3, <1>4 DEF OneDrawPerDay, EmptyMeansNothingDrawn

\* The account is kept in every state, if there is one call at a time.
LEMMA AccountInvariant ==
  ASSUME \A s, u \in Settlers : s = u, Faults \subseteq {"rpc"}
  PROVE  Spec => []DrawsAccountedFor
<1>1. Init => DrawsAccountedFor
  BY DEF Init, NodeInit, Taken, DrawsAccountedFor, Idle
<1>2. Shape /\ DrawsAccountedFor /\ [Next]_vars => DrawsAccountedFor'
  BY AccountStep
<1> QED BY <1>1, <1>2, ShapeInvariant, PTL DEF Spec

\* All the entries of a day play in one draw, however often reading from the node
\* fails and settleAllDue tries again (server.js:153-156): as long as calls of it
\* do not overlap, no answer to a submission is lost and the server is not
\* restarted between a submission and its record.
THEOREM DaysAreDrawnOnce ==
  ASSUME \A s, u \in Settlers : s = u, Faults \subseteq {"rpc"}
  PROVE  Spec => []OneDrawPerDay
<1>1. Shape /\ DrawsAccountedFor => OneDrawPerDay
  BY AccountGives
<1> QED BY <1>1, ShapeInvariant, AccountInvariant, PTL

\* Under the same assumptions a day on record as empty (draw.js:82-88) had no draw.
THEOREM EmptyDaysHadNoDraw ==
  ASSUME \A s, u \in Settlers : s = u, Faults \subseteq {"rpc"}
  PROVE  Spec => []EmptyMeansNothingDrawn
<1>1. Shape /\ DrawsAccountedFor => EmptyMeansNothingDrawn
  BY AccountGives
<1> QED BY <1>1, ShapeInvariant, AccountInvariant, PTL

\* Under the same assumptions settleAllDue is idempotent (server.js:153): no step
\* of it, and none of anyone else, changes the record of a settled day.
THEOREM SettledDaysStaySettled ==
  ASSUME \A s, u \in Settlers : s = u, Faults \subseteq {"rpc"}
  PROVE  Spec => SettlementIsFinal
<1> DEFINE final == \A c \in DOMAIN files : files[c].settlement # NoRecord
                      => files'[c].settlement = files[c].settlement
<1>1. ASSUME Shape, DrawsAccountedFor, [Next]_vars PROVE final
  <2>1. CASE ~ \E s \in Settlers : \E m \in Settlements : Settles(s, m)
    BY <1>1, <2>1, RecordsStay
  <2>2. CASE \E s \in Settlers : \E m \in Settlements : Settles(s, m)
    <3>1. PICK s \in Settlers, m \in Settlements : Settles(s, m)
      BY <2>2
    <3>2. LET d == Head(settlers[s].due) IN
          /\ d = settlers[s].due[1] /\ 1 \in DOMAIN settlers[s].due
          /\ \A c \in DOMAIN files : c # d.close => files'[c] = files[c]
      BY <1>1, <3>1, SettleSaves
    <3> QED BY <1>1, <3>2 DEF DrawsAccountedFor
  <2> QED BY <2>1, <2>2
<1>2. Shape /\ DrawsAccountedFor /\ [Next]_vars => [final]_vars
  BY <1>1
<1> HIDE DEF final
<1>3. Spec => [][final]_vars
  BY <1>2, ShapeInvariant, AccountInvariant, PTL DEF Spec
<1> QED BY <1>3 DEF SettlementIsFinal, final

=============================================================================
