------------------------------ MODULE DrawService ------------------------------
(* The draw service (backend/server.js, draw.js, registry.js, cli.js, config.js) *)
(* and the heartbeat entrant (scripts/heartbeat-entrant.js): handlers of one     *)
(* event loop, and of a second process, that share the day files and the node.   *)
(* A step runs from one await to the next.  raffle-cli is a pure function of its *)
(* arguments, so that its answer is only a delay.                                *)
EXTENDS KaspaNode, SortedLists

CONSTANTS Requests,           \* calls of POST /api/enter
          Heartbeats,         \* runs of the heartbeat script
          Settlers,           \* settleAllDue calls that may be under way at once:
                              \* firings of setInterval, and of /api/cron/draw
          Pubkeys,            \* entrants' payout keys
          HeartbeatPubkeys,   \* random keys of the heartbeat's entries
          KeyPairs,           \* (devPubkey, opsPubkey) pairs in the environment
          Blocks,             \* numbers the deep chain blocks' commitments yield
          DayLength, DRAW_DELAY, MAX_ENTRIES_PER_DRAW, MAX_ATTEMPTS,
          DRAW_FEE, FEE_CEILING,
          RequestOverrun,     \* assumption: ticks past its close a call may last
          Faults,             \* those enabled: "crash", "rpc", "lost"
          MaxFaults           \* bound: how many of them

\* The configuration starts a draw below the covenant's cap (config.js:46-50).
ASSUME ServiceAssumption ==
  /\ DayLength \in Nat \ {0} /\ DRAW_DELAY \in Nat /\ RequestOverrun \in Nat
  /\ MAX_ENTRIES_PER_DRAW \in Nat \ {0} /\ MAX_ATTEMPTS \in Nat \ {0}
  /\ DRAW_FEE \in Nat /\ FEE_CEILING \in Nat /\ DRAW_FEE <= FEE_CEILING
  /\ Blocks \subseteq Nat /\ MaxFaults \in Nat
  /\ \A n \in 1 .. MAX_ENTRIES_PER_DRAW : FeeNeeded[n] \in Nat /\ LeaderUsed[n] \in Nat

VARIABLES files,       \* day files: close time -> day
          configKeys,  \* the keys in the running configuration
          requests,    \* enter handlers and heartbeat runs
          settlers,    \* settleAllDue calls
          faults       \* faults so far

serviceVars == <<files, configKeys, requests, settlers, faults>>
vars == <<nodeVars, serviceVars>>

NoRecord == [kind |-> "none"]
Empty    == [kind |-> "empty"]
RecordFirst(tx) == [kind |-> "draw", tx |-> [tx EXCEPT !.winner = 1]]
Record(tx) == [kind |-> "draw", tx |-> tx]

Idle == [pc |-> "idle", due |-> << >>, entries |-> << >>, block |-> 0, candidate |-> 0,
         attempt |-> 0, fee |-> 0, leader |-> 0, delegate |-> 0, reply |-> "none"]

NewRequest == [pc |-> "free"]

Init ==
  /\ NodeInit
  /\ files = << >>
  /\ configKeys \in KeyPairs
  /\ requests = [r \in Requests \cup Heartbeats |-> NewRequest]
  /\ settlers = [s \in Settlers |-> Idle]
  /\ faults = 0

-----------------------------------------------------------------------------
(* registry.js *)

CloseTimeForNow == (now \div DayLength + 1) * DayLength

LoadDay(close) ==
  IF close \in DOMAIN files THEN files[close]
  ELSE [close |-> close, entrants |-> {}, keys |-> {}, settlement |-> NoRecord]

WithDay(day) ==
  [c \in DOMAIN files \cup {day.close} |-> IF c = day.close THEN day ELSE files[c]]

\* keys is {} until the day is first touched; one pair ever after.
DayWithLiveKeys(close) == [LoadDay(close) EXCEPT !.keys = {configKeys}]

DayWithPinnedKeys(close) ==
  LET day == LoadDay(close)
  IN  IF day.keys = {} THEN [day EXCEPT !.keys = {configKeys}] ELSE day

\* Adds an entrant's address unless its key is already there.
AddEntrant(day, address) ==
  IF \E a \in day.entrants : a.pubkey = address.pubkey THEN day
  ELSE [day EXCEPT !.entrants = @ \cup {address}]

ListClosedDays(t) ==
  LET order == Ascending({c \in DOMAIN files : c <= t})
  IN  [i \in DOMAIN order |-> files[order[i]]]

ListUnsettledDays(t) ==
  LET order == Ascending({c \in DOMAIN files : files[c].settlement = NoRecord /\ c <= t})
  IN  [i \in DOMAIN order |-> files[order[i]]]

-----------------------------------------------------------------------------
(* Enter handlers and the heartbeat *)

\* Up to the await of cli.entryAddress: the day is fixed and its keys pinned.
\* (Bound: only days that become due before the clock stops.)
BeginRequest(r, pubkey, day, keys) ==
  /\ requests[r].pc = "free"
  /\ day.close + DRAW_DELAY <= MaxTime
  /\ files' = WithDay(day)
  /\ requests' = [requests EXCEPT ![r] =
       [pc |-> "cli", day |-> day,
        address |-> [close |-> day.close, keys |-> keys, pubkey |-> pubkey]]]
  /\ UNCHANGED <<nodeVars, configKeys, settlers, faults>>

Enter(r) ==
  LET day == DayWithPinnedKeys(CloseTimeForNow)
  IN  \E p \in Pubkeys : BeginRequest(r, p, day, day.keys)

\* The heartbeat compiles its entries with the live keys, and only once a day.
Heartbeat(r) ==
  LET day == DayWithPinnedKeys(CloseTimeForNow)
  IN  /\ ~\E a \in day.entrants : a.pubkey \in HeartbeatPubkeys
      /\ \E p \in HeartbeatPubkeys : BeginRequest(r, p, day, {configKeys})

\* The same without loading the file again.
FinishFromSnapshot(r) ==
  LET mine == requests[r].address
      day  == AddEntrant(requests[r].day, mine)
  IN  /\ requests[r].pc = "cli"
      /\ files' = WithDay(day)
      /\ requests' = [requests EXCEPT ![r].pc = "answered",
           ![r].address = CHOOSE a \in day.entrants : a.pubkey = mine.pubkey]
      /\ UNCHANGED <<nodeVars, configKeys, settlers, faults>>

\* The rest of the handler: the file is loaded again, and the entrant is answered.
FinishRequest(r) ==
  LET mine == requests[r].address
      day  == AddEntrant(LoadDay(mine.close), mine)
  IN  /\ requests[r].pc = "cli"
      /\ files' = WithDay(day)
      /\ requests' = [requests EXCEPT ![r].pc = "answered",
           ![r].address = CHOOSE a \in day.entrants : a.pubkey = mine.pubkey]
      /\ UNCHANGED <<nodeVars, configKeys, settlers, faults>>

\* Someone who was given an address pays to it, before the close or after.
PayEntry ==
  /\ \E r \in DOMAIN requests, amount \in Amounts :
       requests[r].pc = "answered" /\ Deposit(requests[r].address, amount)
  /\ UNCHANGED serviceVars

-----------------------------------------------------------------------------
(* settleAllDue *)

Update(s, p) == settlers' = [settlers EXCEPT ![s] = p]

\* After settleDay returned or threw: the next of the days listed at the start.
AfterDay(p) ==
  IF Len(p.due) = 1 THEN Idle ELSE [Idle EXCEPT !.pc = "utxos", !.due = Tail(p.due)]

AfterCandidateOffByOne(p) ==
  IF p.candidate > Len(p.entries) THEN AfterDay(p)
  ELSE [p EXCEPT !.pc = "submit", !.candidate = @ + 1, !.attempt = 0, !.reply = "none"]

AfterCandidate(p) ==
  IF p.candidate = Len(p.entries) THEN AfterDay(p)
  ELSE [p EXCEPT !.pc = "submit", !.candidate = @ + 1, !.attempt = 0, !.reply = "none"]

AfterAttempt(p) ==
  IF p.attempt + 1 = MAX_ATTEMPTS THEN AfterCandidate(p)
  ELSE [p EXCEPT !.pc = "submit", !.attempt = @ + 1, !.reply = "none"]

\* saveDay writes the whole object read when the days were listed.
SaveSettlement(p, settlement) ==
  files' = WithDay([Head(p.due) EXCEPT !.settlement = settlement])

Start(s) ==
  LET due == ListUnsettledDays(now - DRAW_DELAY)
  IN  /\ settlers[s].pc = "idle" /\ due # << >>
      /\ Update(s, [Idle EXCEPT !.pc = "utxos", !.due = due])
      /\ UNCHANGED <<nodeVars, files, configKeys, requests, faults>>

EntriesWithDust(day) ==
  LET all == Ascending(EntryUtxos(day.entrants))
  IN  SubSeq(all, 1, IF Len(all) < MAX_ENTRIES_PER_DRAW THEN Len(all)
                     ELSE MAX_ENTRIES_PER_DRAW)

\* collectEligibleEntries, from what the index holds: the oldest deposits first.
EligibleEntries(day) ==
  LET all == Ascending({i \in EntryUtxos(day.entrants) : coins[i].amount >= MIN_ENTRY})
  IN  SubSeq(all, 1, IF Len(all) < MAX_ENTRIES_PER_DRAW THEN Len(all)
                     ELSE MAX_ENTRIES_PER_DRAW)

CollectEntries(s) ==
  LET p       == settlers[s]
      entries == EligibleEntries(Head(p.due))
  IN  /\ p.pc = "utxos"
      /\ \/ /\ entries = << >>
            /\ SaveSettlement(p, Empty)
            /\ Update(s, AfterDay(p))
         \/ /\ entries # << >>
            /\ Update(s, [p EXCEPT !.pc = "block", !.entries = entries])
            /\ UNCHANGED files
      /\ UNCHANGED <<nodeVars, configKeys, requests, faults>>

\* Budget units for a number of script units, with one to spare.
BudgetUnitsFor(units) == (units + UNITS_PER_BUDGET - 1) \div UNITS_PER_BUDGET + 1

\* The first candidate of the batch, the ticket drawn from block b.
Prepared(p, b) ==
  [p EXCEPT !.pc = "submit", !.block = b, !.candidate = 1, !.fee = DRAW_FEE,
            !.leader = BudgetUnitsFor(12000 + 6000 * Len(p.entries)),
            !.delegate = BudgetUnitsFor(15000)]

\* getRecentChainBlock and cli.drawSigscripts; the first candidate is prepared.
PrepareDraw(s) ==
  /\ settlers[s].pc = "block"
  /\ \E b \in Blocks : Update(s, Prepared(settlers[s], b))
  /\ UNCHANGED <<nodeVars, files, configKeys, requests, faults>>

\* The transaction of the candidate being tried.
DrawTx(p) == [close |-> Head(p.due).close, entries |-> p.entries,
              block |-> p.block, winner |-> p.candidate]

\* The node takes submitTransaction's call; its answer is still to be handled.
NodeAnswers(s) ==
  LET p          == settlers[s]
      tx         == DrawTx(p)
      complaints == Complaints(tx, Head(p.due), p.fee, p.leader, p.delegate)
  IN  /\ p.pc = "submit"
      /\ \/ \E c \in complaints :
              Update(s, [p EXCEPT !.pc = "reply", !.reply = c]) /\ UNCHANGED pool
         \/ /\ complaints = {}
            /\ Update(s, [p EXCEPT !.pc = "reply", !.reply = "accepted"])
            /\ pool' = pool \cup {tx}
      /\ UNCHANGED <<now, medianTime, coins, reclaimed, drawn>>
      /\ UNCHANGED <<files, configKeys, requests, faults>>

\* A handler of an answer other than "accepted" continues with q.
Continue(s, reply, q) ==
  /\ settlers[s].pc = "reply" /\ settlers[s].reply = reply
  /\ Update(s, q)
  /\ UNCHANGED <<nodeVars, files, configKeys, requests, faults>>

RecordUnlessRejected(s) ==
  LET p == settlers[s]
  IN  /\ p.pc = "reply" /\ p.reply \in {"accepted", "notFinalized"}
      /\ SaveSettlement(p, Record(DrawTx(p)))
      /\ Update(s, AfterDay(p))
      /\ UNCHANGED <<nodeVars, configKeys, requests, faults>>

RecordDraw(s) ==
  LET p == settlers[s]
  IN  /\ p.pc = "reply" /\ p.reply = "accepted"
      /\ SaveSettlement(p, Record(DrawTx(p)))
      /\ Update(s, AfterDay(p))
      /\ UNCHANGED <<nodeVars, configKeys, requests, faults>>

\* Thrown: the scheduler tries again a minute later.
NotFinalized(s) == Continue(s, "notFinalized", AfterDay(settlers[s]))

RetrySameFee(s) == Continue(s, "feeTooLow", AfterAttempt(settlers[s]))

\* Raised to what the node asks for, unless the covenant's cap forbids it.
RaiseFee(s) ==
  LET p    == settlers[s]
      need == FeeNeeded[Len(p.entries)]
  IN  Continue(s, "feeTooLow",
               IF need > FEE_CEILING THEN AfterDay(p) ELSE AfterAttempt([p EXCEPT !.fee = need]))

\* The larger of two numbers.
AtLeast(a, b) == IF a > b THEN a ELSE b

RaiseBudget(s) ==
  LET p == settlers[s]
  IN  \/ Continue(s, "leaderBudget", AfterAttempt(
           [p EXCEPT !.leader = AtLeast(@, BudgetUnitsFor(LeaderUsed[Len(p.entries)]))]))
      \/ Continue(s, "delegateBudget", AfterAttempt(
           [p EXCEPT !.delegate = AtLeast(@, BudgetUnitsFor(DelegateUsed))]))

\* Any other error counts as a wrong guess of the winner.
WrongWinner(s) == Continue(s, "rejected", AfterCandidate(settlers[s]))

-----------------------------------------------------------------------------
(* Time and faults *)

\* The clock; a call that began before a close ends soon after it.
Tick ==
  /\ now < MaxTime
  /\ \A r \in DOMAIN requests :
       requests[r].pc = "cli" => now < requests[r].day.close + RequestOverrun
  /\ now' = now + 1
  /\ UNCHANGED <<medianTime, coins, reclaimed, pool, drawn, serviceVars>>

Fault(f) == f \in Faults /\ faults < MaxFaults /\ faults' = faults + 1

\* connect, getUtxosByAddresses, getSink or getBlock throws.
RpcFails(s) ==
  /\ Fault("rpc")
  /\ settlers[s].pc \in {"utxos", "block"}
  /\ Update(s, AfterDay(settlers[s]))
  /\ UNCHANGED <<nodeVars, files, configKeys, requests>>

\* submitTransaction throws before the node saw the call, or after it took it.
AnswerLost(s) ==
  LET p  == settlers[s]
      tx == DrawTx(p)
  IN  /\ Fault("lost")
      /\ p.pc = "submit"
      /\ Update(s, [p EXCEPT !.pc = "reply", !.reply = "rejected"])
      /\ \/ UNCHANGED pool
         \/ /\ Complaints(tx, Head(p.due), p.fee, p.leader, p.delegate) = {}
            /\ pool' = pool \cup {tx}
      /\ UNCHANGED <<now, medianTime, coins, reclaimed, drawn>>
      /\ UNCHANGED <<files, configKeys, requests>>

\* The server stops and is started again, perhaps with other keys.
Restart ==
  /\ Fault("crash")
  /\ configKeys' \in KeyPairs
  /\ requests' = [r \in DOMAIN requests |->
       IF r \in Requests /\ requests[r].pc = "cli" THEN NewRequest ELSE requests[r]]
  /\ settlers' = [s \in Settlers |-> Idle]
  /\ UNCHANGED <<nodeVars, files>>

Settle(s) ==
  \/ Start(s) \/ CollectEntries(s) \/ PrepareDraw(s) \/ NodeAnswers(s) \/ RecordDraw(s)
  \/ NotFinalized(s) \/ RaiseFee(s) \/ RaiseBudget(s) \/ WrongWinner(s)

Node == (MedianStep \/ Confirm \/ TakeBack) /\ UNCHANGED serviceVars

Next ==
  \/ \E r \in Requests : Enter(r)
  \/ \E r \in Heartbeats : Heartbeat(r)
  \/ \E r \in DOMAIN requests : FinishRequest(r)
  \/ PayEntry \/ Node \/ Tick \/ Restart
  \/ \E s \in Settlers : Settle(s) \/ RpcFails(s) \/ AnswerLost(s)

\* The interval fires every minute, awaited calls end, time goes on, and the
\* chain confirms what is in the mempool; nobody has to enter, pay or take back.
Fairness ==
  /\ \A s \in Settlers : WF_vars(Settle(s))
  /\ \A r \in Requests \cup Heartbeats : WF_vars(FinishRequest(r))
  /\ WF_vars(MedianStep /\ UNCHANGED serviceVars)
  /\ WF_vars(Confirm /\ UNCHANGED serviceVars)
  /\ WF_vars(Tick)

Spec == Init /\ [][Next]_vars /\ Fairness

-----------------------------------------------------------------------------
Addresses == [close : Nat, keys : SUBSET KeyPairs, pubkey : Pubkeys \cup HeartbeatPubkeys]

Draws == [close : Nat, entries : Seq(1 .. MaxCoins), block : Blocks, winner : 1 .. MaxCoins]

IsRecord(m) == m \in {NoRecord, Empty} \/ (m.kind = "draw" /\ m.tx \in Draws)

IsDay(d) ==
  /\ d.close \in Nat /\ d.entrants \subseteq Addresses
  /\ d.keys \subseteq KeyPairs /\ Cardinality(d.keys) = 1
  /\ IsRecord(d.settlement)

\* Every day file holds a day of its own name, and every call of settleAllDue a
\* candidate of its own batch and an attempt within the limit.
TypeOK ==
  /\ now \in 0 .. MaxTime /\ medianTime \in 0 .. now
  /\ \A i \in DOMAIN coins : /\ coins[i].address \in Addresses /\ coins[i].amount \in Amounts
                            /\ coins[i].at \in 0 .. now
  /\ reclaimed \subseteq DOMAIN coins /\ pool \cup drawn \subseteq Draws
  /\ \A c \in DOMAIN files : IsDay(files[c]) /\ files[c].close = c
  /\ configKeys \in KeyPairs /\ faults \in 0 .. MaxFaults
  /\ \A r \in DOMAIN requests : requests[r].pc # "free" =>
       IsDay(requests[r].day) /\ requests[r].address \in Addresses
  /\ \A s \in Settlers : LET p == settlers[s] IN
       /\ \A i \in DOMAIN p.due : IsDay(p.due[i])
       /\ p.pc # "idle" => p.due # << >>
       /\ p.pc \in {"submit", "reply"} =>
            /\ p.candidate \in DOMAIN p.entries /\ p.attempt \in 0 .. MAX_ATTEMPTS - 1
            /\ p.fee <= FEE_CEILING

Taken == pool \cup drawn

\* A settlement shown in the history (recentSettlements) is a transaction the
\* node has taken, with that winner: RPC errors, restarts and concurrent calls of
\* settleAllDue (draw.js:177-191) never make the service publish a draw that
\* did not happen.
PaidAsRecorded ==
  \A c \in DOMAIN files :
    files[c].settlement.kind = "draw" => files[c].settlement.tx \in Taken

\* A day on record as empty (draw.js:82-88) had no draw.
EmptyMeansNothingDrawn ==
  \A c \in DOMAIN files :
    files[c].settlement.kind = "empty" => ~\E tx \in Taken : tx.close = c

\* All the entries of a day play in one draw: a retry (server.js:153-156) or a
\* deposit that comes late never leads to a second one.
OneDrawPerDay == \A t, u \in Taken : t.close = u.close => t = u

\* "settleAllDue is idempotent" (server.js:153): a settled day keeps its record.
SettlementIsFinal ==
  [][\A c \in DOMAIN files : files[c].settlement # NoRecord
       => files'[c].settlement = files[c].settlement]_vars

\* Whoever was given an entry address is in the day's file for good, whichever
\* handlers and settlements wrote that file meanwhile (registry.js:46-59).
EntrantsKept ==
  \A r \in DOMAIN requests : requests[r].pc = "answered" =>
    requests[r].address \in LoadDay(requests[r].address.close).entrants

\* "Once pinned, a later change to the configured keys does not affect this day"
\* (registry.js:28-31): all entries of a day share one template, which the
\* covenant's draw needs, also when the keys change with a restart.
OneTemplatePerDay ==
  \A c \in DOMAIN files : \A a \in files[c].entrants : a.keys = files[c].keys

\* A deposit the draw owes its owner: large enough and made before the close.
InTime(i) == i \in DOMAIN coins /\ coins[i].amount >= MIN_ENTRY
                              /\ coins[i].at <= coins[i].address.close

\* More deposits for i's day than one draw may spend.
Crowded(i) ==
  i \in DOMAIN coins /\ Cardinality({j \in DOMAIN coins :
    coins[j].address.close = coins[i].address.close /\ coins[j].amount >= MIN_ENTRY})
      > MAX_ENTRIES_PER_DRAW

\* Every deposit made in time is drawn in the end (or taken back), unless its day
\* has more deposits than fit one draw.
EntriesAreDrawn == \A i \in 1 .. MaxCoins : InTime(i) ~> i \notin Live \/ Crowded(i)
=============================================================================
