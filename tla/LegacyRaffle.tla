----------------------------- MODULE LegacyRaffle -----------------------------
(***************************************************************************)
(* The custodial backend that is kept in backend-legacy/: entries are      *)
(* payments to one wallet; after midnight the service picks a winner among *)
(* the day's entries, writes a record of the draw into a JSON file and     *)
(* pays half of the wallet's balance to the winner.                        *)
(*                                                                         *)
(* A caller is a source of calls that overlap with those of the others:    *)
(* the hourly timer, the timer that fires within five minutes of midnight, *)
(* and the cron or admin request.  A step runs from one await to the next. *)
(* The limits on the lengths of the two files (120 draws, 90 payouts), the *)
(* snapshot for the web page and torn writes of the second file are left   *)
(* out.                                                                    *)
(***************************************************************************)
EXTENDS SortedLists, Sequences, FiniteSetsExt, SequencesExt

CONSTANTS Callers, Kinds,         \* Kinds[c]: the calls c makes, of {"timer", "midnight", "request"}
          Amounts, MinEntry, Fee,
          LaunchDay,              \* 0: not configured
          FetchLimit,             \* transactions in an answer of the API
          FundingValid, OpsValid, \* the funding address and the operator's are addresses
          MaxDay, MaxDeposits, MaxIncidents   \* bounds

ASSUME LegacyAssumption ==
    /\ Amounts \subseteq Nat /\ Fee \in Nat /\ LaunchDay \in Nat
    /\ FetchLimit \in Nat /\ MaxDay \in Nat \ {0, 1} /\ MaxIncidents \in Nat

VARIABLES today,          \* the UTC day; the service starts on day 2
          window,         \* the first five minutes of it
          chain,          \* accepted transactions that touch the wallet, in order
          mempool,        \* payouts on their way
          history,        \* draw-state.json: records, the latest first
          completed,      \* draw-state.json: the days that have been drawn
          payoutHistory,  \* payout-history.json: the days paid
          running,        \* drawQueueRunning
          calls,          \* the call of each caller
          walletSet,      \* payoutsEnabled: the process has the wallet's key in its environment
          incidents,      \* requests and faults so far
          disturbed,      \* history variable: days whose payment was cut off or in two calls' hands
          forgotten,      \* history variable: days a torn write took out of a file
          early           \* history variable: days drawn from an answer given before they were over
wallet == <<chain, mempool>>
file == <<history, completed>>
ghosts == <<disturbed, forgotten, early>>
vars == <<today, window, wallet, file, payoutHistory, running, calls, walletSet, incidents, ghosts>>

Idle == [pc |-> "idle", part |-> "none", then |-> FALSE, seen |-> 0, seenOn |-> 0, days |-> <<>>, todo |-> <<>>, coins |-> {}]
NoWinner == 0
NoDay == 0

(***************************************************************************)
(* The wallet.  What a transaction pays to the wallet is one coin, named   *)
(* by its place in the chain; change of MinEntry or more is an entry of    *)
(* the wallet itself.  The API has no sender for a payment without inputs  *)
(* (a block's reward) or with an input that it could not resolve.          *)
(***************************************************************************)
Deposit(amount, sender) ==
    [date |-> NoDay, winner |-> NoWinner, prize |-> 0, ins |-> {}, out |-> amount, sender |-> sender]
IsPayout(tx) == tx.date # NoDay
Accepted(tx, day) == [day |-> day, date |-> tx.date, winner |-> tx.winner, prize |-> tx.prize,
                      ins |-> tx.ins, out |-> tx.out, sender |-> tx.sender]
Accept(tx) == chain' = Append(chain, Accepted(tx, today))
Spent == UNION {tx.ins : tx \in Range(chain)}
Unspent == {i \in DOMAIN chain : chain[i].out > 0} \ Spent
Total(is) == MapThenSumSet(LAMBDA i : chain[i].out, is)
PayoutsOf(day) == {i \in DOMAIN chain : chain[i].date = day}
Sent == {tx \in Range(chain) : IsPayout(tx)} \cup mempool

(***************************************************************************)
(* kaspa-api.js, over the answer that ends at transaction seen.            *)
(***************************************************************************)
Visible(seen) == {i \in 1 .. seen : i > seen - FetchLimit}
JackpotAtFetch(seen, day) == Total(Visible(seen)) - MapThenSumSet(LAMBDA i : Total(chain[i].ins), Visible(seen))
JackpotAtEndOfDay(seen, day) ==
    LET past == {i \in Visible(seen) : chain[i].day <= day} IN
    Total(past) - MapThenSumSet(LAMBDA i : Total(chain[i].ins), past)
Enough(i) == chain[i].out >= MinEntry
IsEntry(i) == Enough(i) /\ chain[i].sender
ParseEntriesForDay(seen, day) == {i \in Visible(seen) : chain[i].day = day /\ IsEntry(i)}
(* The days since the earliest of these are caught up: the sender is not asked for here. *)
EntryDays(seen) == {chain[i].day : i \in {j \in Visible(seen) : Enough(j)}}

(***************************************************************************)
(* draw.js                                                                 *)
(***************************************************************************)
Yesterday == today - 1
MissedRaffleDates(seen) ==
    LET start == CASE LaunchDay # 0 -> LaunchDay
                   [] LaunchDay = 0 /\ EntryDays(seen) # {} -> Min(EntryDays(seen))
                   [] OTHER -> Yesterday
    IN  Ascending((start .. Yesterday) \ completed)
DrawRecord(seen, day, winner) ==
    [date |-> day, winner |-> winner, jackpot |-> JackpotAtEndOfDay(seen, day),
     payoutStatus |-> IF winner = NoWinner THEN "not_required" ELSE "pending"]
RecordOf(day) == SelectInSeq(history, LAMBDA r : r.date = day)
MarkPayoutStatus(day, status) ==
    /\ history' = IF RecordOf(day) = 0 THEN history ELSE [history EXCEPT ![RecordOf(day)].payoutStatus = status]
    /\ UNCHANGED completed
AllPayouts == SelectSeq(history, LAMBDA r : r.winner # NoWinner)
PendingPayouts ==
    LET order == Ascending({i \in DOMAIN history : history[i].winner # NoWinner /\ history[i].payoutStatus = "pending"}) IN
    [k \in DOMAIN order |-> history[order[k]]]

(***************************************************************************)
(* payouts.js.  Without an operator's address the change stays in the      *)
(* wallet, with one it goes there.                                         *)
(***************************************************************************)
Outputs(jackpot) ==
    jackpot \div 2 + (IF FundingValid THEN (2 * jackpot) \div 5 ELSE 0) + (IF OpsValid THEN jackpot \div 10 ELSE 0)
AnyCoins(coins, jackpot) == jackpot > 0 /\ coins # {}
(* The wallet's coins are taken one by one until they suffice; no output may be empty. *)
Suffice(coins, jackpot) ==
    LET needed == Outputs(jackpot) + Fee IN
    /\ jackpot > 0 /\ Total(coins) >= needed
    /\ \E last \in coins : Total(coins \ {last}) < needed
PayoutOfBalance(r, coins) ==
    [date |-> r.date, winner |-> r.winner, prize |-> Total(Unspent) \div 2,
     ins |-> coins, out |-> 0, sender |-> TRUE]
Payout(r, coins) ==
    LET change == IF OpsValid THEN 0 ELSE Total(coins) - Outputs(r.jackpot) - Fee
        prize  == r.jackpot \div 2
    IN  [date |-> r.date, winner |-> r.winner, prize |-> prize, ins |-> coins, sender |-> TRUE,
         out |-> change + (IF IsPayout(chain[r.winner]) THEN prize ELSE 0)]

-----------------------------------------------------------------------------
Init ==
    /\ today = 2 /\ window = FALSE
    /\ \E amount \in Amounts, sender \in BOOLEAN : chain = <<Accepted(Deposit(amount, sender), 1)>>
    /\ mempool = {}
    /\ history = <<>> /\ completed = {} /\ payoutHistory = {}
    /\ running = FALSE
    /\ calls = [c \in Callers |-> Idle]
    /\ walletSet \in BOOLEAN
    /\ incidents = 0 /\ disturbed = {} /\ forgotten = {} /\ early = {}

At(c, pc) == calls[c].pc = pc
(* What was fetched is of no use once the days are drawn. *)
Goto(c, call) ==
    calls' = [calls EXCEPT ![c] = IF call.pc = "missed" \/ call.days # <<>> THEN call
                                  ELSE [call EXCEPT !.seen = 0, !.seenOn = 0]]
Step(c, pc) == Goto(c, [calls[c] EXCEPT !.pc = pc])
Record(c) == Head(calls[c].todo)
Dates(c) == {r.date : r \in Range(calls[c].todo)}
Incident == incidents < MaxIncidents /\ incidents' = incidents + 1

(***************************************************************************)
(* The world: entries, blocks, days.                                       *)
(***************************************************************************)
Enter ==
    /\ Cardinality(PayoutsOf(NoDay)) < MaxDeposits /\ today < MaxDay
    /\ \E amount \in Amounts, sender \in BOOLEAN : Accept(Deposit(amount, sender))
    /\ UNCHANGED <<today, window, mempool, file, payoutHistory, running, calls, walletSet, incidents, ghosts>>
AcceptPayout ==
    /\ \E tx \in mempool : Accept(tx) /\ mempool' = mempool \ {tx}
    /\ UNCHANGED <<today, window, file, payoutHistory, running, calls, walletSet, incidents, ghosts>>
PassTime ==
    /\ window \/ today < MaxDay
    /\ window' = ~window
    /\ today' = IF window THEN today ELSE today + 1
    /\ UNCHANGED <<wallet, file, payoutHistory, running, calls, walletSet, incidents, ghosts>>

(***************************************************************************)
(* The start of a call: processDrawQueue, which turns a second one away,   *)
(* and executeDrawForYesterday, which a request calls after it.            *)
(***************************************************************************)
FetchForYesterday == [Idle EXCEPT !.pc = "fetch", !.part = "yesterday", !.days = <<Yesterday>>]
FetchForQueue(request) == [Idle EXCEPT !.pc = "fetch", !.part = "catchup", !.then = request]
StartQueue(c) ==
    /\ At(c, "idle") /\ ~running
    /\ running' = TRUE
    /\ \/ "timer" \in Kinds[c] /\ Goto(c, FetchForQueue(FALSE)) /\ UNCHANGED incidents
       \/ "request" \in Kinds[c] /\ Goto(c, FetchForQueue(TRUE)) /\ Incident
    /\ UNCHANGED <<today, window, wallet, file, payoutHistory, walletSet, ghosts>>
StartYesterday(c) ==
    /\ At(c, "idle")
    /\ \/ "midnight" \in Kinds[c] /\ window /\ Yesterday \notin completed /\ UNCHANGED incidents
       \/ "request" \in Kinds[c] /\ running /\ Incident
    /\ Goto(c, FetchForYesterday)
    /\ UNCHANGED <<today, window, wallet, file, payoutHistory, running, walletSet, ghosts>>
(* The end of a call's part, by an error too: the queue lets the next one in. *)
End(c) ==
    /\ running' = (running /\ calls[c].part = "yesterday")
    /\ Goto(c, IF calls[c].then THEN FetchForYesterday ELSE Idle)

(***************************************************************************)
(* Draws.                                                                  *)
(***************************************************************************)
Fetched(c) ==
    /\ At(c, "fetch")
    /\ Goto(c, [calls[c] EXCEPT !.pc = IF calls[c].part = "catchup" THEN "missed" ELSE "draw",
                                !.seen = Len(chain), !.seenOn = today])
    /\ UNCHANGED <<today, window, wallet, file, payoutHistory, running, walletSet, incidents, ghosts>>
FetchFailsKeepsRunning(c) ==
    /\ At(c, "fetch") /\ Incident
    /\ Goto(c, Idle)
    /\ UNCHANGED <<today, window, wallet, file, payoutHistory, running, walletSet, ghosts>>
FetchFails(c) ==
    /\ At(c, "fetch") /\ Incident
    /\ End(c)
    /\ UNCHANGED <<today, window, wallet, file, payoutHistory, walletSet, ghosts>>
CatchUpMissedDraws(c) ==
    /\ At(c, "missed")
    /\ Goto(c, [calls[c] EXCEPT !.pc = "draw", !.days = MissedRaffleDates(calls[c].seen)])
    /\ UNCHANGED <<today, window, wallet, file, payoutHistory, running, walletSet, incidents, ghosts>>
DrawAndReplace(c, kept) ==
    /\ At(c, "draw") /\ calls[c].days # <<>>
    /\ \E winner \in ParseEntriesForDay(calls[c].seen, Head(calls[c].days)) \cup {NoWinner} :
          LET r == DrawRecord(calls[c].seen, Head(calls[c].days), winner) IN
          /\ history' = <<r>> \o SelectSeq(history, LAMBDA old : kept \/ old.date # r.date)
          /\ completed' = completed \cup {r.date}
          /\ Goto(c, [calls[c] EXCEPT !.days = Tail(@), !.todo = Append(@, r)])
    /\ UNCHANGED <<today, window, wallet, payoutHistory, running, walletSet, incidents, ghosts>>
DrawAgain(c) == DrawAndReplace(c, TRUE)
Redraw(c) == DrawAndReplace(c, FALSE)
(* One day of the list: drawn, or skipped when another call has drawn it. *)
RunDrawForDate(c) ==
    /\ At(c, "draw") /\ calls[c].days # <<>>
    /\ LET day == Head(calls[c].days)
           entries == ParseEntriesForDay(calls[c].seen, day)
       IN  IF day \in completed
           THEN Goto(c, [calls[c] EXCEPT !.days = Tail(@)]) /\ UNCHANGED <<file, early>>
           ELSE \E winner \in IF entries = {} THEN {NoWinner} ELSE entries :
                   LET r == DrawRecord(calls[c].seen, day, winner) IN
                   /\ history' = <<r>> \o history
                   /\ completed' = completed \cup {day}
                   /\ Goto(c, [calls[c] EXCEPT !.days = Tail(@), !.todo = Append(@, r)])
                   /\ early' = IF calls[c].seenOn <= day THEN early \cup {day} ELSE early
    /\ UNCHANGED <<today, window, wallet, payoutHistory, running, walletSet, incidents, disturbed, forgotten>>

(***************************************************************************)
(* Payments of the records in hand, one after the other.                   *)
(***************************************************************************)
Paying(c) == At(c, "draw") /\ calls[c].days = <<>>
NextRecord(c) == Goto(c, [calls[c] EXCEPT !.pc = "draw", !.todo = Tail(@), !.coins = {}])
NotRequired(c) ==
    /\ Paying(c) /\ calls[c].todo # <<>> /\ Record(c).winner = NoWinner
    /\ MarkPayoutStatus(Record(c).date, "not_required")
    /\ NextRecord(c)
    /\ UNCHANGED <<today, window, wallet, payoutHistory, running, walletSet, incidents, ghosts>>
PayoutsDisabled(c) ==
    /\ Paying(c) /\ calls[c].todo # <<>> /\ Record(c).winner # NoWinner /\ ~walletSet
    /\ NextRecord(c)
    /\ UNCHANGED <<today, window, wallet, file, payoutHistory, running, walletSet, incidents, ghosts>>
MustPay(c) == Paying(c) /\ calls[c].todo # <<>> /\ Record(c).winner # NoWinner /\ walletSet
ConnectFails(c) ==
    /\ MustPay(c) /\ Incident
    /\ Step(c, "failed")
    /\ UNCHANGED <<today, window, wallet, file, payoutHistory, running, walletSet, ghosts>>
(* The unspent outputs the node answers with, mempool or not, and the coins taken of them. *)
SelectCoins(c) ==
    /\ MustPay(c)
    /\ LET choices == {coins \in SUBSET Unspent : Suffice(coins, Record(c).jackpot)} IN
       \/ choices = {} /\ Step(c, "failed")
       \/ \E coins \in choices : Goto(c, [calls[c] EXCEPT !.pc = "submit", !.coins = coins])
    /\ UNCHANGED <<today, window, wallet, file, payoutHistory, running, walletSet, incidents, ghosts>>
Conflicts(coins) == coins \cap (Spent \cup UNION {tx.ins : tx \in mempool}) # {}
SubmitPayout(c) ==
    /\ At(c, "submit") /\ ~Conflicts(calls[c].coins)
    /\ mempool' = mempool \cup {Payout(Record(c), calls[c].coins)}
    /\ Step(c, "sent")
    /\ UNCHANGED <<today, window, chain, file, payoutHistory, running, walletSet, incidents, ghosts>>
SubmitRefused(c) ==
    /\ At(c, "submit") /\ Conflicts(calls[c].coins)
    /\ Step(c, "failed")
    /\ UNCHANGED <<today, window, wallet, file, payoutHistory, running, walletSet, incidents, ghosts>>
(* submit throws after the node took the payout, or writing payout-history.json fails. *)
AnswerLost(c) ==
    /\ At(c, "sent") /\ Incident
    /\ Step(c, "failed")
    /\ disturbed' = disturbed \cup {Record(c).date}
    /\ UNCHANGED <<today, window, wallet, file, payoutHistory, running, walletSet, forgotten, early>>
Answered(c) ==
    /\ At(c, "sent")
    /\ payoutHistory' = payoutHistory \cup {Record(c).date}
    /\ Step(c, "disconnect")
    /\ UNCHANGED <<today, window, wallet, file, running, walletSet, incidents, ghosts>>
(* The await of rpc.disconnect in the finally throws: the record of the payout is not returned. *)
DisconnectFails(c) ==
    /\ At(c, "disconnect") /\ Incident
    /\ Step(c, "failed")
    /\ disturbed' = disturbed \cup {Record(c).date}
    /\ UNCHANGED <<today, window, wallet, file, payoutHistory, running, walletSet, forgotten, early>>
ForgetCompleted(c) ==
    /\ At(c, "disconnect") /\ NextRecord(c)
    /\ UNCHANGED <<today, window, wallet, file, payoutHistory, running, walletSet, incidents, ghosts>>
MarkCompleted(c) ==
    /\ At(c, "disconnect")
    /\ MarkPayoutStatus(Record(c).date, "completed")
    /\ NextRecord(c)
    /\ UNCHANGED <<today, window, wallet, payoutHistory, running, walletSet, incidents, ghosts>>
FailureIsCompleted(c) ==
    /\ At(c, "failed")
    /\ MarkPayoutStatus(Record(c).date, "completed")
    /\ NextRecord(c)
    /\ UNCHANGED <<today, window, wallet, payoutHistory, running, walletSet, incidents, ghosts>>
PaymentFailed(c) ==
    /\ At(c, "failed")
    /\ MarkPayoutStatus(Record(c).date, "pending")
    /\ NextRecord(c)
    /\ UNCHANGED <<today, window, wallet, payoutHistory, running, walletSet, incidents, ghosts>>
(* The queue goes on to the records whose payment is pending in the file. *)
ReadPending(c) ==
    /\ Paying(c) /\ calls[c].todo = <<>> /\ calls[c].part = "catchup"
    /\ Goto(c, [calls[c] EXCEPT !.part = "pending", !.todo = PendingPayouts])
    /\ disturbed' = disturbed \cup
          ({r.date : r \in Range(PendingPayouts)} \cap UNION {Dates(d) : d \in Callers})
    /\ UNCHANGED <<today, window, wallet, file, payoutHistory, running, walletSet, incidents, forgotten, early>>
RefreshSnapshot(c) ==
    /\ Paying(c) /\ calls[c].todo = <<>> /\ calls[c].part \in {"pending", "yesterday"}
    /\ End(c)
    /\ UNCHANGED <<today, window, wallet, file, payoutHistory, walletSet, incidents, ghosts>>

(***************************************************************************)
(* A stop of the process and its restart, with the wallet's key in its     *)
(* environment by then; a stop in the middle of a write leaves a file that *)
(* does not parse, which readJson takes for an empty one.                  *)
(***************************************************************************)
Restart ==
    /\ Incident
    /\ running' = FALSE /\ calls' = [c \in Callers |-> Idle]
    /\ walletSet' = TRUE
    /\ disturbed' = disturbed \cup {Record(c).date : c \in {d \in Callers : calls[d].pc \in {"sent", "disconnect"}}}
    /\ UNCHANGED <<today, window, wallet, early>>
Crash == Restart /\ UNCHANGED <<file, payoutHistory, forgotten>>
TornDrawState ==
    /\ Restart
    /\ \E c \in Callers :
          \/ At(c, "draw") /\ calls[c].days # <<>> /\ Head(calls[c].days) \notin completed
          \/ Paying(c) /\ calls[c].todo # <<>> /\ Record(c).winner = NoWinner
          \/ calls[c].pc \in {"disconnect", "failed"}
    /\ history' = <<>> /\ completed' = {}
    /\ forgotten' = forgotten \cup completed
    /\ UNCHANGED payoutHistory

-----------------------------------------------------------------------------
Draw(c) == Fetched(c) \/ CatchUpMissedDraws(c) \/ RunDrawForDate(c)
Pay(c) ==
    \/ NotRequired(c) \/ PayoutsDisabled(c)
    \/ SelectCoins(c) \/ SubmitPayout(c) \/ SubmitRefused(c)
    \/ Answered(c) \/ MarkCompleted(c) \/ PaymentFailed(c)
    \/ ReadPending(c) \/ RefreshSnapshot(c)
Fail(c) == FetchFails(c) \/ ConnectFails(c) \/ AnswerLost(c) \/ DisconnectFails(c)
Next ==
    \/ Enter \/ AcceptPayout \/ PassTime
    \/ \E c \in Callers : StartQueue(c) \/ StartYesterday(c) \/ Draw(c) \/ Pay(c) \/ Fail(c)
    \/ Crash \/ TornDrawState

(* A call that has started goes on, and the timer starts the queue again every hour. *)
Fairness ==
    \A c \in Callers : WF_calls(Draw(c) \/ Pay(c) \/ (Kinds[c] = {"timer"} /\ StartQueue(c)))
Spec == Init /\ [][Next]_vars /\ Fairness

-----------------------------------------------------------------------------
Records == [date : 1 .. MaxDay, winner : Nat, jackpot : Int,
            payoutStatus : {"not_required", "pending", "completed"}]
(* Every variable has its type: a reference to the wallet's transactions names one. *)
TypeOK ==
    /\ today \in 1 .. MaxDay /\ window \in BOOLEAN /\ running \in BOOLEAN
    /\ \A tx \in Range(chain) : tx.ins \subseteq DOMAIN chain /\ tx.out \in Nat /\ tx.day \in 1 .. today
    /\ \A tx \in mempool : tx.ins \subseteq DOMAIN chain /\ tx.out \in Nat
    /\ history \in Seq(Records) /\ completed \subseteq 1 .. MaxDay
    /\ payoutHistory \subseteq 1 .. MaxDay
    /\ \A c \in Callers : calls[c].todo \in Seq(Records) /\ calls[c].coins \subseteq DOMAIN chain
    /\ walletSet \in BOOLEAN /\ incidents \in 0 .. MaxIncidents

(* draw-state.json holds one record of each day it calls completed, however *)
(* the timers and the requests overlap and wherever the process stops.      *)
OneRecordPerDay ==
    /\ \A i, j \in DOMAIN history : history[i].date = history[j].date => i = j
    /\ completed = {r.date : r \in Range(history)}

(* A record settles its day, which is over, seen from any later time: the      *)
(* winner is an entry of that day, no winner means there was none, and the     *)
(* jackpot is what the wallet held at the day's end.  This needs an answer     *)
(* that holds all the transactions and was given after the day was over; the   *)
(* queue does not check the second, and draws a day that ends while it waits.  *)
DrawsSettleTheirDay ==
    \A r \in Range(history) :
        LET past == {i \in DOMAIN chain : chain[i].day <= r.date}
            entries == {i \in past : chain[i].day = r.date /\ IsEntry(i)}
        IN  /\ r.date < today
            /\ r.winner # NoWinner => r.winner \in entries
            /\ Len(chain) <= FetchLimit /\ r.date \notin early =>
                  /\ r.winner = NoWinner => entries = {}
                  /\ r.jackpot = Total(past \ UNION {chain[i].ins : i \in past})

(* Every payout ever sent pays the winner of record of its day half of the   *)
(* jackpot of record; only a day whose record a torn write lost is excepted. *)
PayoutsMatchRecords ==
    \A tx \in Sent : tx.date \notin forgotten =>
        \E r \in Range(history) : r.date = tx.date /\ r.winner = tx.winner /\ tx.prize = r.jackpot \div 2

(* A record marked completed has been paid and is in the payout history. *)
CompletedMeansPaid ==
    \A r \in Range(history) : r.payoutStatus = "completed" =>
        /\ \E tx \in Sent : tx.date = r.date
        /\ r.date \in payoutHistory \cup forgotten

(* A day is paid twice only when its payment was cut off after the submit, or  *)
(* when the queue took it up while another call had it in hand; see the README. *)
PaidTwiceOnlyAfterTrouble ==
    \A d \in (1 .. MaxDay) \ (disturbed \cup forgotten) : Cardinality({tx \in mempool : tx.date = d} \cup PayoutsOf(d)) <= 1

(* No call, with whatever state it read before an await, changes the winner or *)
(* the jackpot of a record or drops it.                                        *)
RecordsKept ==
    [][\A r \in Range(history) : r.date \notin forgotten' =>
          \E new \in Range(history') :
              new.date = r.date /\ new.winner = r.winner /\ new.jackpot = r.jackpot]_history

(* A payment that is marked completed is not made pending again, unless it was *)
(* cut off or in two calls' hands.                                             *)
CompletedStays ==
    [][\A r \in Range(history) :
          r.payoutStatus = "completed" /\ r.date \notin disturbed' \cup forgotten' =>
              \A new \in Range(history') : new.date = r.date => new.payoutStatus = "completed"]_history

(* A day with an entry is drawn in the end, through stops, failed requests, torn *)
(* files and overlapping calls: time and again no day that is over is left, as   *)
(* long as the API's answer reaches back to its entry.                           *)
DaysAreDrawn ==
    []<>((EntryDays(Len(chain)) \cap 1 .. Yesterday) \subseteq completed \/ Len(chain) > FetchLimit)
=============================================================================
