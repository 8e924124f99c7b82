-------------------------- MODULE LegacyRaffleProofs --------------------------
(***************************************************************************)
(* Theorems of LegacyRaffle for every set of callers, whatever calls they  *)
(* make and however many requests, faults, stops and torn writes there     *)
(* are: draw-state.json holds one record of each day, a record keeps its   *)
(* winner and its jackpot, every payout is one of record, and a day is     *)
(* paid twice, or a completed payment taken back, only after trouble.      *)
(* Then of its wallet: which coins are spent, and what a record is worth.  *)
(***************************************************************************)
EXTENDS LegacyRaffle, NatInduction, SequenceTheorems

IsRecord(r) == r = [date |-> r.date, winner |-> r.winner, jackpot |-> r.jackpot, payoutStatus |-> r.payoutStatus]
SameDraw(r, s) == r.date = s.date /\ r.winner = s.winner /\ r.jackpot = s.jackpot

\* The inductive invariant: the file is a list of records, one of each completed day.
FileOK ==
    /\ \E S : history \in Seq(S)
    /\ \A i \in DOMAIN history : IsRecord(history[i])
    /\ OneRecordPerDay

\* What a step may do to the file.
Drawing == \E r : IsRecord(r) /\ r.date \notin completed
                  /\ history' = <<r>> \o history /\ completed' = completed \cup {r.date}
Marking == /\ UNCHANGED completed
           /\ history' = history \/ \E k, status : history' = [history EXCEPT ![k].payoutStatus = status]
Tearing == history' = <<>> /\ completed' = {} /\ forgotten' = forgotten \cup completed

\* Every action leaves the file alone, draws a day that is not completed, sets a
\* status, or tears the file.
LEMMA StepEffect ==
    ASSUME [Next]_vars
    PROVE  Drawing \/ Marking \/ Tearing
<1>1. ASSUME UNCHANGED file PROVE Marking
  BY <1>1 DEF file, Marking
<1>2. ASSUME NEW day, NEW status, MarkPayoutStatus(day, status) PROVE Marking
  BY <1>2 DEF MarkPayoutStatus, Marking
<1>3. CASE UNCHANGED vars
  BY <1>1, <1>3 DEF vars
<1>4. CASE Enter \/ AcceptPayout \/ PassTime
  BY <1>1, <1>4 DEF Enter, AcceptPayout, PassTime
<1>5. ASSUME NEW c \in Callers, StartQueue(c) \/ StartYesterday(c) PROVE Marking
  BY <1>1, <1>5 DEF StartQueue, StartYesterday
<1>6. ASSUME NEW c \in Callers, Draw(c) PROVE Drawing \/ Marking
  <2>1. CASE Fetched(c) \/ CatchUpMissedDraws(c)
    BY <1>1, <2>1 DEF Fetched, CatchUpMissedDraws
  <2>2. CASE RunDrawForDate(c)
    <3> DEFINE day == Head(calls[c].days)
    <3>1. CASE day \in completed
      BY <1>1, <2>2, <3>1 DEF RunDrawForDate
    <3>2. CASE day \notin completed
      <4>1. PICK winner : /\ history' = <<DrawRecord(calls[c].seen, day, winner)>> \o history
                          /\ completed' = completed \cup {day}
        BY <2>2, <3>2 DEF RunDrawForDate
      <4> DEFINE r == DrawRecord(calls[c].seen, day, winner)
      <4>2. IsRecord(r) /\ r.date = day
        BY DEF DrawRecord, IsRecord
      <4> QED BY <4>1, <4>2, <3>2 DEF Drawing
    <3> QED BY <3>1, <3>2
  <2> QED BY <1>6, <2>1, <2>2 DEF Draw
<1>7. ASSUME NEW c \in Callers, Pay(c) PROVE Marking
  <2>1. CASE NotRequired(c) \/ MarkCompleted(c) \/ PaymentFailed(c)
    BY <1>2, <2>1 DEF NotRequired, MarkCompleted, PaymentFailed
  <2>2. CASE PayoutsDisabled(c) \/ SelectCoins(c) \/ SubmitPayout(c) \/ SubmitRefused(c)
    BY <1>1, <2>2 DEF PayoutsDisabled, SelectCoins, SubmitPayout, SubmitRefused
  <2>3. CASE Answered(c) \/ ReadPending(c) \/ RefreshSnapshot(c)
    BY <1>1, <2>3 DEF Answered, ReadPending, RefreshSnapshot
  <2> QED BY <1>7, <2>1, <2>2, <2>3 DEF Pay
<1>8. ASSUME NEW c \in Callers, Fail(c) PROVE Marking
  BY <1>1, <1>8 DEF Fail, FetchFails, ConnectFails, AnswerLost, DisconnectFails
<1>9. CASE Crash
  BY <1>1, <1>9 DEF Crash
<1>10. CASE TornDrawState
  BY <1>10 DEF TornDrawState, Tearing
<1> QED BY <1>3, <1>4, <1>5, <1>6, <1>7, <1>8, <1>9, <1>10 DEF Next

\* A record in front of the file: the others move down by one.
LEMMA DrawingPrepends ==
    ASSUME NEW S, NEW h \in Seq(S), NEW r
    PROVE  /\ <<r>> \o h \in Seq(S \cup {r})
           /\ DOMAIN (<<r>> \o h) = 1 .. Len(h) + 1
           /\ (<<r>> \o h)[1] = r
           /\ \A i \in 1 .. Len(h) : (<<r>> \o h)[i + 1] = h[i]
           /\ DOMAIN h = 1 .. Len(h) /\ Len(h) \in Nat
<1>1. h \in Seq(S \cup {r}) /\ <<r>> \in Seq(S \cup {r}) /\ Len(<<r>>) = 1 /\ <<r>>[1] = r
  OBVIOUS
<1>2. DOMAIN h = 1 .. Len(h) /\ Len(h) \in Nat
  OBVIOUS
<1>3. /\ <<r>> \o h \in Seq(S \cup {r})
      /\ Len(<<r>> \o h) = 1 + Len(h)
      /\ \A i \in 1 .. 1 + Len(h) : (<<r>> \o h)[i] = IF i <= 1 THEN <<r>>[i] ELSE h[i - 1]
  BY <1>1, ConcatProperties, Zenon
<1> QED BY <1>1, <1>2, <1>3

\* Setting the status of a record changes nothing else.
LEMMA MarkingKeeps ==
    ASSUME NEW S, NEW h \in Seq(S), NEW k, NEW status,
           \A i \in DOMAIN h : IsRecord(h[i])
    PROVE  LET new == [h EXCEPT ![k].payoutStatus = status] IN
           /\ \E T : new \in Seq(T)
           /\ DOMAIN new = DOMAIN h
           /\ \A i \in DOMAIN h : IsRecord(new[i]) /\ SameDraw(h[i], new[i])
<1> DEFINE new == [h EXCEPT ![k].payoutStatus = status]
<1>1. DOMAIN new = DOMAIN h /\ DOMAIN h = 1 .. Len(h) /\ Len(h) \in Nat
  OBVIOUS
<1>2. \A i \in DOMAIN h : new[i] = IF i = k THEN [h[i] EXCEPT !.payoutStatus = status] ELSE h[i]
  OBVIOUS
<1>3. ASSUME NEW r, IsRecord(r) PROVE LET s == [r EXCEPT !.payoutStatus = status] IN IsRecord(s) /\ SameDraw(r, s)
  BY <1>3 DEF IsRecord, SameDraw
<1>4. \A i \in DOMAIN h : IsRecord(new[i]) /\ SameDraw(h[i], new[i])
  BY <1>2, <1>3 DEF SameDraw
<1>5. \E T : new \in Seq(T)
  <2> DEFINE T == {new[i] : i \in DOMAIN h}
  <2>1. new \in [1 .. Len(h) -> T]
    BY <1>1
  <2>2. Len(h) \in Nat
    BY <1>1
  <2> HIDE DEF new, T
  <2>3. new \in UNION {[1 .. n -> T] : n \in Nat}
    BY <2>1, <2>2, Zenon
  <2> QED BY <2>3, SeqDef, Zenon
<1> QED BY <1>1, <1>4, <1>5

\* The dates of the records in a file, position by position.
LEMMA DatesOf ==
    ASSUME NEW h, NEW C
    PROVE  C = {x.date : x \in Range(h)} <=>
               /\ \A i \in DOMAIN h : h[i].date \in C
               /\ \A d \in C : \E i \in DOMAIN h : h[i].date = d
<1>1. Range(h) = {h[i] : i \in DOMAIN h}
  BY DEF Range
<1>2. \A x : x \in Range(h) <=> \E i \in DOMAIN h : x = h[i]
  BY <1>1
<1>3. \A d : d \in {x.date : x \in Range(h)} <=> \E i \in DOMAIN h : h[i].date = d
  BY <1>2
<1>4. ASSUME C = {x.date : x \in Range(h)}
      PROVE  (\A i \in DOMAIN h : h[i].date \in C) /\ (\A d \in C : \E i \in DOMAIN h : h[i].date = d)
  BY <1>3, <1>4
<1>5. ASSUME \A i \in DOMAIN h : h[i].date \in C, \A d \in C : \E i \in DOMAIN h : h[i].date = d
      PROVE  C = {x.date : x \in Range(h)}
  <2> DEFINE D == {x.date : x \in Range(h)}
  <2>1. \A d : d \in C <=> d \in D
    BY <1>3, <1>5
  <2> HIDE DEF D
  <2>2. C = D
    BY <2>1
  <2> QED BY <2>2 DEF D
<1> QED BY <1>4, <1>5

-----------------------------------------------------------------------------
\* The file stays what it is: a drawn day is a new one, and no status names a day.
LEMMA FileInvariant ==
    ASSUME FileOK, [Next]_vars
    PROVE  FileOK'
<1>1. CASE Drawing
  <2>1. PICK r : /\ IsRecord(r) /\ r.date \notin completed
                 /\ history' = <<r>> \o history /\ completed' = completed \cup {r.date}
    BY <1>1 DEF Drawing
  <2>2. PICK S : history \in Seq(S)
    BY DEF FileOK
  <2> DEFINE n == Len(history)
  <2>3. /\ history' \in Seq(S \cup {r})
        /\ DOMAIN history' = 1 .. n + 1 /\ n \in Nat /\ DOMAIN history = 1 .. n
        /\ history'[1] = r
        /\ \A i \in 1 .. n : history'[i + 1] = history[i]
    BY <2>1, <2>2, DrawingPrepends
  <2> HIDE DEF n
  <2>4. \A j \in 1 .. n + 1 : j = 1 \/ (j - 1 \in 1 .. n /\ history'[j] = history[j - 1])
    <3> SUFFICES ASSUME NEW j \in 1 .. n + 1, j # 1 PROVE j - 1 \in 1 .. n /\ history'[j] = history[j - 1]
      OBVIOUS
    <3>1. j - 1 \in 1 .. n /\ (j - 1) + 1 = j
      BY <2>3
    <3>2. history'[(j - 1) + 1] = history[j - 1]
      BY <2>3, <3>1
    <3> QED BY <3>1, <3>2
  <2>5. \A i \in DOMAIN history : IsRecord(history[i]) /\ history[i].date \in completed
    BY DEF FileOK, OneRecordPerDay, Range
  <2>6. \A i \in DOMAIN history' : IsRecord(history'[i])
    BY <2>1, <2>3, <2>4, <2>5
  <2>7. \A i, j \in DOMAIN history' : history'[i].date = history'[j].date => i = j
    <3> SUFFICES ASSUME NEW i \in 1 .. n + 1, NEW j \in 1 .. n + 1, history'[i].date = history'[j].date
                 PROVE  i = j
      BY <2>3
    <3>1. CASE i = 1 /\ j # 1
      BY <2>1, <2>3, <2>4, <2>5, <3>1
    <3>2. CASE i # 1 /\ j = 1
      BY <2>1, <2>3, <2>4, <2>5, <3>2
    <3>3. CASE i # 1 /\ j # 1
      <4>1. history[i - 1].date = history[j - 1].date /\ i - 1 \in DOMAIN history /\ j - 1 \in DOMAIN history
        BY <2>3, <2>4, <3>3
      <4>2. i - 1 = j - 1
        BY <4>1 DEF FileOK, OneRecordPerDay
      <4> QED BY <4>2
    <3> QED BY <3>1, <3>2, <3>3
  <2>8. completed' = {x.date : x \in Range(history')}
    <3>1. \A d \in completed : \E i \in DOMAIN history : history[i].date = d
      BY DatesOf DEF FileOK, OneRecordPerDay
    <3>2. \A j \in 1 .. n + 1 : history'[j].date \in completed'
      BY <2>1, <2>3, <2>4, <2>5
    <3>3. 1 \in 1 .. n + 1 /\ \A i \in 1 .. n : i + 1 \in 1 .. n + 1
      BY <2>3
    <3>4. ASSUME NEW d \in completed' PROVE \E j \in DOMAIN history' : history'[j].date = d
      <4>1. CASE d = r.date
        BY <2>3, <3>3, <4>1
      <4>2. CASE d \in completed
        BY <2>3, <3>1, <3>3, <4>2
      <4> QED BY <2>1, <4>1, <4>2
    <3> QED BY <2>3, <3>2, <3>4, DatesOf
  <2> QED BY <2>3, <2>6, <2>7, <2>8 DEF FileOK, OneRecordPerDay
<1>2. CASE Marking
  <2>1. CASE history' = history /\ completed' = completed
    BY <2>1 DEF FileOK, OneRecordPerDay
  <2>2. ASSUME NEW k, NEW status, history' = [history EXCEPT ![k].payoutStatus = status], completed' = completed
        PROVE  FileOK'
    <3>1. PICK S : history \in Seq(S)
      BY DEF FileOK
    <3>2. /\ \E T : history' \in Seq(T)
          /\ DOMAIN history' = DOMAIN history
          /\ \A i \in DOMAIN history : IsRecord(history'[i]) /\ SameDraw(history[i], history'[i])
      BY <2>2, <3>1, MarkingKeeps DEF FileOK
    <3>3. \A i \in DOMAIN history : history'[i].date = history[i].date
      BY <3>2 DEF SameDraw
    <3>4. completed' = {x.date : x \in Range(history')}
      <4>1. /\ \A i \in DOMAIN history : history[i].date \in completed
            /\ \A d \in completed : \E i \in DOMAIN history : history[i].date = d
        BY DatesOf DEF FileOK, OneRecordPerDay
      <4>2. /\ \A i \in DOMAIN history' : history'[i].date \in completed'
            /\ \A d \in completed' : \E i \in DOMAIN history' : history'[i].date = d
        BY <2>2, <3>2, <3>3, <4>1
      <4> QED BY <4>2, DatesOf
    <3> QED BY <3>2, <3>3, <3>4 DEF FileOK, OneRecordPerDay
  <2> QED BY <1>2, <2>1, <2>2 DEF Marking
<1>3. CASE Tearing
  <2>1. history' \in Seq({}) /\ DOMAIN history' = {}
    BY <1>3 DEF Tearing
  <2>2. {x.date : x \in Range(history')} = {}
    BY <2>1 DEF Range
  <2> QED BY <1>3, <2>1, <2>2 DEF Tearing, FileOK, OneRecordPerDay
<1> QED BY <1>1, <1>2, <1>3, StepEffect

\* The empty file.
LEMMA FileStarts ==
    ASSUME Init
    PROVE  FileOK
<1>1. history \in Seq({}) /\ DOMAIN history = {} /\ completed = {}
  BY DEF Init
<1>2. {x.date : x \in Range(history)} = {}
  BY <1>1 DEF Range
<1> QED BY <1>1, <1>2 DEF FileOK, OneRecordPerDay

\* draw-state.json holds one record of each day it calls completed, for any number
\* of overlapping timers and requests, failing calls, stops and torn writes.
THEOREM RecordedOnce == Spec => []OneRecordPerDay
<1>1. Init => FileOK
  BY FileStarts
<1>2. FileOK /\ [Next]_vars => FileOK'
  BY FileInvariant
<1>3. FileOK => OneRecordPerDay
  BY DEF FileOK
<1> QED BY <1>1, <1>2, <1>3, PTL DEF Spec

\* A step keeps every record's day, winner and jackpot, or forgets its day.
LEMMA StepKeeps ==
    ASSUME FileOK, [Next]_vars, NEW r \in Range(history), r.date \notin forgotten'
    PROVE  \E new \in Range(history') : new.date = r.date /\ new.winner = r.winner /\ new.jackpot = r.jackpot
<1>1. PICK i \in DOMAIN history : r = history[i]
  BY DEF Range
<1>2. PICK S : history \in Seq(S)
  BY DEF FileOK
<1>3. CASE Drawing
  <2>1. PICK x : history' = <<x>> \o history
    BY <1>3 DEF Drawing
  <2>2. /\ DOMAIN history' = 1 .. Len(history) + 1 /\ DOMAIN history = 1 .. Len(history) /\ Len(history) \in Nat
        /\ \A j \in 1 .. Len(history) : history'[j + 1] = history[j]
    BY <1>2, <2>1, DrawingPrepends
  <2>3. i + 1 \in DOMAIN history' /\ history'[i + 1] = r
    BY <1>1, <2>2
  <2>4. r \in Range(history')
    BY <2>3 DEF Range
  <2> QED BY <2>4
<1>4. CASE Marking
  <2>1. CASE history' = history
    BY <2>1
  <2>2. ASSUME NEW k, NEW status, history' = [history EXCEPT ![k].payoutStatus = status]
        PROVE  \E new \in Range(history') : SameDraw(r, new)
    <3>1. /\ DOMAIN history' = DOMAIN history
          /\ \A j \in DOMAIN history : SameDraw(history[j], history'[j])
      BY <1>2, <2>2, MarkingKeeps DEF FileOK
    <3>2. history'[i] \in Range(history') /\ SameDraw(r, history'[i])
      BY <1>1, <3>1 DEF Range
    <3> QED BY <3>2
  <2> QED BY <1>4, <2>1, <2>2 DEF Marking, SameDraw
<1>5. CASE Tearing
  <2>1. r.date \in completed
    BY DEF FileOK, OneRecordPerDay
  <2> QED BY <1>5, <2>1 DEF Tearing
<1> QED BY <1>3, <1>4, <1>5, StepEffect

\* No step of any call changes the winner or the jackpot of a record or drops it,
\* except a stop in the middle of a write, after which the day counts as forgotten.
THEOREM RecordsStay == Spec => RecordsKept
<1>1. Init => FileOK
  BY FileStarts
<1>2. FileOK /\ [Next]_vars => FileOK'
  BY FileInvariant
<1> DEFINE Kept == \A r \in Range(history) : r.date \notin forgotten' =>
                      \E new \in Range(history') :
                          new.date = r.date /\ new.winner = r.winner /\ new.jackpot = r.jackpot
<1>3. FileOK /\ [Next]_vars => Kept
  BY StepKeeps
<1>4. FileOK /\ [Next]_vars => [Kept]_history
  BY <1>3
<1> HIDE DEF Kept
<1>5. Spec => [][Kept]_history
  BY <1>1, <1>2, <1>4, PTL DEF Spec
<1> QED BY <1>5 DEF RecordsKept, Kept

-----------------------------------------------------------------------------
(***************************************************************************)
(* The calls: what each one holds at its next await.                       *)
(***************************************************************************)
IsList(s) == \E S : s \in Seq(S)
Fields == {"pc", "part", "then", "seen", "seenOn", "days", "todo", "coins"}
IsCall(x) == x = [f \in Fields |-> x[f]]
Past == 1 .. Yesterday

\* A call has the days it will draw and the records it will pay, all of days that
\* are over; records are paid when all days are drawn.
CallOK(x) ==
    /\ IsCall(x) /\ IsList(x.todo) /\ IsList(x.days)
    /\ \A i \in DOMAIN x.todo : IsRecord(x.todo[i]) /\ x.todo[i].date \in Past
    /\ \A i \in DOMAIN x.days : x.days[i] \in Past
    /\ x.pc \in {"submit", "sent", "disconnect", "failed"} => x.days = <<>> /\ x.todo # <<>>
    /\ x.pc \in {"idle", "fetch", "missed"} => x.todo = <<>>
    /\ x.seen \in 0 .. Len(chain)

WorldOK ==
    /\ today \in Nat \ {0, 1}
    /\ IsList(chain) /\ \A i \in DOMAIN chain : chain[i].day \in 1 .. today
    /\ \A tx \in mempool : tx.date \in Nat \ {0}
    /\ \A k \in DOMAIN history : history[k].date \in Past
CallsOK ==
    /\ calls = [c \in Callers |-> calls[c]]
    /\ \A c \in Callers : CallOK(calls[c])

\* A list without its first element.
LEMMA TailOf ==
    ASSUME NEW s, IsList(s), s # <<>>
    PROVE  /\ IsList(Tail(s)) /\ Len(s) \in Nat \ {0} /\ DOMAIN s = 1 .. Len(s)
           /\ Head(s) = s[1] /\ 1 \in DOMAIN s
           /\ DOMAIN Tail(s) = 1 .. Len(s) - 1
           /\ \A i \in DOMAIN Tail(s) : i + 1 \in DOMAIN s /\ Tail(s)[i] = s[i + 1]
<1>1. PICK S : s \in Seq(S)
  BY DEF IsList
<1>2. Tail(s) \in Seq(S) /\ Len(Tail(s)) = Len(s) - 1 /\ Len(s) \in Nat \ {0} /\ DOMAIN s = 1 .. Len(s)
  BY <1>1, HeadTailProperties
<1>3. \A i \in 1 .. Len(s) - 1 : Tail(s)[i] = s[i + 1]
  BY <1>1, HeadTailProperties
<1>4. DOMAIN Tail(s) = 1 .. Len(s) - 1
  BY <1>2
<1>5. Head(s) = s[1] /\ 1 \in DOMAIN s
  BY <1>1, <1>2
<1> QED BY <1>2, <1>3, <1>4, <1>5 DEF IsList

\* A list with one more element.
LEMMA AppendOf ==
    ASSUME NEW s, IsList(s), NEW x
    PROVE  /\ IsList(Append(s, x)) /\ Len(s) \in Nat /\ DOMAIN s = 1 .. Len(s)
           /\ Len(Append(s, x)) = Len(s) + 1 /\ DOMAIN Append(s, x) = 1 .. Len(s) + 1
           /\ Append(s, x)[Len(s) + 1] = x
           /\ \A i \in DOMAIN s : Append(s, x)[i] = s[i]
           /\ \A i \in DOMAIN Append(s, x) : i = Len(s) + 1 \/ i \in DOMAIN s
<1>1. PICK S : s \in Seq(S)
  BY DEF IsList
<1>2. s \in Seq(S \cup {x}) /\ x \in S \cup {x} /\ Len(s) \in Nat /\ DOMAIN s = 1 .. Len(s)
  BY <1>1
<1>3. /\ Append(s, x) \in Seq(S \cup {x}) /\ Len(Append(s, x)) = Len(s) + 1
      /\ \A i \in 1 .. Len(s) : Append(s, x)[i] = s[i]
      /\ Append(s, x)[Len(s) + 1] = x
  BY <1>2, AppendProperties
<1> QED BY <1>2, <1>3 DEF IsList

\* A call's step leaves the other calls alone.
LEMMA GotoEffect ==
    ASSUME CallsOK, NEW c \in Callers, NEW call, IsCall(call), Goto(c, call)
    PROVE  /\ calls' = [e \in Callers |-> calls'[e]]
           /\ \A e \in Callers \ {c} : calls'[e] = calls[e]
           /\ IsCall(calls'[c])
           /\ calls'[c].pc = call.pc /\ calls'[c].part = call.part /\ calls'[c].then = call.then
           /\ calls'[c].days = call.days /\ calls'[c].todo = call.todo /\ calls'[c].coins = call.coins
           /\ \/ calls'[c].seen = 0 /\ calls'[c].seenOn = 0
              \/ calls'[c].seen = call.seen /\ calls'[c].seenOn = call.seenOn
<1> DEFINE kept == IF call.pc = "missed" \/ call.days # <<>> THEN call ELSE [call EXCEPT !.seen = 0, !.seenOn = 0]
<1>1. calls' = [calls EXCEPT ![c] = kept]
  BY DEF Goto
<1>2. /\ IsCall(kept) /\ kept.pc = call.pc /\ kept.part = call.part /\ kept.then = call.then
      /\ kept.days = call.days /\ kept.todo = call.todo /\ kept.coins = call.coins
      /\ \/ kept.seen = 0 /\ kept.seenOn = 0
         \/ kept.seen = call.seen /\ kept.seenOn = call.seenOn
  BY DEF IsCall, Fields
<1> HIDE DEF kept
<1>3. calls'[c] = kept /\ \A e \in Callers \ {c} : calls'[e] = calls[e]
  BY <1>1 DEF CallsOK
<1>4. calls' = [e \in Callers |-> calls'[e]]
  BY <1>1 DEF CallsOK
<1> QED BY <1>2, <1>3, <1>4

\* The days getMissedRaffleDates lists are over.
LEMMA MissedArePast ==
    ASSUME WorldOK, NEW seen \in 0 .. Len(chain)
    PROVE  /\ IsList(MissedRaffleDates(seen))
           /\ \A i \in DOMAIN MissedRaffleDates(seen) : MissedRaffleDates(seen)[i] \in Past
<1> DEFINE start == CASE LaunchDay # 0 -> LaunchDay
                      [] LaunchDay = 0 /\ EntryDays(seen) # {} -> Min(EntryDays(seen))
                      [] OTHER -> Yesterday
           S == (start .. Yesterday) \ completed
<1>1. EntryDays(seen) \subseteq Nat \ {0}
  <2>1. \A j \in Visible(seen) : chain[j].day \in Nat \ {0}
    <3>1. Len(chain) \in Nat /\ DOMAIN chain = 1 .. Len(chain)
      BY DEF WorldOK, IsList
    <3>2. \A j \in Visible(seen) : j \in DOMAIN chain
      BY <3>1 DEF Visible
    <3>3. \A j \in DOMAIN chain : chain[j].day \in 1 .. today
      BY DEF WorldOK
    <3>4. 1 .. today \subseteq Nat \ {0}
      BY DEF WorldOK
    <3> QED BY <3>2, <3>3, <3>4
  <2> QED BY <2>1 DEF EntryDays
<1>2. ASSUME EntryDays(seen) # {} PROVE Min(EntryDays(seen)) \in EntryDays(seen)
  <2>1. EntryDays(seen) \in SUBSET Nat
    BY <1>1
  <2>2. \E x \in EntryDays(seen) : \A y \in EntryDays(seen) : x =< y
    BY <1>2, <2>1, LeastNat
  <2> QED BY <2>2 DEF Min
<1>3. Yesterday \in Nat \ {0}
  BY DEF WorldOK, Yesterday
<1>4. start \in Nat \ {0}
  <2>1. CASE LaunchDay # 0
    BY <2>1, LegacyAssumption
  <2>2. CASE LaunchDay = 0 /\ EntryDays(seen) # {}
    BY <1>1, <1>2, <2>2
  <2>3. CASE LaunchDay = 0 /\ EntryDays(seen) = {}
    BY <1>3, <2>3
  <2> QED BY <2>1, <2>2, <2>3
<1>5. MissedRaffleDates(seen) = Ascending(S)
  BY DEF MissedRaffleDates
<1> HIDE DEF start
<1>6. S \in SUBSET Nat /\ S \subseteq Past
  BY <1>3, <1>4 DEF Past
<1>7. IsFiniteSet(S)
  <2>1. IsFiniteSet(start .. Yesterday)
    BY <1>3, <1>4, FS_Interval
  <2> QED BY <2>1, FS_Subset
<1> HIDE DEF S
<1>8. Cardinality(S) \in Nat /\ Ascending(S) \in [1 .. Cardinality(S) -> S]
  BY <1>6, <1>7, AscendingLists
<1>9. Ascending(S) \in Seq(S)
  BY <1>8
<1>10. \A i \in DOMAIN Ascending(S) : Ascending(S)[i] \in S
  BY <1>8
<1> QED BY <1>5, <1>6, <1>9, <1>10 DEF IsList

\* What getPendingPayouts lists are records of the file, each once, with a winner and
\* payment pending.
LEMMA PendingOnFile ==
    ASSUME FileOK
    PROVE  /\ IsList(PendingPayouts)
           /\ \A i \in DOMAIN PendingPayouts :
                 \E k \in DOMAIN history : /\ PendingPayouts[i] = history[k]
                                           /\ history[k].payoutStatus = "pending"
           /\ \A i, j \in DOMAIN PendingPayouts : PendingPayouts[i].date = PendingPayouts[j].date => i = j
<1> DEFINE S == {i \in DOMAIN history : history[i].winner # NoWinner /\ history[i].payoutStatus = "pending"}
           order == Ascending(S)
           top == Cardinality(S)
<1>1. PICK n \in Nat : DOMAIN history = 1 .. n
  BY DEF FileOK
<1>2. S \in SUBSET Nat /\ IsFiniteSet(S)
  <2>1. IsFiniteSet(1 .. n)
    BY FS_Interval
  <2>2. S \subseteq 1 .. n
    BY <1>1
  <2>3. 1 .. n \subseteq Nat
    OBVIOUS
  <2> QED BY <2>1, <2>2, <2>3, FS_Subset
<1>3. PendingPayouts = [k \in DOMAIN order |-> history[order[k]]]
  BY DEF PendingPayouts
<1>4. S \subseteq DOMAIN history /\ \A i \in S : history[i].payoutStatus = "pending"
  OBVIOUS
<1> HIDE DEF S
<1>5. /\ top \in Nat /\ order \in [1 .. top -> S]
      /\ \A i, j \in 1 .. top : order[i] = order[j] => i = j
  BY <1>2, AscendingLists
<1> HIDE DEF order, top
<1>6. DOMAIN PendingPayouts = 1 .. top /\ \A i \in 1 .. top : PendingPayouts[i] = history[order[i]] /\ order[i] \in S
  BY <1>3, <1>5
<1>7. IsList(PendingPayouts)
  <2> DEFINE T == {history[i] : i \in S}
  <2>1. PendingPayouts \in [1 .. top -> T]
    BY <1>3, <1>5
  <2> HIDE DEF T
  <2>2. PendingPayouts \in Seq(T)
    BY <1>5, <2>1
  <2> QED BY <2>2 DEF IsList
<1>8. ASSUME NEW i \in 1 .. top, NEW j \in 1 .. top, PendingPayouts[i].date = PendingPayouts[j].date PROVE i = j
  <2>1. order[i] = order[j]
    BY <1>4, <1>6, <1>8 DEF FileOK, OneRecordPerDay
  <2> QED BY <1>5, <2>1
<1> QED BY <1>4, <1>6, <1>7, <1>8

\* A transaction the chain takes is the last of it and keeps its contents.
LEMMA AcceptAppends ==
    ASSUME IsList(chain), NEW tx, Accept(tx)
    PROVE  /\ IsList(chain') /\ Len(chain) \in Nat /\ Len(chain') = Len(chain) + 1
           /\ DOMAIN chain = 1 .. Len(chain) /\ DOMAIN chain' = 1 .. Len(chain) + 1
           /\ \A i \in DOMAIN chain : chain'[i] = chain[i]
           /\ chain'[Len(chain) + 1].day = today
           /\ chain'[Len(chain) + 1].date = tx.date /\ chain'[Len(chain) + 1].winner = tx.winner
           /\ chain'[Len(chain) + 1].prize = tx.prize /\ chain'[Len(chain) + 1].ins = tx.ins
           /\ chain'[Len(chain) + 1].out = tx.out
<1> DEFINE x == Accepted(tx, today)
<1>1. /\ x.day = today /\ x.date = tx.date /\ x.winner = tx.winner
      /\ x.prize = tx.prize /\ x.ins = tx.ins /\ x.out = tx.out
  BY DEF Accepted
<1>2. chain' = Append(chain, x)
  BY DEF Accept
<1> HIDE DEF x
<1>3. /\ IsList(Append(chain, x)) /\ Len(chain) \in Nat /\ DOMAIN chain = 1 .. Len(chain)
      /\ Len(Append(chain, x)) = Len(chain) + 1 /\ DOMAIN Append(chain, x) = 1 .. Len(chain) + 1
      /\ Append(chain, x)[Len(chain) + 1] = x
      /\ \A i \in DOMAIN chain : Append(chain, x)[i] = chain[i]
  BY AppendOf
<1> QED BY <1>1, <1>2, <1>3

\* markPayoutStatus finds the one record of the day.
LEMMA MarkFindsRecord ==
    ASSUME FileOK, NEW k \in DOMAIN history, NEW status, MarkPayoutStatus(history[k].date, status)
    PROVE  history' = [history EXCEPT ![k].payoutStatus = status] /\ UNCHANGED completed
<1> DEFINE day == history[k].date
           I == {i \in 1 .. Len(history) : history[i].date = day}
<1>1. DOMAIN history = 1 .. Len(history) /\ 1 .. Len(history) \subseteq Nat
  BY DEF FileOK
<1>2. I = {k}
  BY <1>1 DEF FileOK, OneRecordPerDay
<1>3. Min({k}) = k
  BY <1>1 DEF Min
<1>4. RecordOf(day) = IF I # {} THEN Min(I) ELSE 0
  BY DEF RecordOf, SelectInSeq
<1> HIDE DEF I, day
<1>5. RecordOf(day) = k /\ k # 0
  BY <1>1, <1>2, <1>3, <1>4
<1> QED BY <1>5 DEF MarkPayoutStatus, day

\* The step of c leaves its call at pc with these days to draw and records to pay.
Moves(c, pc, days, todo) ==
    /\ calls' = [e \in Callers |-> calls'[e]]
    /\ \A e \in Callers \ {c} : calls'[e] = calls[e]
    /\ IsCall(calls'[c])
    /\ calls'[c].pc = pc /\ calls'[c].days = days /\ calls'[c].todo = todo
SeenStays(c) == calls'[c].seen \in {0, calls[c].seen}

\* The calls before the first await.
LEMMA FreshCalls ==
    /\ IsCall(Idle) /\ Idle.pc = "idle" /\ Idle.days = <<>> /\ Idle.todo = <<>> /\ Idle.seen = 0
    /\ IsCall(FetchForYesterday) /\ FetchForYesterday.pc = "fetch"
    /\ FetchForYesterday.days = <<Yesterday>> /\ FetchForYesterday.todo = <<>> /\ FetchForYesterday.seen = 0
    /\ \A b : /\ IsCall(FetchForQueue(b)) /\ FetchForQueue(b).pc = "fetch"
              /\ FetchForQueue(b).days = <<>> /\ FetchForQueue(b).todo = <<>> /\ FetchForQueue(b).seen = 0
BY DEF IsCall, Fields, Idle, FetchForYesterday, FetchForQueue

\* What each handler's step does to its call: the start of a part and its end, the
\* draws, the payments.
LEMMA CallEffect ==
    ASSUME CallsOK, NEW c \in Callers
    PROVE  /\ StartQueue(c) => Moves(c, "fetch", <<>>, <<>>) /\ calls'[c].seen = 0
           /\ StartYesterday(c) => Moves(c, "fetch", <<Yesterday>>, <<>>) /\ calls'[c].seen = 0
           /\ End(c) => /\ Moves(c, "fetch", <<Yesterday>>, <<>>) \/ Moves(c, "idle", <<>>, <<>>)
                        /\ calls'[c].seen = 0
           /\ Fetched(c) => /\ Moves(c, "missed", calls[c].days, calls[c].todo)
                               \/ Moves(c, "draw", calls[c].days, calls[c].todo)
                            /\ calls'[c].seen \in {0, Len(chain)}
           /\ CatchUpMissedDraws(c) => Moves(c, "draw", MissedRaffleDates(calls[c].seen), calls[c].todo) /\ SeenStays(c)
           /\ \A d : Goto(c, [calls[c] EXCEPT !.days = d]) =>
                           Moves(c, calls[c].pc, d, calls[c].todo) /\ SeenStays(c)
           /\ \A d, t : Goto(c, [calls[c] EXCEPT !.days = d, !.todo = t]) => Moves(c, calls[c].pc, d, t) /\ SeenStays(c)
           /\ NextRecord(c) => Moves(c, "draw", calls[c].days, Tail(calls[c].todo)) /\ SeenStays(c)
           /\ \A pc : Step(c, pc) => Moves(c, pc, calls[c].days, calls[c].todo) /\ SeenStays(c)
           /\ SelectCoins(c) => \E pc \in {"failed", "submit"} :
                                   Moves(c, pc, calls[c].days, calls[c].todo) /\ SeenStays(c)
           /\ ReadPending(c) => Moves(c, calls[c].pc, calls[c].days, PendingPayouts) /\ SeenStays(c)
<1>0. IsCall(calls[c])
  BY DEF CallsOK, CallOK
<1>1. ASSUME NEW call, IsCall(call), Goto(c, call)
      PROVE  Moves(c, call.pc, call.days, call.todo) /\ calls'[c].seen \in {0, call.seen}
  BY <1>1, GotoEffect DEF Moves
<1>2. StartQueue(c) => Moves(c, "fetch", <<>>, <<>>) /\ calls'[c].seen = 0
  <2> SUFFICES ASSUME StartQueue(c) PROVE Moves(c, "fetch", <<>>, <<>>) /\ calls'[c].seen = 0
    OBVIOUS
  <2>1. PICK b : Goto(c, FetchForQueue(b))
    BY DEF StartQueue
  <2> QED BY <1>1, <2>1, FreshCalls
<1>3. StartYesterday(c) => Moves(c, "fetch", <<Yesterday>>, <<>>) /\ calls'[c].seen = 0
  <2> SUFFICES ASSUME StartYesterday(c) PROVE Moves(c, "fetch", <<Yesterday>>, <<>>) /\ calls'[c].seen = 0
    OBVIOUS
  <2>1. Goto(c, FetchForYesterday)
    BY DEF StartYesterday
  <2> QED BY <1>1, <2>1, FreshCalls
<1>4. End(c) => /\ Moves(c, "fetch", <<Yesterday>>, <<>>) \/ Moves(c, "idle", <<>>, <<>>)
                /\ calls'[c].seen = 0
  <2> SUFFICES ASSUME End(c)
               PROVE  /\ Moves(c, "fetch", <<Yesterday>>, <<>>) \/ Moves(c, "idle", <<>>, <<>>)
                      /\ calls'[c].seen = 0
    OBVIOUS
  <2>1. Goto(c, FetchForYesterday) \/ Goto(c, Idle)
    BY DEF End
  <2> QED BY <1>1, <2>1, FreshCalls
<1>5. Fetched(c) => /\ Moves(c, "missed", calls[c].days, calls[c].todo)
                       \/ Moves(c, "draw", calls[c].days, calls[c].todo)
                    /\ calls'[c].seen \in {0, Len(chain)}
  <2> SUFFICES ASSUME Fetched(c)
               PROVE  /\ Moves(c, "missed", calls[c].days, calls[c].todo)
                         \/ Moves(c, "draw", calls[c].days, calls[c].todo)
                      /\ calls'[c].seen \in {0, Len(chain)}
    OBVIOUS
  <2> DEFINE Next1(pc) == [calls[c] EXCEPT !.pc = pc, !.seen = Len(chain), !.seenOn = today]
  <2>1. Goto(c, Next1("missed")) \/ Goto(c, Next1("draw"))
    BY DEF Fetched
  <2>2. \A pc : /\ IsCall(Next1(pc)) /\ Next1(pc).pc = pc /\ Next1(pc).days = calls[c].days
                /\ Next1(pc).todo = calls[c].todo /\ Next1(pc).seen = Len(chain)
    BY <1>0 DEF IsCall, Fields
  <2> HIDE DEF Next1
  <2> QED BY <1>1, <2>1, <2>2
<1>6. CatchUpMissedDraws(c) => Moves(c, "draw", MissedRaffleDates(calls[c].seen), calls[c].todo) /\ SeenStays(c)
  <2> SUFFICES ASSUME CatchUpMissedDraws(c)
               PROVE  Moves(c, "draw", MissedRaffleDates(calls[c].seen), calls[c].todo) /\ SeenStays(c)
    OBVIOUS
  <2> DEFINE y == [calls[c] EXCEPT !.pc = "draw", !.days = MissedRaffleDates(calls[c].seen)]
  <2>1. Goto(c, y)
    BY DEF CatchUpMissedDraws
  <2>2. /\ IsCall(y) /\ y.pc = "draw" /\ y.days = MissedRaffleDates(calls[c].seen)
        /\ y.todo = calls[c].todo /\ y.seen = calls[c].seen
    BY <1>0 DEF IsCall, Fields
  <2> HIDE DEF y
  <2> QED BY <1>1, <2>1, <2>2 DEF SeenStays
<1>7. ASSUME NEW d, Goto(c, [calls[c] EXCEPT !.days = d])
      PROVE  Moves(c, calls[c].pc, d, calls[c].todo) /\ SeenStays(c)
  <2> DEFINE y == [calls[c] EXCEPT !.days = d]
  <2>1. IsCall(y) /\ y.pc = calls[c].pc /\ y.days = d /\ y.todo = calls[c].todo /\ y.seen = calls[c].seen
    BY <1>0 DEF IsCall, Fields
  <2>2. Goto(c, y)
    BY <1>7
  <2> HIDE DEF y
  <2> QED BY <1>1, <2>1, <2>2 DEF SeenStays
<1>8. ASSUME NEW d, NEW t, Goto(c, [calls[c] EXCEPT !.days = d, !.todo = t])
      PROVE  Moves(c, calls[c].pc, d, t) /\ SeenStays(c)
  <2> DEFINE y == [calls[c] EXCEPT !.days = d, !.todo = t]
  <2>1. IsCall(y) /\ y.pc = calls[c].pc /\ y.days = d /\ y.todo = t /\ y.seen = calls[c].seen
    BY <1>0 DEF IsCall, Fields
  <2>2. Goto(c, y)
    BY <1>8
  <2> HIDE DEF y
  <2> QED BY <1>1, <2>1, <2>2 DEF SeenStays
<1>9. NextRecord(c) => Moves(c, "draw", calls[c].days, Tail(calls[c].todo)) /\ SeenStays(c)
  <2> SUFFICES ASSUME NextRecord(c)
               PROVE  Moves(c, "draw", calls[c].days, Tail(calls[c].todo)) /\ SeenStays(c)
    OBVIOUS
  <2> DEFINE y == [calls[c] EXCEPT !.pc = "draw", !.todo = Tail(calls[c].todo), !.coins = {}]
  <2>1. Goto(c, y)
    BY DEF NextRecord
  <2>2. /\ IsCall(y) /\ y.pc = "draw" /\ y.days = calls[c].days
        /\ y.todo = Tail(calls[c].todo) /\ y.seen = calls[c].seen
    BY <1>0 DEF IsCall, Fields
  <2> HIDE DEF y
  <2> QED BY <1>1, <2>1, <2>2 DEF SeenStays
<1>10. ASSUME NEW pc, Step(c, pc) PROVE Moves(c, pc, calls[c].days, calls[c].todo) /\ SeenStays(c)
  <2> DEFINE y == [calls[c] EXCEPT !.pc = pc]
  <2>1. Goto(c, y)
    BY <1>10 DEF Step
  <2>2. IsCall(y) /\ y.pc = pc /\ y.days = calls[c].days /\ y.todo = calls[c].todo /\ y.seen = calls[c].seen
    BY <1>0 DEF IsCall, Fields
  <2> HIDE DEF y
  <2> QED BY <1>1, <2>1, <2>2 DEF SeenStays
<1>11. SelectCoins(c) => \E pc \in {"failed", "submit"} :
                            Moves(c, pc, calls[c].days, calls[c].todo) /\ SeenStays(c)
  <2> SUFFICES ASSUME SelectCoins(c)
               PROVE  \E pc \in {"failed", "submit"} : Moves(c, pc, calls[c].days, calls[c].todo) /\ SeenStays(c)
    OBVIOUS
  <2> DEFINE y(k) == [calls[c] EXCEPT !.pc = "submit", !.coins = k]
  <2>1. Step(c, "failed") \/ \E k : Goto(c, y(k))
    BY DEF SelectCoins
  <2>2. \A k : /\ IsCall(y(k)) /\ y(k).pc = "submit" /\ y(k).days = calls[c].days
               /\ y(k).todo = calls[c].todo /\ y(k).seen = calls[c].seen
    BY <1>0 DEF IsCall, Fields
  <2> HIDE DEF y
  <2>3. ASSUME NEW k, Goto(c, y(k)) PROVE Moves(c, "submit", calls[c].days, calls[c].todo) /\ SeenStays(c)
    BY <1>1, <2>2, <2>3 DEF SeenStays
  <2> QED BY <1>10, <2>1, <2>3
<1>12. ReadPending(c) => Moves(c, calls[c].pc, calls[c].days, PendingPayouts) /\ SeenStays(c)
  <2> SUFFICES ASSUME ReadPending(c) PROVE Moves(c, calls[c].pc, calls[c].days, PendingPayouts) /\ SeenStays(c)
    OBVIOUS
  <2> DEFINE y == [calls[c] EXCEPT !.part = "pending", !.todo = PendingPayouts]
  <2>1. Goto(c, y)
    BY DEF ReadPending
  <2>2. /\ IsCall(y) /\ y.pc = calls[c].pc /\ y.days = calls[c].days
        /\ y.todo = PendingPayouts /\ y.seen = calls[c].seen
    BY <1>0 DEF IsCall, Fields
  <2> HIDE DEF y
  <2> QED BY <1>1, <2>1, <2>2 DEF SeenStays
<1> QED BY <1>2, <1>3, <1>4, <1>5, <1>6, <1>7, <1>8, <1>9, <1>10, <1>11, <1>12

\* The record a call is about to pay.
LEMMA RecordInHand ==
    ASSUME CallsOK, NEW c \in Callers, calls[c].todo # <<>>
    PROVE  /\ 1 \in DOMAIN calls[c].todo /\ Record(c) = calls[c].todo[1]
           /\ IsRecord(Record(c)) /\ Record(c).date \in Past
<1>1. IsList(calls[c].todo) /\ \A i \in DOMAIN calls[c].todo : IsRecord(calls[c].todo[i]) /\ calls[c].todo[i].date \in Past
  BY DEF CallsOK, CallOK
<1>2. Head(calls[c].todo) = calls[c].todo[1] /\ 1 \in DOMAIN calls[c].todo
  BY <1>1, TailOf
<1> QED BY <1>1, <1>2 DEF Record

\* The day a call is about to draw.
LEMMA DayInHand ==
    ASSUME CallsOK, NEW c \in Callers, calls[c].days # <<>>
    PROVE  /\ Head(calls[c].days) \in Past /\ IsList(Tail(calls[c].days))
           /\ \A i \in DOMAIN Tail(calls[c].days) : Tail(calls[c].days)[i] \in Past
<1>1. IsList(calls[c].days) /\ \A i \in DOMAIN calls[c].days : calls[c].days[i] \in Past
  BY DEF CallsOK, CallOK
<1>2. /\ IsList(Tail(calls[c].days)) /\ Head(calls[c].days) = calls[c].days[1] /\ 1 \in DOMAIN calls[c].days
      /\ \A i \in DOMAIN Tail(calls[c].days) : /\ i + 1 \in DOMAIN calls[c].days
                                               /\ Tail(calls[c].days)[i] = calls[c].days[i + 1]
  BY <1>1, TailOf
<1> QED BY <1>1, <1>2

\* A submitted payout is of a call that has its record in hand.
LEMMA PayoutInHand ==
    ASSUME CallsOK, NEW c \in Callers, SubmitPayout(c)
    PROVE  /\ calls[c].todo # <<>> /\ calls[c].days = <<>>
           /\ \E tx : /\ mempool' = mempool \cup {tx}
                      /\ tx.date = Record(c).date /\ tx.winner = Record(c).winner
                      /\ tx.prize = Record(c).jackpot \div 2
<1>1. calls[c].todo # <<>> /\ calls[c].days = <<>>
  BY DEF SubmitPayout, At, CallsOK, CallOK
<1>2. mempool' = mempool \cup {Payout(Record(c), calls[c].coins)}
  BY DEF SubmitPayout
<1>3. /\ Payout(Record(c), calls[c].coins).date = Record(c).date
      /\ Payout(Record(c), calls[c].coins).winner = Record(c).winner
      /\ Payout(Record(c), calls[c].coins).prize = Record(c).jackpot \div 2
  BY DEF Payout
<1> QED BY <1>1, <1>2, <1>3

\* What a step of the world or of a call does to the wallet: nothing, a transaction
\* enters the chain, or a payout enters the mempool.
LEMMA WalletEffect ==
    ASSUME CallsOK, [Next]_vars
    PROVE  \/ UNCHANGED wallet
           \/ \E amount \in Amounts, sender \in BOOLEAN :
                Accept(Deposit(amount, sender)) /\ UNCHANGED <<mempool, file, payoutHistory, calls, ghosts>>
           \/ \E tx \in mempool : Accept(tx) /\ mempool' = mempool \ {tx} /\ UNCHANGED <<file, payoutHistory, calls, ghosts>>
           \/ \E c \in Callers : SubmitPayout(c)
<1>1. CASE Enter
  BY <1>1 DEF Enter
<1>2. CASE AcceptPayout
  BY <1>2 DEF AcceptPayout
<1>3. CASE PassTime \/ UNCHANGED vars
  BY <1>3 DEF PassTime, vars
<1>4. ASSUME NEW c \in Callers, StartQueue(c) \/ StartYesterday(c) \/ Draw(c) \/ Fail(c) PROVE UNCHANGED wallet
  BY <1>4 DEF StartQueue, StartYesterday, Draw, Fetched, CatchUpMissedDraws, RunDrawForDate,
              Fail, FetchFails, ConnectFails, AnswerLost, DisconnectFails, wallet
<1>5. ASSUME NEW c \in Callers, Pay(c) PROVE UNCHANGED wallet \/ SubmitPayout(c)
  BY <1>5 DEF Pay, NotRequired, PayoutsDisabled, SelectCoins, SubmitRefused, Answered, MarkCompleted,
              PaymentFailed, ReadPending, RefreshSnapshot, wallet
<1>6. CASE Crash \/ TornDrawState
  BY <1>6 DEF Crash, TornDrawState, Restart
<1> QED BY <1>1, <1>2, <1>3, <1>4, <1>5, <1>6 DEF Next

\* Days only pass.
LEMMA DayEffect ==
    ASSUME WorldOK, [Next]_vars
    PROVE  today' \in Nat \ {0, 1} /\ today <= today' /\ Past \subseteq Past'
<1>1. today' = today \/ today' = today + 1
  <2>1. CASE Enter \/ AcceptPayout \/ PassTime \/ UNCHANGED vars
    BY <2>1 DEF Enter, AcceptPayout, PassTime, vars
  <2>2. ASSUME NEW c \in Callers, StartQueue(c) \/ StartYesterday(c) \/ Draw(c) \/ Fail(c) PROVE today' = today
    BY <2>2 DEF StartQueue, StartYesterday, Draw, Fetched, CatchUpMissedDraws, RunDrawForDate,
                Fail, FetchFails, ConnectFails, AnswerLost, DisconnectFails
  <2>3. ASSUME NEW c \in Callers, Pay(c) PROVE today' = today
    BY <2>3 DEF Pay, NotRequired, PayoutsDisabled, SelectCoins, SubmitPayout, SubmitRefused, Answered, MarkCompleted,
                PaymentFailed, ReadPending, RefreshSnapshot
  <2>4. CASE Crash \/ TornDrawState
    BY <2>4 DEF Crash, TornDrawState, Restart
  <2> QED BY <2>1, <2>2, <2>3, <2>4 DEF Next
<1> QED BY <1>1 DEF WorldOK, Past, Yesterday

\* The chain only grows, and its transactions are of days up to today.
LEMMA ChainEffect ==
    ASSUME WorldOK, CallsOK, [Next]_vars
    PROVE  /\ IsList(chain') /\ Len(chain) \in Nat /\ Len(chain') \in Nat /\ Len(chain) <= Len(chain')
           /\ DOMAIN chain = 1 .. Len(chain) /\ DOMAIN chain' = 1 .. Len(chain')
           /\ \A i \in DOMAIN chain : i \in DOMAIN chain' /\ chain'[i] = chain[i]
           /\ \A i \in DOMAIN chain' : i \in DOMAIN chain \/ chain'[i].day = today
<1>1. IsList(chain)
  BY DEF WorldOK
<1>2. Len(chain) \in Nat /\ DOMAIN chain = 1 .. Len(chain)
  BY <1>1 DEF IsList
<1>3. CASE chain' = chain
  BY <1>1, <1>2, <1>3
<1>4. ASSUME NEW tx, Accept(tx)
      PROVE  /\ IsList(chain') /\ Len(chain') \in Nat /\ Len(chain) <= Len(chain')
             /\ DOMAIN chain = 1 .. Len(chain) /\ DOMAIN chain' = 1 .. Len(chain')
             /\ \A i \in DOMAIN chain : i \in DOMAIN chain' /\ chain'[i] = chain[i]
             /\ \A i \in DOMAIN chain' : i \in DOMAIN chain \/ chain'[i].day = today
  <2>1. /\ IsList(chain') /\ Len(chain) \in Nat /\ Len(chain') = Len(chain) + 1
        /\ DOMAIN chain = 1 .. Len(chain) /\ DOMAIN chain' = 1 .. Len(chain) + 1
        /\ \A i \in DOMAIN chain : chain'[i] = chain[i]
        /\ chain'[Len(chain) + 1].day = today
    BY <1>1, <1>4, AcceptAppends
  <2> QED BY <2>1
<1>5. ASSUME NEW c \in Callers, SubmitPayout(c) PROVE chain' = chain
  BY <1>5 DEF SubmitPayout
<1> QED BY <1>2, <1>3, <1>4, <1>5, WalletEffect DEF wallet

-----------------------------------------------------------------------------
(***************************************************************************)
(* The kinds of steps, by what they do to the file, to the payouts and to  *)
(* the records in the calls' hands.                                        *)
(***************************************************************************)
Submitted == {"sent", "disconnect"}
LetGo(c) == calls[c].todo # <<>> /\ Moves(c, "draw", calls[c].days, Tail(calls[c].todo))

Outside == UNCHANGED <<file, payoutHistory, calls, disturbed, forgotten>>
Restarted ==
    /\ calls' = [c \in Callers |-> Idle]
    /\ disturbed' = disturbed \cup {Record(c).date : c \in {d \in Callers : calls[d].pc \in Submitted}}
    /\ UNCHANGED <<today, wallet, payoutHistory>>
    /\ UNCHANGED <<file, forgotten>> \/ Tearing
Waits(c) ==
    /\ calls[c].pc \notin Submitted
    /\ \E pc, days : pc \notin Submitted /\ Moves(c, pc, days, calls[c].todo)
    /\ UNCHANGED <<wallet, file, payoutHistory, disturbed, forgotten>>
Decides(c, r) ==
    LET entries == ParseEntriesForDay(calls[c].seen, r.date) IN
    /\ \E winner \in IF entries = {} THEN {NoWinner} ELSE entries : r = DrawRecord(calls[c].seen, r.date, winner)
    /\ early' = IF calls[c].seenOn <= r.date THEN early \cup {r.date} ELSE early
Draws(c, r) ==
    /\ calls[c].pc = "draw" /\ calls[c].days # <<>> /\ Decides(c, r)
    /\ IsRecord(r) /\ r.date = Head(calls[c].days) /\ r.date \notin completed /\ r.payoutStatus # "completed"
    /\ history' = <<r>> \o history /\ completed' = completed \cup {r.date}
    /\ Moves(c, "draw", Tail(calls[c].days), Append(calls[c].todo, r))
    /\ UNCHANGED <<wallet, payoutHistory, disturbed, forgotten>>
Skips(c) ==
    /\ calls[c].pc \notin Submitted /\ LetGo(c)
    /\ UNCHANGED <<wallet, file, payoutHistory, disturbed, forgotten>>
Marks(c, status) ==
    /\ status \in {"not_required", "pending", "completed"}
    /\ calls[c].pc # "sent" /\ (status = "completed" <=> calls[c].pc = "disconnect")
    /\ LetGo(c) /\ MarkPayoutStatus(Record(c).date, status)
    /\ UNCHANGED <<wallet, payoutHistory, disturbed, forgotten>>
Submits(c) ==
    /\ calls[c].pc = "submit" /\ SubmitPayout(c)
    /\ Moves(c, "sent", calls[c].days, calls[c].todo)
    /\ UNCHANGED <<chain, file, payoutHistory, disturbed, forgotten>>
Loses(c) ==
    /\ calls[c].pc \in Submitted /\ Moves(c, "failed", calls[c].days, calls[c].todo)
    /\ disturbed' = disturbed \cup {Record(c).date}
    /\ UNCHANGED <<wallet, file, payoutHistory, forgotten>>
Learns(c) ==
    /\ calls[c].pc = "sent" /\ Moves(c, "disconnect", calls[c].days, calls[c].todo)
    /\ payoutHistory' = payoutHistory \cup {Record(c).date}
    /\ UNCHANGED <<wallet, file, disturbed, forgotten>>
TakesUp(c) ==
    /\ calls[c].pc = "draw" /\ calls[c].todo = <<>> /\ Moves(c, "draw", calls[c].days, PendingPayouts)
    /\ disturbed' = disturbed \cup
          ({r.date : r \in Range(PendingPayouts)} \cap UNION {Dates(d) : d \in Callers})
    /\ UNCHANGED <<wallet, file, payoutHistory, forgotten>>

\* Every step is of one of these kinds.
LEMMA StepKinds ==
    ASSUME CallsOK, [Next]_vars
    PROVE  \/ Outside \/ Restarted
           \/ \E c \in Callers :
                 \/ Waits(c) \/ Skips(c) \/ Submits(c) \/ Loses(c) \/ Learns(c) \/ TakesUp(c)
                 \/ \E r : Draws(c, r)
                 \/ \E status : Marks(c, status)
<1>1. CASE Enter \/ AcceptPayout \/ PassTime \/ UNCHANGED vars
  BY <1>1 DEF Enter, AcceptPayout, PassTime, vars, Outside, ghosts, file
<1>2. CASE Crash
  BY <1>2 DEF Crash, Restart, Restarted, Submitted, file
<1>3. CASE TornDrawState
  BY <1>3 DEF TornDrawState, Restart, Restarted, Submitted, Tearing
<1>4. ASSUME NEW c \in Callers
      PROVE  /\ calls[c].pc \in {"submit", "sent", "disconnect", "failed"} => calls[c].todo # <<>>
             /\ calls[c].pc \in {"idle", "fetch", "missed"} => calls[c].todo = <<>>
  BY DEF CallsOK, CallOK
<1>5. ASSUME NEW c \in Callers, StartQueue(c) \/ StartYesterday(c) PROVE Waits(c)
  <2>1. calls[c].pc = "idle" /\ calls[c].todo = <<>>
    BY <1>4, <1>5 DEF StartQueue, StartYesterday, At
  <2>2. \E days : Moves(c, "fetch", days, <<>>)
    BY <1>5, CallEffect
  <2> QED BY <1>5, <2>1, <2>2 DEF StartQueue, StartYesterday, Waits, Submitted, ghosts, wallet, file
<1>6. ASSUME NEW c \in Callers, calls[c].pc \notin Submitted, calls[c].todo = <<>>, End(c),
             UNCHANGED <<wallet, file, payoutHistory, disturbed, forgotten>>
      PROVE  Waits(c)
  <2>1. Moves(c, "fetch", <<Yesterday>>, <<>>) \/ Moves(c, "idle", <<>>, <<>>)
    BY <1>6, CallEffect
  <2>2. "fetch" \notin Submitted /\ "idle" \notin Submitted
    BY DEF Submitted
  <2> QED BY <1>6, <2>1, <2>2 DEF Waits
<1>7. ASSUME NEW c \in Callers, Fetched(c) \/ CatchUpMissedDraws(c) PROVE Waits(c)
  <2>1. calls[c].pc \in {"fetch", "missed"}
    BY <1>7 DEF Fetched, CatchUpMissedDraws, At
  <2>2. \E pc \in {"missed", "draw"} : \E days : Moves(c, pc, days, calls[c].todo)
    BY <1>7, CallEffect
  <2> QED BY <1>7, <2>1, <2>2 DEF Fetched, CatchUpMissedDraws, Waits, Submitted, ghosts
<1>8. ASSUME NEW c \in Callers, RunDrawForDate(c) PROVE Waits(c) \/ \E r : Draws(c, r)
  <2> DEFINE day == Head(calls[c].days)
  <2>1. calls[c].pc = "draw" /\ calls[c].days # <<>>
    BY <1>8 DEF RunDrawForDate, At
  <2>2. UNCHANGED <<wallet, payoutHistory, disturbed, forgotten>>
    BY <1>8 DEF RunDrawForDate
  <2>3. CASE day \in completed
    <3>1. Goto(c, [calls[c] EXCEPT !.days = Tail(calls[c].days)]) /\ UNCHANGED file
      BY <1>8, <2>3 DEF RunDrawForDate
    <3>2. Moves(c, calls[c].pc, Tail(calls[c].days), calls[c].todo)
      BY <3>1, CallEffect
    <3> QED BY <2>1, <2>2, <3>1, <3>2 DEF Waits, Submitted, file
  <2>4. CASE day \notin completed
    <3> DEFINE R(winner) == DrawRecord(calls[c].seen, day, winner)
    <3>1. PICK winner \in IF ParseEntriesForDay(calls[c].seen, day) = {} THEN {NoWinner}
                          ELSE ParseEntriesForDay(calls[c].seen, day) :
                        /\ history' = <<R(winner)>> \o history
                        /\ completed' = completed \cup {day}
                        /\ early' = IF calls[c].seenOn <= day THEN early \cup {day} ELSE early
                        /\ Goto(c, [calls[c] EXCEPT !.days = Tail(calls[c].days), !.todo = Append(calls[c].todo, R(winner))])
      BY <1>8, <2>4 DEF RunDrawForDate
    <3>2. /\ IsRecord(R(winner)) /\ R(winner).date = day /\ R(winner).payoutStatus # "completed"
      BY DEF DrawRecord, IsRecord
    <3>3. Moves(c, calls[c].pc, Tail(calls[c].days), Append(calls[c].todo, R(winner)))
      BY <3>1, CallEffect
    <3>4. Decides(c, R(winner))
      BY <3>1, <3>2 DEF Decides
    <3> HIDE DEF R
    <3>5. Draws(c, R(winner))
      BY <2>1, <2>2, <2>4, <3>1, <3>2, <3>3, <3>4 DEF Draws
    <3> QED BY <3>5
  <2> QED BY <2>3, <2>4
<1>9. ASSUME NEW c \in Callers, NotRequired(c) PROVE Marks(c, "not_required")
  <2>1. calls[c].pc = "draw" /\ calls[c].todo # <<>> /\ NextRecord(c)
    BY <1>9 DEF NotRequired, Paying, At
  <2>2. Moves(c, "draw", calls[c].days, Tail(calls[c].todo))
    BY <2>1, CallEffect
  <2> QED BY <1>9, <2>1, <2>2 DEF NotRequired, Marks, LetGo, ghosts
<1>10. ASSUME NEW c \in Callers, PayoutsDisabled(c) PROVE Skips(c)
  <2>1. calls[c].pc = "draw" /\ calls[c].todo # <<>> /\ NextRecord(c)
    BY <1>10 DEF PayoutsDisabled, Paying, At
  <2>2. Moves(c, "draw", calls[c].days, Tail(calls[c].todo))
    BY <2>1, CallEffect
  <2> QED BY <1>10, <2>1, <2>2 DEF PayoutsDisabled, Skips, LetGo, Submitted, ghosts
<1>11. ASSUME NEW c \in Callers, SelectCoins(c) \/ ConnectFails(c) \/ SubmitRefused(c) PROVE Waits(c)
  <2>1. calls[c].pc \in {"draw", "submit"}
    BY <1>11 DEF SelectCoins, ConnectFails, SubmitRefused, MustPay, Paying, At
  <2>2. \E pc \in {"failed", "submit"} : Moves(c, pc, calls[c].days, calls[c].todo)
    <3>1. CASE SelectCoins(c)
      BY <3>1, CallEffect
    <3>2. CASE ConnectFails(c) \/ SubmitRefused(c)
      <4>1. Step(c, "failed")
        BY <3>2 DEF ConnectFails, SubmitRefused
      <4> QED BY <4>1, CallEffect
    <3> QED BY <1>11, <3>1, <3>2
  <2> QED BY <1>11, <2>1, <2>2 DEF SelectCoins, ConnectFails, SubmitRefused, Waits, Submitted, ghosts
<1>12. ASSUME NEW c \in Callers, SubmitPayout(c) PROVE Submits(c)
  <2>1. calls[c].pc = "submit" /\ Step(c, "sent")
    BY <1>12 DEF SubmitPayout, At
  <2>2. Moves(c, "sent", calls[c].days, calls[c].todo)
    BY <2>1, CallEffect
  <2> QED BY <1>12, <2>1, <2>2 DEF SubmitPayout, Submits, ghosts
<1>13. ASSUME NEW c \in Callers, Answered(c) PROVE Learns(c)
  <2>1. calls[c].pc = "sent" /\ Step(c, "disconnect")
    BY <1>13 DEF Answered, At
  <2>2. Moves(c, "disconnect", calls[c].days, calls[c].todo)
    BY <2>1, CallEffect
  <2> QED BY <1>13, <2>1, <2>2 DEF Answered, Learns, ghosts
<1>14. ASSUME NEW c \in Callers, AnswerLost(c) \/ DisconnectFails(c) PROVE Loses(c)
  <2>1. calls[c].pc \in Submitted /\ Step(c, "failed")
    BY <1>14 DEF AnswerLost, DisconnectFails, At, Submitted
  <2>2. Moves(c, "failed", calls[c].days, calls[c].todo)
    BY <2>1, CallEffect
  <2> QED BY <1>14, <2>1, <2>2 DEF AnswerLost, DisconnectFails, Loses
<1>15. ASSUME NEW c \in Callers, MarkCompleted(c) PROVE Marks(c, "completed")
  <2>1. calls[c].pc = "disconnect" /\ calls[c].todo # <<>> /\ NextRecord(c)
    BY <1>4, <1>15 DEF MarkCompleted, At
  <2>2. Moves(c, "draw", calls[c].days, Tail(calls[c].todo))
    BY <2>1, CallEffect
  <2> QED BY <1>15, <2>1, <2>2 DEF MarkCompleted, Marks, LetGo, ghosts
<1>16. ASSUME NEW c \in Callers, PaymentFailed(c) PROVE Marks(c, "pending")
  <2>1. calls[c].pc = "failed" /\ calls[c].todo # <<>> /\ NextRecord(c)
    BY <1>4, <1>16 DEF PaymentFailed, At
  <2>2. Moves(c, "draw", calls[c].days, Tail(calls[c].todo))
    BY <2>1, CallEffect
  <2> QED BY <1>16, <2>1, <2>2 DEF PaymentFailed, Marks, LetGo, ghosts
<1>17. ASSUME NEW c \in Callers, ReadPending(c) PROVE TakesUp(c)
  <2>1. calls[c].pc = "draw" /\ calls[c].todo = <<>>
    BY <1>17 DEF ReadPending, Paying, At
  <2>2. Moves(c, calls[c].pc, calls[c].days, PendingPayouts)
    BY <1>17, CallEffect
  <2> QED BY <1>17, <2>1, <2>2 DEF ReadPending, TakesUp
<1>18. ASSUME NEW c \in Callers, RefreshSnapshot(c) PROVE Waits(c)
  <2>1. calls[c].pc = "draw" /\ calls[c].todo = <<>> /\ End(c)
    BY <1>18 DEF RefreshSnapshot, Paying, At
  <2> QED BY <1>6, <1>18, <2>1 DEF RefreshSnapshot, Submitted, ghosts
<1>19. ASSUME NEW c \in Callers, FetchFails(c) PROVE Waits(c)
  <2>1. calls[c].pc = "fetch" /\ calls[c].todo = <<>> /\ End(c)
    BY <1>4, <1>19 DEF FetchFails, At
  <2> QED BY <1>6, <1>19, <2>1 DEF FetchFails, Submitted, ghosts
<1> QED
  <2>1. CASE \E c \in Callers : StartQueue(c) \/ StartYesterday(c) \/ Draw(c) \/ Fail(c)
    BY <1>5, <1>7, <1>8, <1>11, <1>14, <1>19, <2>1 DEF Draw, Fail
  <2>2. CASE \E c \in Callers : Pay(c)
    BY <1>9, <1>10, <1>11, <1>12, <1>13, <1>15, <1>16, <1>17, <1>18, <2>2 DEF Pay
  <2> QED BY <1>1, <1>2, <1>3, <2>1, <2>2 DEF Next

-----------------------------------------------------------------------------
\* A draw puts its record in front of the file: the others move down by one.
LEMMA DrawnFile ==
    ASSUME FileOK, NEW c \in Callers, NEW r, Draws(c, r)
    PROVE  /\ DOMAIN history = 1 .. Len(history) /\ Len(history) \in Nat
           /\ DOMAIN history' = 1 .. Len(history) + 1
           /\ history'[1] = r
           /\ \A k \in DOMAIN history : k + 1 \in DOMAIN history' /\ history'[k + 1] = history[k]
           /\ \A k \in DOMAIN history' : k = 1 \/ (k - 1 \in DOMAIN history /\ history'[k] = history[k - 1])
<1> DEFINE n == Len(history)
<1>1. /\ DOMAIN history' = 1 .. n + 1 /\ n \in Nat /\ DOMAIN history = 1 .. n
      /\ history'[1] = r
      /\ \A i \in 1 .. n : history'[i + 1] = history[i]
  <2>1. PICK S : history \in Seq(S)
    BY DEF FileOK
  <2> QED BY <2>1, DrawingPrepends DEF Draws
<1> HIDE DEF n
<1>2. ASSUME NEW k \in 1 .. n + 1, k # 1 PROVE k - 1 \in 1 .. n /\ history'[k] = history[k - 1]
  <2>1. k - 1 \in 1 .. n /\ (k - 1) + 1 = k
    BY <1>1, <1>2
  <2> QED BY <1>1, <2>1
<1>3. \A k \in DOMAIN history : k + 1 \in DOMAIN history'
  BY <1>1
<1> QED BY <1>1, <1>2, <1>3 DEF n

\* A status is set in the one record of the day, if there is one.
LEMMA MarkedFile ==
    ASSUME FileOK, NEW c \in Callers, NEW status, Marks(c, status)
    PROVE  /\ UNCHANGED <<completed, forgotten>> /\ DOMAIN history' = DOMAIN history
           /\ \A k \in DOMAIN history : SameDraw(history[k], history'[k])
           /\ \A k \in DOMAIN history : history[k].date = Record(c).date => history'[k].payoutStatus = status
           /\ \A k \in DOMAIN history : history[k].date # Record(c).date => history'[k] = history[k]
<1>0. PICK S : history \in Seq(S)
  BY DEF FileOK
<1>1. MarkPayoutStatus(Record(c).date, status) /\ UNCHANGED <<completed, forgotten>>
  BY DEF Marks, MarkPayoutStatus
<1>2. CASE \E k \in DOMAIN history : history[k].date = Record(c).date
  <2>1. PICK k \in DOMAIN history : history[k].date = Record(c).date
    BY <1>2
  <2>2. history' = [history EXCEPT ![k].payoutStatus = status]
    BY <1>1, <2>1, MarkFindsRecord
  <2>3. /\ DOMAIN history' = DOMAIN history
        /\ \A j \in DOMAIN history : SameDraw(history[j], history'[j])
    BY <1>0, <2>2, MarkingKeeps DEF FileOK
  <2>4. history'[k] = [history[k] EXCEPT !.payoutStatus = status]
    BY <2>1, <2>2
  <2>5. history'[k].payoutStatus = status
    BY <2>1, <2>4 DEF FileOK, IsRecord
  <2>6. \A j \in DOMAIN history : j # k => history'[j] = history[j]
    BY <2>2
  <2>7. \A j \in DOMAIN history : history[j].date = Record(c).date => j = k
    BY <2>1 DEF FileOK, OneRecordPerDay
  <2> QED BY <1>1, <2>1, <2>3, <2>5, <2>6, <2>7
<1>3. CASE ~ \E k \in DOMAIN history : history[k].date = Record(c).date
  <2> DEFINE I == {i \in 1 .. Len(history) : history[i].date = Record(c).date}
  <2>1. DOMAIN history = 1 .. Len(history)
    BY <1>0
  <2>2. I = {}
    BY <1>3, <2>1
  <2>3. RecordOf(Record(c).date) = IF I # {} THEN Min(I) ELSE 0
    BY DEF RecordOf, SelectInSeq
  <2> HIDE DEF I
  <2>4. RecordOf(Record(c).date) = 0
    BY <2>2, <2>3
  <2>5. history' = history
    BY <1>1, <2>4 DEF MarkPayoutStatus
  <2> QED BY <1>1, <1>3, <2>5 DEF SameDraw
<1> QED BY <1>2, <1>3

\* The file, position by position, after a step of each kind.
LEMMA FileMoves ==
    ASSUME FileOK, CallsOK, [Next]_vars
    PROVE  \/ UNCHANGED file /\ UNCHANGED forgotten
           \/ Tearing /\ history' = <<>> /\ DOMAIN history' = {} /\ \A c \in Callers : calls'[c] = Idle
           \/ \E c \in Callers : \E r :
                 /\ Draws(c, r)
                 /\ DOMAIN history = 1 .. Len(history) /\ Len(history) \in Nat
                 /\ DOMAIN history' = 1 .. Len(history) + 1
                 /\ history'[1] = r
                 /\ \A k \in DOMAIN history : k + 1 \in DOMAIN history' /\ history'[k + 1] = history[k]
                 /\ \A k \in DOMAIN history' : k = 1 \/ (k - 1 \in DOMAIN history /\ history'[k] = history[k - 1])
           \/ \E c \in Callers : \E status :
                 /\ Marks(c, status)
                 /\ DOMAIN history' = DOMAIN history
                 /\ \A k \in DOMAIN history : SameDraw(history[k], history'[k])
                 /\ \A k \in DOMAIN history : history[k].date = Record(c).date => history'[k].payoutStatus = status
                 /\ \A k \in DOMAIN history : history[k].date # Record(c).date => history'[k] = history[k]
<1>2. CASE Outside
  BY <1>2 DEF Outside
<1>3. CASE Restarted
  <2>1. CASE Tearing
    <3>1. history' = <<>> /\ \A c \in Callers : calls'[c] = Idle
      BY <1>3, <2>1 DEF Restarted, Tearing
    <3>2. DOMAIN history' = {}
      BY <3>1
    <3> QED BY <2>1, <3>1, <3>2
  <2> QED BY <1>3, <2>1 DEF Restarted
<1>4. ASSUME NEW c \in Callers, Waits(c) \/ Skips(c) \/ Submits(c) \/ Loses(c) \/ Learns(c) \/ TakesUp(c)
      PROVE  UNCHANGED file /\ UNCHANGED forgotten
  BY <1>4 DEF Waits, Skips, Submits, Loses, Learns, TakesUp
<1> QED BY <1>2, <1>3, <1>4, DrawnFile, MarkedFile, StepKinds

\* The wallet and the file stay what they are.
LEMMA WorldStep ==
    ASSUME FileOK, WorldOK, CallsOK, [Next]_vars
    PROVE  WorldOK'
<1>1. today' \in Nat \ {0, 1} /\ today <= today' /\ Past \subseteq Past'
  BY DayEffect
<1>2. IsList(chain') /\ \A i \in DOMAIN chain' : chain'[i].day \in 1 .. today'
  <2>1. /\ IsList(chain')
        /\ \A i \in DOMAIN chain : chain'[i] = chain[i]
        /\ \A i \in DOMAIN chain' : i \in DOMAIN chain \/ chain'[i].day = today
    BY ChainEffect
  <2>2. 1 .. today \subseteq 1 .. today' /\ today \in 1 .. today'
    BY <1>1 DEF WorldOK
  <2> QED BY <2>1, <2>2 DEF WorldOK
<1>3. \A tx \in mempool' : tx.date \in Nat \ {0}
  <2>1. ASSUME NEW c \in Callers, SubmitPayout(c) PROVE \A tx \in mempool' : tx.date \in Nat \ {0}
    <3>1. PICK tx : mempool' = mempool \cup {tx} /\ tx.date = Record(c).date /\ calls[c].todo # <<>>
      BY <2>1, PayoutInHand
    <3>2. tx.date \in Past
      BY <3>1, RecordInHand
    <3>3. Past \subseteq Nat \ {0}
      BY DEF Past
    <3> QED BY <3>1, <3>2, <3>3 DEF WorldOK
  <2>2. mempool' \subseteq mempool \/ \E c \in Callers : SubmitPayout(c)
    BY WalletEffect DEF wallet
  <2> QED BY <2>1, <2>2 DEF WorldOK
<1>4. \A k \in DOMAIN history' : history'[k].date \in Past'
  <2>1. CASE UNCHANGED file
    BY <1>1, <2>1 DEF WorldOK, file
  <2>2. ASSUME NEW c \in Callers, NEW r, Draws(c, r),
               history'[1] = r,
               \A k \in DOMAIN history' : k = 1 \/ (k - 1 \in DOMAIN history /\ history'[k] = history[k - 1])
        PROVE  \A k \in DOMAIN history' : history'[k].date \in Past'
    <3>1. r.date \in Past
      BY <2>2, DayInHand DEF Draws
    <3> QED BY <1>1, <2>2, <3>1 DEF WorldOK
  <2>3. ASSUME DOMAIN history' = DOMAIN history, \A k \in DOMAIN history : SameDraw(history[k], history'[k])
        PROVE  \A k \in DOMAIN history' : history'[k].date \in Past'
    BY <1>1, <2>3 DEF WorldOK, SameDraw
  <2> QED BY <2>1, <2>2, <2>3, FileMoves
<1> QED BY <1>1, <1>2, <1>3, <1>4 DEF WorldOK

\* A call that moved as it should leaves all calls as they should be.
LEMMA MovedCall ==
    ASSUME WorldOK, CallsOK, [Next]_vars, NEW c \in Callers, NEW pc, NEW days, NEW todo,
           Moves(c, pc, days, todo), calls'[c].seen \in {0, calls[c].seen, Len(chain)},
           IsList(days), \A i \in DOMAIN days : days[i] \in Past,
           IsList(todo), \A i \in DOMAIN todo : IsRecord(todo[i]) /\ todo[i].date \in Past,
           pc \in {"submit", "sent", "disconnect", "failed"} => days = <<>> /\ todo # <<>>,
           pc \in {"idle", "fetch", "missed"} => todo = <<>>
    PROVE  CallsOK'
<1>1. Past \subseteq Past' /\ Len(chain) \in Nat /\ Len(chain') \in Nat /\ Len(chain) <= Len(chain')
  BY DayEffect, ChainEffect
<1>2. 0 .. Len(chain) \subseteq 0 .. Len(chain')
  BY <1>1
<1>3. ASSUME NEW e \in Callers \ {c} PROVE CallOK(calls[e])'
  <2>1. CallOK(calls[e]) /\ calls'[e] = calls[e]
    BY DEF CallsOK, Moves
  <2> QED BY <1>1, <1>2, <2>1 DEF CallOK
<1>4. CallOK(calls[c])'
  <2>1. calls[c].seen \in 0 .. Len(chain)
    BY DEF CallsOK, CallOK
  <2>2. calls'[c].seen \in 0 .. Len(chain')
    BY <1>1, <2>1
  <2> QED BY <1>1, <2>2 DEF CallOK, Moves
<1> QED BY <1>3, <1>4 DEF CallsOK, Moves

\* The empty list, and the list of yesterday alone.
LEMMA SmallLists ==
    ASSUME WorldOK
    PROVE  /\ IsList(<<>>) /\ DOMAIN <<>> = {}
           /\ IsList(<<Yesterday>>) /\ \A i \in DOMAIN <<Yesterday>> : <<Yesterday>>[i] \in Past
<1>1. <<>> \in Seq({}) /\ <<Yesterday>> \in Seq({Yesterday})
  OBVIOUS
<1>2. Yesterday \in Past
  BY DEF WorldOK, Yesterday, Past
<1>3. DOMAIN <<Yesterday>> = {1} /\ <<Yesterday>>[1] = Yesterday /\ DOMAIN <<>> = {}
  OBVIOUS
<1> QED BY <1>1, <1>2, <1>3 DEF IsList

\* The calls keep their shape, whichever of them steps.
LEMMA CallsStep ==
    ASSUME FileOK, WorldOK, CallsOK, [Next]_vars
    PROVE  CallsOK'
<1>0. /\ IsList(<<>>) /\ DOMAIN <<>> = {}
      /\ IsList(<<Yesterday>>) /\ \A i \in DOMAIN <<Yesterday>> : <<Yesterday>>[i] \in Past
  BY SmallLists
<1>1. ASSUME NEW c \in Callers
      PROVE  /\ IsList(calls[c].todo)
             /\ \A i \in DOMAIN calls[c].todo : IsRecord(calls[c].todo[i]) /\ calls[c].todo[i].date \in Past
             /\ IsList(calls[c].days) /\ \A i \in DOMAIN calls[c].days : calls[c].days[i] \in Past
             /\ calls[c].pc \in {"submit", "sent", "disconnect", "failed"} => calls[c].days = <<>> /\ calls[c].todo # <<>>
             /\ calls[c].pc \in {"idle", "fetch", "missed"} => calls[c].todo = <<>>
             /\ calls[c].seen \in 0 .. Len(chain)
  BY DEF CallsOK, CallOK
<1>2. CASE UNCHANGED calls
  <2>1. Past \subseteq Past' /\ Len(chain) \in Nat /\ Len(chain') \in Nat /\ Len(chain) <= Len(chain')
    BY DayEffect, ChainEffect
  <2>2. 0 .. Len(chain) \subseteq 0 .. Len(chain')
    BY <2>1
  <2>3. \A c \in Callers : CallOK(calls[c])'
    <3> TAKE c \in Callers
    <3>1. CallOK(calls[c]) /\ calls'[c] = calls[c]
      BY <1>2 DEF CallsOK
    <3> QED BY <2>1, <2>2, <3>1 DEF CallOK
  <2> QED BY <1>2, <2>3 DEF CallsOK
<1>3. CASE calls' = [c \in Callers |-> Idle]
  <2>1. Len(chain') \in Nat
    BY ChainEffect
  <2>2. CallOK(Idle)'
    BY <1>0, <2>1, FreshCalls DEF CallOK, Idle
  <2>3. \A c \in Callers : calls'[c] = Idle
    BY <1>3
  <2> QED BY <1>3, <2>2, <2>3 DEF CallsOK
<1>4. ASSUME NEW c \in Callers, StartQueue(c) \/ StartYesterday(c) PROVE CallsOK'
  <2>1. CASE StartQueue(c)
    <3>1. Moves(c, "fetch", <<>>, <<>>) /\ calls'[c].seen = 0
      BY <2>1, CallEffect
    <3> QED BY <1>0, <3>1, MovedCall
  <2>2. CASE StartYesterday(c)
    <3>1. Moves(c, "fetch", <<Yesterday>>, <<>>) /\ calls'[c].seen = 0
      BY <2>2, CallEffect
    <3> QED BY <1>0, <3>1, MovedCall
  <2> QED BY <1>4, <2>1, <2>2
<1>5. ASSUME NEW c \in Callers, End(c) PROVE CallsOK'
  <2>1. Moves(c, "fetch", <<Yesterday>>, <<>>) \/ Moves(c, "idle", <<>>, <<>>)
    BY <1>5, CallEffect
  <2>2. calls'[c].seen = 0
    BY <1>5, CallEffect
  <2>3. CASE Moves(c, "fetch", <<Yesterday>>, <<>>)
    BY <1>0, <2>2, <2>3, MovedCall
  <2>4. CASE Moves(c, "idle", <<>>, <<>>)
    BY <1>0, <2>2, <2>4, MovedCall
  <2> QED BY <2>1, <2>3, <2>4
<1>6. ASSUME NEW c \in Callers, Fetched(c) PROVE CallsOK'
  <2>1. calls[c].pc = "fetch" /\ calls[c].todo = <<>>
    BY <1>1, <1>6 DEF Fetched, At
  <2>2. calls'[c].seen \in {0, calls[c].seen, Len(chain)}
    BY <1>6, CallEffect
  <2>3. PICK pc \in {"missed", "draw"} : Moves(c, pc, calls[c].days, calls[c].todo)
    BY <1>6, CallEffect
  <2> QED BY <1>1, <2>1, <2>2, <2>3, MovedCall
<1>7. ASSUME NEW c \in Callers, CatchUpMissedDraws(c) PROVE CallsOK'
  <2> DEFINE days == MissedRaffleDates(calls[c].seen)
  <2>1. calls[c].pc = "missed" /\ calls[c].todo = <<>>
    BY <1>1, <1>7 DEF CatchUpMissedDraws, At
  <2>2. Moves(c, "draw", days, calls[c].todo) /\ SeenStays(c)
    BY <1>7, CallEffect
  <2>3. IsList(days) /\ \A i \in DOMAIN days : days[i] \in Past
    BY <1>1, MissedArePast
  <2> HIDE DEF days
  <2> QED BY <1>1, <2>1, <2>2, <2>3, MovedCall DEF SeenStays
<1>8. ASSUME NEW c \in Callers, RunDrawForDate(c) PROVE CallsOK'
  <2> DEFINE day == Head(calls[c].days)
             rest == Tail(calls[c].days)
  <2>1. calls[c].pc = "draw" /\ calls[c].days # <<>>
    BY <1>8 DEF RunDrawForDate, At
  <2>2. /\ day \in Past /\ IsList(rest)
        /\ \A i \in DOMAIN rest : rest[i] \in Past
    BY <2>1, DayInHand
  <2>3. CASE day \in completed
    <3>1. Goto(c, [calls[c] EXCEPT !.days = rest])
      BY <1>8, <2>3 DEF RunDrawForDate
    <3> HIDE DEF day, rest
    <3>2. Moves(c, "draw", rest, calls[c].todo) /\ SeenStays(c)
      BY <2>1, <3>1, CallEffect
    <3> QED BY <1>1, <2>2, <3>2, MovedCall DEF SeenStays
  <2>4. CASE day \notin completed
    <3>1. PICK r : /\ \E winner : r = DrawRecord(calls[c].seen, day, winner)
                   /\ Goto(c, [calls[c] EXCEPT !.days = rest, !.todo = Append(calls[c].todo, r)])
      BY <1>8, <2>4 DEF RunDrawForDate
    <3>2. IsRecord(r) /\ r.date = day
      BY <3>1 DEF DrawRecord, IsRecord
    <3> HIDE DEF day, rest
    <3>3. Moves(c, "draw", rest, Append(calls[c].todo, r)) /\ SeenStays(c)
      BY <2>1, <3>1, CallEffect
    <3> DEFINE todo == Append(calls[c].todo, r)
    <3>4. IsList(todo) /\ \A i \in DOMAIN todo : IsRecord(todo[i]) /\ todo[i].date \in Past
      <4>1. /\ IsList(todo) /\ todo[Len(calls[c].todo) + 1] = r
            /\ \A i \in DOMAIN calls[c].todo : todo[i] = calls[c].todo[i]
            /\ \A i \in DOMAIN todo : i = Len(calls[c].todo) + 1 \/ i \in DOMAIN calls[c].todo
        BY <1>1, AppendOf
      <4> HIDE DEF todo
      <4> QED BY <1>1, <2>2, <3>2, <4>1
    <3> HIDE DEF todo
    <3> QED BY <2>2, <3>3, <3>4, MovedCall DEF SeenStays, todo
  <2> QED BY <2>3, <2>4
<1>9. ASSUME NEW c \in Callers, calls[c].todo # <<>>, NextRecord(c) PROVE CallsOK'
  <2> DEFINE rest == Tail(calls[c].todo)
  <2>1. Moves(c, "draw", calls[c].days, rest) /\ SeenStays(c)
    BY <1>9, CallEffect
  <2>2. IsList(rest) /\ \A i \in DOMAIN rest : IsRecord(rest[i]) /\ rest[i].date \in Past
    <3>1. IsList(rest) /\ \A i \in DOMAIN rest : i + 1 \in DOMAIN calls[c].todo /\ rest[i] = calls[c].todo[i + 1]
      BY <1>1, <1>9, TailOf
    <3> HIDE DEF rest
    <3> QED BY <1>1, <3>1
  <2> HIDE DEF rest
  <2> QED BY <1>1, <2>1, <2>2, MovedCall DEF SeenStays
<1>10. ASSUME NEW c \in Callers, NEW pc \in {"submit", "sent", "disconnect", "failed"},
              Moves(c, pc, calls[c].days, calls[c].todo), SeenStays(c),
              calls[c].days = <<>>, calls[c].todo # <<>>
       PROVE  CallsOK'
  BY <1>1, <1>10, MovedCall DEF SeenStays
<1>11. ASSUME NEW c \in Callers, ReadPending(c) PROVE CallsOK'
  <2>1. calls[c].pc = "draw"
    BY <1>11 DEF ReadPending, Paying, At
  <2>2. Moves(c, "draw", calls[c].days, PendingPayouts) /\ SeenStays(c)
    BY <1>11, <2>1, CallEffect
  <2>3. /\ IsList(PendingPayouts)
        /\ \A i \in DOMAIN PendingPayouts : IsRecord(PendingPayouts[i]) /\ PendingPayouts[i].date \in Past
    BY PendingOnFile DEF FileOK, WorldOK
  <2> QED BY <1>1, <2>2, <2>3, MovedCall DEF SeenStays
<1>12. ASSUME NEW c \in Callers, SelectCoins(c) PROVE CallsOK'
  <2>1. calls[c].days = <<>> /\ calls[c].todo # <<>>
    BY <1>12 DEF SelectCoins, MustPay, Paying
  <2>2. PICK pc \in {"failed", "submit"} : Moves(c, pc, calls[c].days, calls[c].todo) /\ SeenStays(c)
    BY <1>12, CallEffect
  <2> QED BY <1>10, <2>1, <2>2
<1>13. ASSUME NEW c \in Callers, NEW pc \in {"sent", "disconnect", "failed"}, Step(c, pc),
              calls[c].days = <<>>, calls[c].todo # <<>>
       PROVE  CallsOK'
  <2>1. Moves(c, pc, calls[c].days, calls[c].todo) /\ SeenStays(c)
    BY <1>13, CallEffect
  <2> QED BY <1>10, <1>13, <2>1
<1>14. ASSUME NEW c \in Callers, ConnectFails(c) \/ SubmitPayout(c) \/ SubmitRefused(c) \/ AnswerLost(c) \/ DisconnectFails(c) \/ Answered(c)
       PROVE  CallsOK'
  <2>1. CASE ConnectFails(c)
    BY <1>13, <2>1 DEF ConnectFails, MustPay, Paying
  <2>2. CASE SubmitPayout(c)
    BY <1>1, <1>13, <2>2 DEF SubmitPayout, At
  <2>3. CASE SubmitRefused(c)
    BY <1>1, <1>13, <2>3 DEF SubmitRefused, At
  <2>4. CASE AnswerLost(c) \/ DisconnectFails(c)
    BY <1>1, <1>13, <2>4 DEF AnswerLost, DisconnectFails, At
  <2>5. CASE Answered(c)
    BY <1>1, <1>13, <2>5 DEF Answered, At
  <2> QED BY <1>14, <2>1, <2>2, <2>3, <2>4, <2>5
<1>15. ASSUME NEW c \in Callers, NotRequired(c) \/ PayoutsDisabled(c) \/ MarkCompleted(c) \/ PaymentFailed(c)
       PROVE  CallsOK'
  <2>1. calls[c].todo # <<>> /\ NextRecord(c)
    BY <1>1, <1>15 DEF NotRequired, PayoutsDisabled, MarkCompleted, PaymentFailed, Paying, At
  <2> QED BY <1>9, <2>1
<1> QED
  <2>1. CASE Enter \/ AcceptPayout \/ PassTime \/ UNCHANGED vars
    BY <1>2, <2>1 DEF Enter, AcceptPayout, PassTime, vars
  <2>2. CASE Crash \/ TornDrawState
    BY <1>3, <2>2 DEF Crash, TornDrawState, Restart
  <2>3. CASE \E c \in Callers : StartQueue(c) \/ StartYesterday(c) \/ Draw(c) \/ Fail(c)
    BY <1>4, <1>5, <1>6, <1>7, <1>8, <1>14, <2>3 DEF Draw, Fail, FetchFails
  <2>4. CASE \E c \in Callers : Pay(c)
    BY <1>5, <1>11, <1>12, <1>14, <1>15, <2>4 DEF Pay, RefreshSnapshot
  <2> QED BY <2>1, <2>2, <2>3, <2>4 DEF Next

\* Before the first call there is one transaction in the chain and nothing on file.
LEMMA WorldStarts ==
    ASSUME Init
    PROVE  WorldOK /\ CallsOK /\ Sent = {} /\ DOMAIN history = {} /\ \A c \in Callers : calls[c] = Idle
<1>1. PICK x : chain = <<x>> /\ x.day = 1 /\ x.date = NoDay
  <2>1. PICK amount \in Amounts, sender \in BOOLEAN : chain = <<Accepted(Deposit(amount, sender), 1)>>
    BY DEF Init
  <2>2. Accepted(Deposit(amount, sender), 1).day = 1 /\ Accepted(Deposit(amount, sender), 1).date = NoDay
    BY DEF Accepted, Deposit
  <2> QED BY <2>1, <2>2
<1>2. today = 2 /\ mempool = {} /\ history = <<>> /\ calls = [c \in Callers |-> Idle]
  BY DEF Init
<1>3. chain \in Seq({x}) /\ DOMAIN chain = {1} /\ chain[1] = x /\ Len(chain) = 1
  BY <1>1
<1>4. DOMAIN history = {}
  BY <1>2
<1>5. WorldOK
  <2>1. IsList(chain)
    BY <1>3 DEF IsList
  <2>2. \A i \in DOMAIN chain : chain[i].day \in 1 .. today
    BY <1>1, <1>2, <1>3
  <2> QED BY <1>2, <1>4, <2>1, <2>2 DEF WorldOK
<1>6. CallsOK
  <2>1. <<>> \in Seq({}) /\ DOMAIN <<>> = {}
    OBVIOUS
  <2>2. CallOK(Idle)
    BY <1>3, <2>1, FreshCalls DEF CallOK, IsList, Idle
  <2> QED BY <1>2, <2>2 DEF CallsOK
<1>7. Sent = {}
  BY <1>1, <1>2, <1>3 DEF Sent, IsPayout, Range
<1> QED BY <1>2, <1>4, <1>5, <1>6, <1>7

\* The file, the wallet and the calls together.
Base == FileOK /\ WorldOK /\ CallsOK

\* They start and stay as they should be.
LEMMA BaseInvariant ==
    /\ Init => Base
    /\ Base /\ [Next]_vars => Base'
BY FileStarts, WorldStarts, FileInvariant, WorldStep, CallsStep DEF Base

-----------------------------------------------------------------------------
(***************************************************************************)
(* Payouts and records.                                                    *)
(***************************************************************************)
PaidDays == {tx.date : tx \in Sent}

\* Only a submit adds to the payouts sent, and none is withdrawn.
LEMMA SentEffect ==
    ASSUME Base, [Next]_vars
    PROVE  /\ \A tx \in Sent' :
                 \/ \E old \in Sent : tx.date = old.date /\ tx.winner = old.winner /\ tx.prize = old.prize
                 \/ \E c \in Callers : /\ Submits(c) /\ tx.date = Record(c).date
                                       /\ tx.winner = Record(c).winner /\ tx.prize = Record(c).jackpot \div 2
           /\ PaidDays \subseteq PaidDays'
           /\ \A c \in Callers : SubmitPayout(c) => Record(c).date \in PaidDays'
<1>0. WorldOK /\ CallsOK
  BY DEF Base
<1>1. Sent = {tx \in {chain[i] : i \in DOMAIN chain} : tx.date # NoDay} \cup mempool
  BY DEF Sent, Range, IsPayout
<1>2. Sent' = {tx \in {chain'[i] : i \in DOMAIN chain'} : tx.date # NoDay} \cup mempool'
  BY DEF Sent, Range, IsPayout
<1> DEFINE Same(tx, old) == tx.date = old.date /\ tx.winner = old.winner /\ tx.prize = old.prize
           New(tx, c) == /\ Submits(c) /\ tx.date = Record(c).date
                         /\ tx.winner = Record(c).winner /\ tx.prize = Record(c).jackpot \div 2
           Grows == /\ \A tx \in Sent' : (\E old \in Sent : Same(tx, old)) \/ \E c \in Callers : New(tx, c)
                    /\ \A old \in Sent : \E tx \in Sent' : tx.date = old.date
<1>3. ASSUME UNCHANGED wallet PROVE Grows
  <2>1. Sent' = Sent
    BY <1>1, <1>2, <1>3 DEF wallet
  <2> QED BY <2>1
<1>4. ASSUME NEW tx, Accept(tx), mempool \cup mempool' \subseteq mempool' \cup {tx}, mempool' \subseteq mempool,
             tx.date = NoDay \/ tx \in mempool
      PROVE  Grows
  <2>1. /\ DOMAIN chain = 1 .. Len(chain) /\ DOMAIN chain' = 1 .. Len(chain) + 1 /\ Len(chain) \in Nat
        /\ \A i \in DOMAIN chain : chain'[i] = chain[i]
        /\ chain'[Len(chain) + 1].date = tx.date /\ chain'[Len(chain) + 1].winner = tx.winner
        /\ chain'[Len(chain) + 1].prize = tx.prize
    BY <1>0, <1>4, AcceptAppends DEF WorldOK
  <2> DEFINE n == Len(chain)
  <2>2. n + 1 \in DOMAIN chain' /\ \A i \in DOMAIN chain' : i \in DOMAIN chain \/ i = n + 1
    BY <2>1
  <2>3. \A i \in DOMAIN chain : i \in DOMAIN chain'
    BY <2>1
  <2> HIDE DEF n
  <2>4. Same(chain'[n + 1], tx)
    BY <2>1 DEF n
  <2>5. ASSUME NEW x \in Sent' PROVE \E old \in Sent : Same(x, old)
    <3>1. CASE x \in mempool'
      BY <1>1, <1>4, <3>1
    <3>2. CASE \E i \in DOMAIN chain : x = chain'[i] /\ x.date # NoDay
      BY <1>1, <2>1, <3>2
    <3>3. CASE x = chain'[n + 1] /\ x.date # NoDay
      BY <1>1, <1>4, <2>4, <3>3
    <3> QED BY <1>2, <2>2, <3>1, <3>2, <3>3
  <2>6. ASSUME NEW old \in Sent PROVE \E x \in Sent' : x.date = old.date
    <3>1. CASE \E i \in DOMAIN chain : old = chain[i] /\ old.date # NoDay
      BY <1>2, <2>1, <2>3, <3>1
    <3>2. CASE old \in mempool'
      BY <1>2, <3>2
    <3>3. CASE old \in mempool /\ old = tx
      <4>1. old.date # NoDay
        BY <1>0, <3>3 DEF WorldOK, NoDay
      <4> QED BY <1>2, <2>2, <2>4, <3>3, <4>1
    <3> QED BY <1>1, <1>4, <3>1, <3>2, <3>3
  <2> QED BY <2>5, <2>6
<1>5. ASSUME NEW c \in Callers, SubmitPayout(c)
      PROVE  Grows /\ \E x \in Sent' : x.date = Record(c).date
  <2>1. PICK tx : /\ mempool' = mempool \cup {tx} /\ tx.date = Record(c).date
                  /\ tx.winner = Record(c).winner /\ tx.prize = Record(c).jackpot \div 2
    BY <1>0, <1>5, PayoutInHand
  <2>2. chain' = chain /\ At(c, "submit") /\ Step(c, "sent") /\ UNCHANGED <<file, payoutHistory, disturbed, forgotten>>
    BY <1>5 DEF SubmitPayout, ghosts
  <2>3. Moves(c, "sent", calls[c].days, calls[c].todo)
    BY <1>0, <2>2, CallEffect
  <2>4. New(tx, c)
    BY <1>5, <2>1, <2>2, <2>3 DEF Submits, At
  <2> HIDE DEF New
  <2>5. Sent' = Sent \cup {tx}
    BY <1>1, <1>2, <2>1, <2>2
  <2> QED BY <2>1, <2>4, <2>5
<1>6. Grows
  <2>1. CASE \E amount \in Amounts, sender \in BOOLEAN : Accept(Deposit(amount, sender)) /\ UNCHANGED mempool
    <3>1. PICK amount \in Amounts, sender \in BOOLEAN : Accept(Deposit(amount, sender)) /\ mempool' = mempool
      BY <2>1
    <3>2. Deposit(amount, sender).date = NoDay
      BY DEF Deposit
    <3> HIDE DEF Grows
    <3> QED BY <1>4, <3>1, <3>2
  <2>2. CASE \E tx \in mempool : Accept(tx) /\ mempool' = mempool \ {tx}
    BY <1>4, <2>2
  <2>3. CASE \E c \in Callers : SubmitPayout(c)
    BY <1>5, <2>3
  <2> HIDE DEF Grows
  <2> QED BY <1>0, <1>3, <2>1, <2>2, <2>3, WalletEffect
<1> QED BY <1>5, <1>6 DEF PaidDays

\* A record in a call's hands was there before, has just been drawn, or was read in
\* the file.
LEMMA TodoEffect ==
    ASSUME Base, [Next]_vars, NEW e \in Callers, NEW i \in DOMAIN calls'[e].todo
    PROVE  \/ \E j \in DOMAIN calls[e].todo : calls'[e].todo[i] = calls[e].todo[j]
           \/ Draws(e, calls'[e].todo[i])
           \/ \E k \in DOMAIN history : /\ calls'[e].todo[i] = history[k]
                                        /\ history[k].payoutStatus = "pending" /\ UNCHANGED file
<1>0. FileOK /\ CallsOK /\ IsList(calls[e].todo)
  BY DEF Base, CallsOK, CallOK
<1>1. CASE calls'[e].todo = calls[e].todo
  BY <1>1
<1>2. CASE calls'[e] = Idle
  <2>1. calls'[e].todo = <<>>
    BY <1>2, FreshCalls
  <2> QED BY <2>1
<1>3. ASSUME NEW c \in Callers, NEW pc, NEW days, NEW todo, Moves(c, pc, days, todo)
      PROVE  calls'[e].todo = calls[e].todo \/ (c = e /\ calls'[e].todo = todo)
  BY <1>3 DEF Moves
<1>4. CASE LetGo(e)
  <2>1. calls'[e].todo = Tail(calls[e].todo) /\ calls[e].todo # <<>>
    BY <1>4 DEF LetGo, Moves
  <2> QED BY <1>0, <2>1, TailOf
<1>5. ASSUME NEW c \in Callers, LetGo(c) PROVE calls'[e].todo = calls[e].todo \/ LetGo(e)
  BY <1>5 DEF LetGo, Moves
<1>6. ASSUME NEW c \in Callers, Waits(c) \/ Submits(c) \/ Loses(c) \/ Learns(c)
      PROVE  calls'[e].todo = calls[e].todo
  <2>1. \E pc, days : Moves(c, pc, days, calls[c].todo)
    BY <1>6 DEF Waits, Submits, Loses, Learns
  <2> QED BY <1>3, <2>1
<1>7. ASSUME NEW r, Draws(e, r)
      PROVE  calls'[e].todo[i] = r \/ \E j \in DOMAIN calls[e].todo : calls'[e].todo[i] = calls[e].todo[j]
  <2> DEFINE todo == Append(calls[e].todo, r)
  <2>1. calls'[e].todo = todo
    BY <1>7 DEF Draws, Moves
  <2>2. /\ todo[Len(calls[e].todo) + 1] = r
        /\ \A j \in DOMAIN calls[e].todo : todo[j] = calls[e].todo[j]
        /\ \A j \in DOMAIN todo : j = Len(calls[e].todo) + 1 \/ j \in DOMAIN calls[e].todo
    BY <1>0, AppendOf
  <2> HIDE DEF todo
  <2> QED BY <2>1, <2>2
<1>8. ASSUME NEW c \in Callers, NEW r, Draws(c, r)
      PROVE  calls'[e].todo = calls[e].todo \/ c = e
  BY <1>3, <1>8 DEF Draws
<1>9. ASSUME NEW c \in Callers, TakesUp(c)
      PROVE  calls'[e].todo = calls[e].todo \/ (calls'[e].todo = PendingPayouts /\ UNCHANGED file)
  BY <1>3, <1>9 DEF TakesUp, file
<1>10. CASE calls'[e].todo = PendingPayouts /\ UNCHANGED file
  BY <1>0, <1>10, PendingOnFile
<1>11. CASE Outside
  BY <1>1, <1>11 DEF Outside
<1>12. CASE Restarted
  BY <1>2, <1>12 DEF Restarted
<1>13. ASSUME NEW c \in Callers, Skips(c) \/ \E status : Marks(c, status)
       PROVE  LetGo(c)
  BY <1>13 DEF Skips, Marks
<1>14. CASE \E c \in Callers : \E r : Draws(c, r)
  BY <1>1, <1>7, <1>8, <1>14
<1>15. CASE \E c \in Callers : TakesUp(c)
  BY <1>1, <1>9, <1>10, <1>15
<1>16. CASE \E c \in Callers : Waits(c) \/ Submits(c) \/ Loses(c) \/ Learns(c)
  BY <1>1, <1>6, <1>16
<1>17. CASE \E c \in Callers : Skips(c) \/ \E status : Marks(c, status)
  BY <1>1, <1>4, <1>5, <1>13, <1>17
<1> QED BY <1>0, <1>11, <1>12, <1>14, <1>15, <1>16, <1>17, StepKinds

\* A day that is not forgotten keeps its record's day, winner and jackpot.
LEMMA FileKeeps ==
    ASSUME Base, [Next]_vars
    PROVE  /\ forgotten \subseteq forgotten'
           /\ \A k \in DOMAIN history :
                 history[k].date \in forgotten' \/ \E j \in DOMAIN history' : SameDraw(history[k], history'[j])
<1>0. FileOK /\ CallsOK
  BY DEF Base
<1>1. forgotten \subseteq forgotten'
  BY <1>0, FileMoves DEF Tearing, Draws, Marks
<1>2. ASSUME NEW k \in DOMAIN history, history[k].date \notin forgotten'
      PROVE  \E j \in DOMAIN history' : SameDraw(history[k], history'[j])
  <2>1. history[k] \in Range(history)
    BY DEF Range
  <2>2. \E new \in Range(history') :
            new.date = history[k].date /\ new.winner = history[k].winner /\ new.jackpot = history[k].jackpot
    BY <1>0, <1>2, <2>1, StepKeeps
  <2> QED BY <2>2 DEF Range, SameDraw
<1> QED BY <1>1, <1>2

OnFile(r) == \E k \in DOMAIN history : SameDraw(history[k], r)
\* Whatever is paid or about to be paid stands in the file, or was torn out of it.
HeldOnFile == \A c \in Callers : \A i \in DOMAIN calls[c].todo :
                 calls[c].todo[i].date \in forgotten \/ OnFile(calls[c].todo[i])
SentOnFile == \A tx \in Sent : \/ tx.date \in forgotten
                               \/ \E k \in DOMAIN history : /\ history[k].date = tx.date /\ history[k].winner = tx.winner
                                                            /\ tx.prize = history[k].jackpot \div 2

\* A call pays only what is on file, and the file does not change it afterwards.
LEMMA PaysWhatIsOnFile ==
    ASSUME Base, HeldOnFile, SentOnFile, [Next]_vars
    PROVE  HeldOnFile' /\ SentOnFile'
<1>1. ASSUME NEW r, r.date \in forgotten \/ OnFile(r)
      PROVE  r.date \in forgotten' \/ \E k \in DOMAIN history' : SameDraw(history'[k], r)
  <2>1. CASE r.date \in forgotten
    BY <2>1, FileKeeps
  <2>2. CASE OnFile(r)
    <3>1. PICK k \in DOMAIN history : SameDraw(history[k], r)
      BY <2>2 DEF OnFile
    <3>2. history[k].date \in forgotten' \/ \E j \in DOMAIN history' : SameDraw(history[k], history'[j])
      BY FileKeeps
    <3> QED BY <3>1, <3>2 DEF SameDraw
  <2> QED BY <1>1, <2>1, <2>2
<1>2. HeldOnFile'
  <2> SUFFICES ASSUME NEW c \in Callers, NEW i \in DOMAIN calls'[c].todo
               PROVE  \/ calls'[c].todo[i].date \in forgotten'
                      \/ \E k \in DOMAIN history' : SameDraw(history'[k], calls'[c].todo[i])
    BY DEF HeldOnFile, OnFile
  <2> DEFINE r == calls'[c].todo[i]
  <2>1. CASE \E j \in DOMAIN calls[c].todo : r = calls[c].todo[j]
    BY <1>1, <2>1 DEF HeldOnFile
  <2>2. CASE Draws(c, r)
    <3> HIDE DEF r
    <3>1. history'[1] = r /\ DOMAIN history' = 1 .. Len(history) + 1 /\ Len(history) \in Nat
      BY <2>2, DrawnFile DEF Base
    <3> QED BY <3>1 DEF SameDraw, r
  <2>3. CASE \E k \in DOMAIN history : r = history[k] /\ UNCHANGED file
    BY <2>3 DEF SameDraw, file
  <2> HIDE DEF r
  <2>4. \/ \E j \in DOMAIN calls[c].todo : r = calls[c].todo[j]
        \/ Draws(c, r)
        \/ \E k \in DOMAIN history : r = history[k] /\ UNCHANGED file
    BY TodoEffect DEF r
  <2> QED BY <2>1, <2>2, <2>3, <2>4 DEF r
<1>3. ASSUME NEW tx \in Sent'
      PROVE  \/ tx.date \in forgotten'
             \/ \E k \in DOMAIN history' : /\ history'[k].date = tx.date /\ history'[k].winner = tx.winner
                                           /\ tx.prize = history'[k].jackpot \div 2
  <2>1. ASSUME NEW old \in Sent, tx.date = old.date, tx.winner = old.winner, tx.prize = old.prize
        PROVE  \/ tx.date \in forgotten'
               \/ \E k \in DOMAIN history' : /\ history'[k].date = tx.date /\ history'[k].winner = tx.winner
                                             /\ tx.prize = history'[k].jackpot \div 2
    <3>1. CASE old.date \in forgotten
      BY <2>1, <3>1, FileKeeps
    <3>2. CASE old.date \notin forgotten
      <4>1. PICK k \in DOMAIN history : /\ history[k].date = old.date /\ history[k].winner = old.winner
                                        /\ old.prize = history[k].jackpot \div 2
        BY <3>2 DEF SentOnFile
      <4>2. history[k].date \in forgotten' \/ \E j \in DOMAIN history' : SameDraw(history[k], history'[j])
        BY FileKeeps
      <4> QED BY <2>1, <4>1, <4>2 DEF SameDraw
    <3> QED BY <3>1, <3>2
  <2>2. ASSUME NEW c \in Callers, Submits(c), tx.date = Record(c).date,
               tx.winner = Record(c).winner, tx.prize = Record(c).jackpot \div 2
        PROVE  \/ tx.date \in forgotten'
               \/ \E k \in DOMAIN history' : /\ history'[k].date = tx.date /\ history'[k].winner = tx.winner
                                             /\ tx.prize = history'[k].jackpot \div 2
    <3>1. calls[c].todo # <<>>
      BY <2>2, PayoutInHand DEF Base, Submits
    <3>2. 1 \in DOMAIN calls[c].todo /\ Record(c) = calls[c].todo[1]
      BY <3>1, RecordInHand DEF Base
    <3>3. Record(c).date \in forgotten \/ OnFile(Record(c))
      BY <3>2 DEF HeldOnFile
    <3>4. UNCHANGED <<history, forgotten>>
      BY <2>2 DEF Submits, file
    <3> QED BY <2>2, <3>3, <3>4 DEF OnFile, SameDraw
  <2> QED BY <2>1, <2>2, SentEffect
<1> QED BY <1>2, <1>3 DEF SentOnFile

\* Every payout ever sent pays the winner of record half of the jackpot of record,
\* however calls overlap and whenever the process stops: only a torn file is excepted.
THEOREM PayoutsAreOfRecord == Spec => []PayoutsMatchRecords
<1> DEFINE Inv == Base /\ HeldOnFile /\ SentOnFile
<1>1. Init => Inv
  <2> SUFFICES ASSUME Init PROVE HeldOnFile /\ SentOnFile
    BY BaseInvariant
  <2>1. Sent = {} /\ \A c \in Callers : calls[c].todo = <<>>
    BY WorldStarts, FreshCalls
  <2> QED BY <2>1 DEF HeldOnFile, SentOnFile
<1>2. Inv /\ [Next]_vars => Inv'
  BY BaseInvariant, PaysWhatIsOnFile
<1>3. Inv => PayoutsMatchRecords
  BY DEF SentOnFile, PayoutsMatchRecords, Range
<1> HIDE DEF Inv
<1> QED BY <1>1, <1>2, <1>3, PTL DEF Spec

-----------------------------------------------------------------------------
\* What a call knows to be paid has been sent, and what it has reported is reported.
PaidIsPaid ==
    /\ \A c \in Callers :
          /\ calls[c].pc \in Submitted => Record(c).date \in PaidDays
          /\ calls[c].pc = "disconnect" => Record(c).date \in payoutHistory
    /\ \A k \in DOMAIN history : history[k].payoutStatus = "completed" =>
                                     history[k].date \in PaidDays \cap payoutHistory

\* The call that submits or learns has its record's day paid; no other step makes a
\* call believe so.
LEMMA BelievedPaid ==
    ASSUME Base, [Next]_vars, NEW e \in Callers, calls'[e].pc \in Submitted
    PROVE  /\ calls'[e].todo = calls[e].todo
           /\ \/ calls'[e].pc = "sent" /\ Submits(e)
              \/ calls'[e].pc = "disconnect" /\ Learns(e)
              \/ calls'[e] = calls[e]
<1>0. CallsOK
  BY DEF Base
<1>1. "idle" \notin Submitted /\ "draw" \notin Submitted /\ "failed" \notin Submitted
  BY DEF Submitted
<1>2. CASE UNCHANGED calls
  BY <1>2
<1>3. ~Restarted
  BY <1>1, FreshCalls DEF Restarted
<1>4. ASSUME NEW c \in Callers, NEW pc, NEW days, NEW todo, Moves(c, pc, days, todo)
      PROVE  calls'[e] = calls[e] \/ (c = e /\ calls'[e].pc = pc /\ calls'[e].todo = todo)
  BY <1>4 DEF Moves
<1>5. ASSUME NEW c \in Callers, Waits(c) \/ Loses(c) PROVE calls'[e] = calls[e]
  <2>1. \E pc, days, todo : pc \notin Submitted /\ Moves(c, pc, days, todo)
    BY <1>1, <1>5 DEF Waits, Loses
  <2> QED BY <1>4, <2>1
<1>6. ASSUME NEW c \in Callers, Skips(c) \/ (\E status : Marks(c, status)) \/ TakesUp(c) \/ \E r : Draws(c, r)
      PROVE  calls'[e] = calls[e]
  <2>1. \E days, todo : Moves(c, "draw", days, todo)
    BY <1>6 DEF Skips, Marks, LetGo, TakesUp, Draws
  <2> QED BY <1>1, <1>4, <2>1
<1>7. ASSUME NEW c \in Callers, Submits(c)
      PROVE  calls'[e] = calls[e] \/ (c = e /\ calls'[e].pc = "sent" /\ calls'[e].todo = calls[e].todo)
  <2>1. Moves(c, "sent", calls[c].days, calls[c].todo)
    BY <1>7 DEF Submits
  <2> QED BY <1>4, <2>1
<1>8. ASSUME NEW c \in Callers, Learns(c)
      PROVE  calls'[e] = calls[e] \/ (c = e /\ calls'[e].pc = "disconnect" /\ calls'[e].todo = calls[e].todo)
  <2>1. Moves(c, "disconnect", calls[c].days, calls[c].todo)
    BY <1>8 DEF Learns
  <2> QED BY <1>4, <2>1
<1>9. CASE Outside
  BY <1>2, <1>9 DEF Outside
<1> QED BY <1>0, <1>3, <1>5, <1>6, <1>7, <1>8, <1>9, StepKinds

\* A payment is in the chain or on its way before it is marked or reported.
LEMMA PaidStaysPaid ==
    ASSUME Base, PaidIsPaid, [Next]_vars
    PROVE  PaidIsPaid'
<1>0. FileOK /\ CallsOK
  BY DEF Base
<1>1. PaidDays \subseteq PaidDays' /\ \A c \in Callers : Submits(c) => Record(c).date \in PaidDays'
  BY SentEffect DEF Submits
<1>2. payoutHistory \subseteq payoutHistory' /\ \A c \in Callers : Learns(c) => Record(c).date \in payoutHistory'
  <2>1. CASE \E c \in Callers : Learns(c)
    BY <2>1 DEF Learns
  <2>2. UNCHANGED payoutHistory \/ \E c \in Callers : Learns(c)
    BY <1>0, StepKinds DEF Outside, Restarted, Waits, Skips, Submits, Loses, TakesUp, Draws, Marks
  <2>3. ASSUME NEW c \in Callers, Learns(c) PROVE Record(c).date \in payoutHistory'
    BY <2>3 DEF Learns
  <2> QED BY <2>1, <2>2, <2>3
<1>3. ASSUME NEW e \in Callers, calls'[e].pc \in Submitted
      PROVE  /\ Head(calls'[e].todo).date \in PaidDays'
             /\ calls'[e].pc = "disconnect" => Head(calls'[e].todo).date \in payoutHistory'
  <2>1. CASE calls'[e] = calls[e]
    BY <1>1, <1>2, <1>3, <2>1 DEF PaidIsPaid, Record
  <2>2. CASE calls'[e].pc = "sent" /\ Submits(e) /\ calls'[e].todo = calls[e].todo
    BY <1>1, <2>2 DEF Record
  <2>3. CASE calls'[e].pc = "disconnect" /\ Learns(e) /\ calls'[e].todo = calls[e].todo
    <3>1. calls[e].pc \in Submitted
      BY <2>3 DEF Learns, Submitted
    <3> QED BY <1>1, <1>2, <2>3, <3>1 DEF PaidIsPaid, Record
  <2> QED BY <1>3, <2>1, <2>2, <2>3, BelievedPaid
<1>4. ASSUME NEW k \in DOMAIN history', history'[k].payoutStatus = "completed"
      PROVE  history'[k].date \in PaidDays' \cap payoutHistory'
  <2>1. ASSUME NEW j \in DOMAIN history, history'[k] = history[j] PROVE history'[k].date \in PaidDays' \cap payoutHistory'
    BY <1>1, <1>2, <1>4, <2>1 DEF PaidIsPaid
  <2>2. CASE UNCHANGED file
    BY <2>1, <2>2 DEF file
  <2>3. CASE DOMAIN history' = {}
    BY <2>3
  <2>4. ASSUME NEW c \in Callers, NEW r, Draws(c, r), history'[1] = r,
               k = 1 \/ (k - 1 \in DOMAIN history /\ history'[k] = history[k - 1])
        PROVE  history'[k].date \in PaidDays' \cap payoutHistory'
    <3>1. k # 1
      BY <1>4, <2>4 DEF Draws
    <3> QED BY <2>1, <2>4, <3>1
  <2>5. ASSUME NEW c \in Callers, NEW status, Marks(c, status), DOMAIN history' = DOMAIN history,
               SameDraw(history[k], history'[k]),
               history[k].date = Record(c).date => history'[k].payoutStatus = status,
               history[k].date # Record(c).date => history'[k] = history[k]
        PROVE  history'[k].date \in PaidDays' \cap payoutHistory'
    <3>1. CASE history[k].date # Record(c).date
      BY <2>1, <2>5, <3>1
    <3>2. CASE history[k].date = Record(c).date
      <4>1. calls[c].pc = "disconnect"
        BY <1>4, <2>5, <3>2 DEF Marks
      <4>2. Record(c).date \in PaidDays \cap payoutHistory
        BY <4>1 DEF PaidIsPaid, Submitted
      <4> QED BY <1>1, <1>2, <2>5, <3>2, <4>2 DEF SameDraw
    <3> QED BY <3>1, <3>2
  <2> QED BY <1>0, <2>2, <2>3, <2>4, <2>5, FileMoves
<1>5. \A c \in Callers : Record(c)' = Head(calls'[c].todo)
  BY DEF Record
<1>6. \A c \in Callers : /\ calls'[c].pc \in Submitted => Record(c)'.date \in PaidDays'
                         /\ calls'[c].pc = "disconnect" => Record(c)'.date \in payoutHistory'
  BY <1>3, <1>5 DEF Submitted
<1> QED BY <1>4, <1>6 DEF PaidIsPaid, Submitted

\* A record marked completed has been paid: its payout is in the chain or on its way,
\* and in payout-history.json.
THEOREM CompletedArePaid == Spec => []CompletedMeansPaid
<1> DEFINE Inv == Base /\ PaidIsPaid
<1>1. Init => Inv
  <2> SUFFICES ASSUME Init PROVE PaidIsPaid
    BY BaseInvariant
  <2>1. DOMAIN history = {} /\ \A c \in Callers : calls[c].pc = "idle"
    BY WorldStarts, FreshCalls
  <2> QED BY <2>1 DEF PaidIsPaid, Submitted
<1>2. Inv /\ [Next]_vars => Inv'
  BY BaseInvariant, PaidStaysPaid
<1>3. Inv => CompletedMeansPaid
  <2> SUFFICES ASSUME PaidIsPaid, NEW r \in Range(history), r.payoutStatus = "completed"
               PROVE  (\E tx \in Sent : tx.date = r.date) /\ r.date \in payoutHistory \cup forgotten
    BY DEF CompletedMeansPaid
  <2>1. r.date \in PaidDays \cap payoutHistory
    BY DEF PaidIsPaid, Range
  <2> QED BY <2>1 DEF PaidDays
<1> HIDE DEF Inv
<1> QED BY <1>1, <1>2, <1>3, PTL DEF Spec

-----------------------------------------------------------------------------
(***************************************************************************)
(* One payout of each day, as long as nothing was cut off.                 *)
(***************************************************************************)
Doubtful == disturbed \cup forgotten
Held(d) == \E c \in Callers : \E i \in DOMAIN calls[c].todo : calls[c].todo[i].date = d
InHand(d) == \E c \in Callers : calls[c].pc \in Submitted /\ Record(c).date = d
SettledOnFile(d) == \E k \in DOMAIN history : history[k].date = d /\ history[k].payoutStatus = "completed"

\* A record is in one call's hands at most; a day that is paid is in the hands of the
\* call that paid it, or of none and marked completed; and it has one payout.
HeldOnce ==
    \A c, e \in Callers : \A i \in DOMAIN calls[c].todo, j \in DOMAIN calls[e].todo :
        calls[c].todo[i].date = calls[e].todo[j].date => calls[c].todo[i].date \in Doubtful \/ (c = e /\ i = j)
PaidOnce == \A d \in PaidDays \ Doubtful : InHand(d) \/ (~Held(d) /\ SettledOnFile(d))
OnePayout ==
    \A d \in Nat \ (Doubtful \cup {NoDay}) :
        /\ \A t, u \in mempool : t.date = d /\ u.date = d => t = u
        /\ \A i, j \in PayoutsOf(d) : i = j
        /\ PayoutsOf(d) = {} \/ \A t \in mempool : t.date # d

\* Days are added to the two history variables and stay there.
LEMMA DoubtsGrow ==
    ASSUME Base, [Next]_vars
    PROVE  Doubtful \subseteq Doubtful' /\ disturbed \subseteq disturbed'
<1>1. disturbed \subseteq disturbed'
  BY StepKinds DEF Base, Outside, Restarted, Waits, Skips, Submits, Loses, Learns, TakesUp, Draws, Marks
<1> QED BY <1>1, FileKeeps DEF Doubtful

\* What the calls have in hand after a step: the same, nothing, one record less, one
\* just drawn, or those that are pending in the file.
LEMMA HandsMove ==
    ASSUME Base, [Next]_vars
    PROVE  \/ \A e \in Callers : calls'[e].todo = calls[e].todo
           \/ \A e \in Callers : calls'[e].todo = <<>>
           \/ \E c \in Callers :
                 /\ \A e \in Callers \ {c} : calls'[e].todo = calls[e].todo
                 /\ \/ calls[c].todo # <<>> /\ calls'[c].todo = Tail(calls[c].todo)
                    \/ \E r : Draws(c, r) /\ calls'[c].todo = Append(calls[c].todo, r)
                    \/ TakesUp(c) /\ calls'[c].todo = PendingPayouts
<1>0. CallsOK
  BY DEF Base
<1>1. ASSUME NEW c \in Callers, NEW pc, NEW days, NEW todo, Moves(c, pc, days, todo)
      PROVE  /\ \A e \in Callers \ {c} : calls'[e].todo = calls[e].todo
             /\ calls'[c].todo = todo
  BY <1>1 DEF Moves
<1>2. CASE Outside
  BY <1>2 DEF Outside
<1>3. CASE Restarted
  BY <1>3, FreshCalls DEF Restarted
<1>4. ASSUME NEW c \in Callers, Waits(c) \/ Submits(c) \/ Loses(c) \/ Learns(c)
      PROVE  \A e \in Callers : calls'[e].todo = calls[e].todo
  <2>1. \E pc, days : Moves(c, pc, days, calls[c].todo)
    BY <1>4 DEF Waits, Submits, Loses, Learns
  <2> QED BY <1>1, <2>1
<1>5. ASSUME NEW c \in Callers, Skips(c) \/ \E status : Marks(c, status)
      PROVE  /\ \A e \in Callers \ {c} : calls'[e].todo = calls[e].todo
             /\ calls[c].todo # <<>> /\ calls'[c].todo = Tail(calls[c].todo)
  BY <1>1, <1>5 DEF Skips, Marks, LetGo
<1>6. ASSUME NEW c \in Callers, NEW r, Draws(c, r)
      PROVE  /\ \A e \in Callers \ {c} : calls'[e].todo = calls[e].todo
             /\ calls'[c].todo = Append(calls[c].todo, r)
  <2>1. Moves(c, "draw", Tail(calls[c].days), Append(calls[c].todo, r))
    BY <1>6 DEF Draws
  <2> QED BY <1>1, <2>1
<1>7. ASSUME NEW c \in Callers, TakesUp(c)
      PROVE  /\ \A e \in Callers \ {c} : calls'[e].todo = calls[e].todo
             /\ calls'[c].todo = PendingPayouts
  BY <1>1, <1>7 DEF TakesUp
<1> QED BY <1>0, <1>2, <1>3, <1>4, <1>5, <1>6, <1>7, StepKinds

\* No record comes into two hands, unless the queue takes up one that another call has.
LEMMA HandsStep ==
    ASSUME Base, HeldOnFile, HeldOnce, [Next]_vars
    PROVE  HeldOnce'
<1>0. FileOK /\ CallsOK /\ Doubtful \subseteq Doubtful' /\ disturbed \subseteq disturbed'
  BY DoubtsGrow DEF Base
<1> SUFFICES ASSUME NEW c \in Callers, NEW e \in Callers,
                    NEW i \in DOMAIN calls'[c].todo, NEW j \in DOMAIN calls'[e].todo,
                    calls'[c].todo[i].date = calls'[e].todo[j].date, calls'[c].todo[i].date \notin Doubtful'
             PROVE  c = e /\ i = j
  BY DEF HeldOnce
<1> DEFINE old(f) == calls[f].todo
           new(f) == calls'[f].todo
<1>1. ASSUME NEW f \in Callers, NEW g \in Callers, NEW k \in DOMAIN old(f), NEW l \in DOMAIN old(g),
             old(f)[k].date = old(g)[l].date, old(f)[k].date \notin Doubtful'
      PROVE  f = g /\ k = l
  BY <1>0, <1>1 DEF HeldOnce
<1>2. CASE \A f \in Callers : new(f) = old(f)
  BY <1>1, <1>2
<1>3. CASE \A f \in Callers : new(f) = <<>>
  BY <1>3
<1>4. ASSUME NEW f \in Callers, \A g \in Callers \ {f} : new(g) = old(g), old(f) # <<>>, new(f) = Tail(old(f))
      PROVE  c = e /\ i = j
  <2>1. IsList(old(f))
    BY <1>0 DEF CallsOK, CallOK
  <2>2. DOMAIN old(f) = 1 .. Len(old(f)) /\ Len(old(f)) \in Nat \ {0} /\ DOMAIN new(f) = 1 .. Len(old(f)) - 1
        /\ \A k \in DOMAIN new(f) : k + 1 \in DOMAIN old(f) /\ new(f)[k] = old(f)[k + 1]
    BY <1>4, <2>1, TailOf
  <2> HIDE DEF old, new
  <2>3. i \in DOMAIN new(c) /\ j \in DOMAIN new(e) /\ new(c)[i].date = new(e)[j].date /\ new(c)[i].date \notin Doubtful'
    BY DEF new
  <2>4. CASE c # f /\ e # f
    BY <1>1, <1>4, <2>3, <2>4
  <2>5. CASE c = f /\ e # f
    BY <1>1, <1>4, <2>2, <2>3, <2>5
  <2>6. CASE c # f /\ e = f
    BY <1>1, <1>4, <2>2, <2>3, <2>6
  <2>7. CASE c = f /\ e = f
    <3>1. i + 1 = j + 1 /\ i \in Nat /\ j \in Nat
      BY <1>1, <2>2, <2>3, <2>7
    <3> QED BY <2>7, <3>1
  <2> QED BY <2>4, <2>5, <2>6, <2>7
<1>5. ASSUME NEW f \in Callers, \A g \in Callers \ {f} : new(g) = old(g), NEW r, Draws(f, r), new(f) = Append(old(f), r)
      PROVE  c = e /\ i = j
  <2>1. IsList(old(f))
    BY <1>0 DEF CallsOK, CallOK
  <2> DEFINE n == Len(old(f)) + 1
  <2>2. /\ new(f)[n] = r
        /\ \A k \in DOMAIN old(f) : new(f)[k] = old(f)[k]
        /\ \A k \in DOMAIN new(f) : k = n \/ k \in DOMAIN old(f)
    BY <1>5, <2>1, AppendOf
  <2>3. \A g \in Callers : \A k \in DOMAIN old(g) : old(g)[k].date # r.date \/ r.date \in Doubtful
    <3> SUFFICES ASSUME NEW g \in Callers, NEW k \in DOMAIN old(g), old(g)[k].date = r.date, r.date \notin Doubtful
                 PROVE  FALSE
      OBVIOUS
    <3>1. PICK l \in DOMAIN history : history[l].date = r.date
      BY DEF HeldOnFile, OnFile, SameDraw, Doubtful
    <3>2. r.date \in completed
      BY <1>0, <3>1 DEF FileOK, OneRecordPerDay, Range
    <3> QED BY <1>5, <3>2 DEF Draws
  <2> HIDE DEF old, new, n
  <2>4. i \in DOMAIN new(c) /\ j \in DOMAIN new(e) /\ new(c)[i].date = new(e)[j].date /\ new(c)[i].date \notin Doubtful'
    BY DEF new
  <2>5. \/ c = f /\ i = n /\ new(c)[i] = r
        \/ i \in DOMAIN old(c) /\ new(c)[i] = old(c)[i]
    BY <1>5, <2>2, <2>4
  <2>6. \/ e = f /\ j = n /\ new(e)[j] = r
        \/ j \in DOMAIN old(e) /\ new(e)[j] = old(e)[j]
    BY <1>5, <2>2, <2>4
  <2> QED BY <1>0, <1>1, <2>3, <2>4, <2>5, <2>6
<1>6. ASSUME NEW f \in Callers, \A g \in Callers \ {f} : new(g) = old(g), TakesUp(f), new(f) = PendingPayouts
      PROVE  c = e /\ i = j
  <2>1. ASSUME NEW g \in Callers, NEW k \in DOMAIN old(g), NEW l \in DOMAIN PendingPayouts,
               old(g)[k].date = PendingPayouts[l].date
        PROVE  old(g)[k].date \in Doubtful'
    <3>1. old(g)[k].date \in Dates(g)
      BY DEF Dates, Range
    <3>2. old(g)[k].date \in {r.date : r \in Range(PendingPayouts)}
      BY <2>1 DEF Range
    <3> HIDE DEF old
    <3>3. old(g)[k].date \in disturbed'
      BY <1>6, <3>1, <3>2 DEF TakesUp
    <3> QED BY <3>3 DEF Doubtful
  <2>2. \A k, l \in DOMAIN PendingPayouts : PendingPayouts[k].date = PendingPayouts[l].date => k = l
    BY <1>0, PendingOnFile
  <2> HIDE DEF old, new
  <2>3. i \in DOMAIN new(c) /\ j \in DOMAIN new(e) /\ new(c)[i].date = new(e)[j].date /\ new(c)[i].date \notin Doubtful'
    BY DEF new
  <2>4. CASE c # f /\ e # f
    BY <1>1, <1>6, <2>3, <2>4
  <2>5. CASE c = f /\ e # f
    BY <1>6, <2>1, <2>3, <2>5
  <2>6. CASE c # f /\ e = f
    BY <1>6, <2>1, <2>3, <2>6
  <2>7. CASE c = f /\ e = f
    BY <1>6, <2>2, <2>3, <2>7
  <2> QED BY <2>4, <2>5, <2>6, <2>7
<1> QED BY <1>2, <1>3, <1>4, <1>5, <1>6, HandsMove

\* A day that is marked completed and that no call has in hand is not touched again.
LEMMA SettledStays ==
    ASSUME Base, [Next]_vars, NEW d, ~Held(d), SettledOnFile(d), d \notin forgotten'
    PROVE  ~Held(d)' /\ SettledOnFile(d)'
<1>0. FileOK /\ CallsOK
  BY DEF Base
<1>1. PICK k \in DOMAIN history : history[k].date = d /\ history[k].payoutStatus = "completed"
  BY DEF SettledOnFile
<1>2. d \in completed
  BY <1>0, <1>1 DEF FileOK, OneRecordPerDay, Range
<1>3. ASSUME NEW e \in Callers, NEW i \in DOMAIN calls'[e].todo PROVE calls'[e].todo[i].date # d
  <2> DEFINE r == calls'[e].todo[i]
  <2>1. CASE \E j \in DOMAIN calls[e].todo : r = calls[e].todo[j]
    BY <2>1 DEF Held
  <2>2. CASE Draws(e, r)
    BY <1>2, <2>2 DEF Draws
  <2>3. CASE \E l \in DOMAIN history : r = history[l] /\ history[l].payoutStatus = "pending"
    BY <1>0, <1>1, <2>3 DEF FileOK, OneRecordPerDay
  <2> HIDE DEF r
  <2>4. \/ \E j \in DOMAIN calls[e].todo : r = calls[e].todo[j]
        \/ Draws(e, r)
        \/ \E l \in DOMAIN history : r = history[l] /\ history[l].payoutStatus = "pending"
    BY TodoEffect DEF r
  <2> QED BY <2>1, <2>2, <2>3, <2>4 DEF r
<1>4. SettledOnFile(d)'
  <2>1. CASE UNCHANGED file
    BY <1>1, <2>1 DEF file, SettledOnFile
  <2>2. CASE Tearing
    BY <1>2, <2>2 DEF Tearing
  <2>3. ASSUME k + 1 \in DOMAIN history', history'[k + 1] = history[k] PROVE SettledOnFile(d)'
    BY <1>1, <2>3 DEF SettledOnFile
  <2>4. ASSUME NEW c \in Callers, NEW status, Marks(c, status), DOMAIN history' = DOMAIN history,
               history[k].date # Record(c).date => history'[k] = history[k]
        PROVE  SettledOnFile(d)'
    <3>1. calls[c].todo # <<>>
      BY <2>4 DEF Marks, LetGo
    <3>2. Record(c) = calls[c].todo[1] /\ 1 \in DOMAIN calls[c].todo
      BY <1>0, <3>1, RecordInHand
    <3>3. Record(c).date # d
      BY <3>2 DEF Held
    <3> QED BY <1>1, <2>4, <3>3 DEF SettledOnFile
  <2> QED BY <1>0, <2>1, <2>2, <2>3, <2>4, FileMoves
<1> QED BY <1>3, <1>4 DEF Held

\* A call that has submitted a payment keeps its record in hand until it is cut off or
\* has marked the record completed.
LEMMA LeavesHand ==
    ASSUME Base, [Next]_vars, NEW e \in Callers, calls[e].pc \in Submitted
    PROVE  \/ calls'[e].pc \in Submitted /\ calls'[e].todo = calls[e].todo
           \/ Record(e).date \in disturbed'
           \/ Marks(e, "completed")
<1>0. CallsOK /\ IsCall(calls[e])
  BY DEF Base, CallsOK, CallOK
<1>1. "draw" \notin Submitted /\ "failed" \notin Submitted /\ "submit" \notin Submitted /\ Submitted = {"sent", "disconnect"}
  BY DEF Submitted
<1>2. CASE UNCHANGED calls
  BY <1>2
<1>3. CASE Restarted
  <2>1. Record(e).date \in {Record(c).date : c \in {d \in Callers : calls[d].pc \in Submitted}}
    OBVIOUS
  <2> QED BY <1>3, <2>1 DEF Restarted
<1>4. ASSUME NEW c \in Callers, NEW pc, NEW days, NEW todo, Moves(c, pc, days, todo)
      PROVE  c = e \/ calls'[e] = calls[e]
  BY <1>4 DEF Moves
<1>5. ASSUME NEW c \in Callers, Waits(c) \/ Skips(c) \/ TakesUp(c) \/ Submits(c) \/ \E r : Draws(c, r)
      PROVE  calls'[e] = calls[e]
  <2>1. c # e
    BY <1>1, <1>5 DEF Waits, Skips, TakesUp, Submits, Draws
  <2>2. \E pc, days, todo : Moves(c, pc, days, todo)
    BY <1>5 DEF Waits, Skips, LetGo, TakesUp, Submits, Draws
  <2> QED BY <1>4, <2>1, <2>2
<1>6. ASSUME NEW c \in Callers, NEW status, Marks(c, status)
      PROVE  calls'[e] = calls[e] \/ Marks(e, "completed")
  <2>1. CASE c = e
    <3>1. calls[c].pc = "disconnect"
      BY <1>1, <1>6, <2>1 DEF Marks
    <3> QED BY <1>6, <2>1, <3>1 DEF Marks
  <2>2. CASE c # e
    BY <1>4, <1>6, <2>2 DEF Marks, LetGo
  <2> QED BY <2>1, <2>2
<1>7. ASSUME NEW c \in Callers, Loses(c) PROVE calls'[e] = calls[e] \/ Record(e).date \in disturbed'
  BY <1>4, <1>7 DEF Loses
<1>8. ASSUME NEW c \in Callers, Learns(c)
      PROVE  calls'[e] = calls[e] \/ (calls'[e].pc = "disconnect" /\ calls'[e].todo = calls[e].todo)
  BY <1>8 DEF Learns, Moves
<1>9. CASE Outside
  BY <1>2, <1>9 DEF Outside
<1> QED BY <1>0, <1>1, <1>3, <1>5, <1>6, <1>7, <1>8, <1>9, StepKinds

\* A payment that has been sent is in the hands of its sender or settled.
LEMMA PaymentsSettle ==
    ASSUME Base, HeldOnFile, HeldOnce, PaidOnce, [Next]_vars
    PROVE  PaidOnce'
<1>0. FileOK /\ CallsOK /\ Doubtful \subseteq Doubtful' /\ forgotten' \subseteq Doubtful' /\ disturbed' \subseteq Doubtful'
  BY DoubtsGrow DEF Base, Doubtful
<1> SUFFICES ASSUME NEW d, d \in PaidDays', d \notin Doubtful'
             PROVE  InHand(d)' \/ (~Held(d)' /\ SettledOnFile(d)')
  BY DEF PaidOnce
<1>1. ASSUME NEW e \in Callers, calls'[e].pc \in Submitted, calls'[e].todo = calls[e].todo, Record(e).date = d
      PROVE  InHand(d)'
  <2>1. Head(calls'[e].todo).date = d
    BY <1>1 DEF Record
  <2> QED BY <1>1, <2>1 DEF InHand, Record, Submitted
<1>2. CASE \E c \in Callers : Submits(c) /\ Record(c).date = d
  <2>1. PICK c \in Callers : Submits(c) /\ Record(c).date = d
    BY <1>2
  <2>2. calls'[c].pc \in Submitted /\ calls'[c].todo = calls[c].todo
    BY <2>1 DEF Submits, Moves, Submitted
  <2> QED BY <1>1, <2>1, <2>2
<1>3. CASE InHand(d)
  <2>1. PICK e \in Callers : calls[e].pc \in Submitted /\ Record(e).date = d
    BY <1>3 DEF InHand
  <2>2. CASE Marks(e, "completed")
    <3>1. calls[e].todo # <<>>
      BY <2>2 DEF Marks, LetGo
    <3>2. Record(e) = calls[e].todo[1] /\ 1 \in DOMAIN calls[e].todo
      BY <1>0, <3>1, RecordInHand
    <3>3. /\ \A c \in Callers \ {e} : calls'[c].todo = calls[c].todo
          /\ calls'[e].todo = Tail(calls[e].todo)
      BY <2>2 DEF Marks, LetGo, Moves
    <3>4. /\ IsList(calls[e].todo) /\ DOMAIN Tail(calls[e].todo) = 1 .. Len(calls[e].todo) - 1
          /\ \A i \in DOMAIN Tail(calls[e].todo) : /\ i + 1 \in DOMAIN calls[e].todo
                                                   /\ Tail(calls[e].todo)[i] = calls[e].todo[i + 1]
      BY <1>0, <3>1, TailOf DEF CallsOK, CallOK
    <3>5. \A c \in Callers : \A i \in DOMAIN calls[c].todo : calls[c].todo[i].date = d => c = e /\ i = 1
      BY <1>0, <2>1, <3>2 DEF HeldOnce
    <3>6. ~Held(d)'
      <4>1. ASSUME NEW c \in Callers \ {e}, NEW i \in DOMAIN calls'[c].todo PROVE calls'[c].todo[i].date # d
        BY <3>3, <3>5, <4>1
      <4>2. ASSUME NEW i \in DOMAIN calls'[e].todo PROVE calls'[e].todo[i].date # d
        <5>1. i \in Nat \ {0} /\ i + 1 # 1
          BY <3>3, <3>4, <4>2
        <5>2. i + 1 \in DOMAIN calls[e].todo /\ calls'[e].todo[i] = calls[e].todo[i + 1]
          BY <3>3, <3>4, <4>2
        <5> QED BY <3>5, <5>1, <5>2
      <4> QED BY <4>1, <4>2 DEF Held
    <3>7. PICK k \in DOMAIN history : history[k].date = d
      BY <1>0, <2>1, <3>2 DEF HeldOnFile, OnFile, SameDraw, Doubtful
    <3>8. /\ DOMAIN history' = DOMAIN history /\ SameDraw(history[k], history'[k])
          /\ history'[k].payoutStatus = "completed"
      BY <1>0, <2>1, <2>2, <3>7, MarkedFile
    <3> QED BY <3>6, <3>7, <3>8 DEF SettledOnFile, SameDraw
  <2>3. CASE calls'[e].pc \in Submitted /\ calls'[e].todo = calls[e].todo
    BY <1>1, <2>1, <2>3
  <2>4. CASE d \in disturbed'
    BY <1>0, <2>4
  <2> QED BY <2>1, <2>2, <2>3, <2>4, LeavesHand
<1>4. CASE ~Held(d) /\ SettledOnFile(d)
  BY <1>0, <1>4, SettledStays
<1>5. d \in PaidDays \/ \E c \in Callers : Submits(c) /\ Record(c).date = d
  BY SentEffect DEF PaidDays
<1> QED BY <1>0, <1>2, <1>3, <1>4, <1>5 DEF PaidOnce

\* A call about to submit has a record of a day that is not paid.
LEMMA SubmitsUnpaid ==
    ASSUME Base, HeldOnce, PaidOnce, NEW c \in Callers, SubmitPayout(c), Record(c).date \notin Doubtful
    PROVE  Record(c).date \notin PaidDays
<1>0. CallsOK
  BY DEF Base
<1>1. calls[c].todo # <<>> /\ calls[c].pc = "submit"
  BY <1>0, PayoutInHand DEF SubmitPayout, At
<1>2. Record(c) = calls[c].todo[1] /\ 1 \in DOMAIN calls[c].todo
  BY <1>0, <1>1, RecordInHand
<1>3. Held(Record(c).date)
  BY <1>2 DEF Held
<1>4. ASSUME NEW e \in Callers, calls[e].pc \in Submitted, Record(e).date = Record(c).date PROVE FALSE
  <2>1. calls[e].todo # <<>>
    BY <1>0, <1>4 DEF CallsOK, CallOK, Submitted
  <2>2. Record(e) = calls[e].todo[1] /\ 1 \in DOMAIN calls[e].todo
    BY <1>0, <2>1, RecordInHand
  <2>3. e = c
    BY <1>2, <1>4, <2>2 DEF HeldOnce
  <2> QED BY <1>1, <1>4, <2>3 DEF Submitted
<1> QED BY <1>3, <1>4 DEF PaidOnce, InHand

\* A day gets a second payout only when it is in doubt.
LEMMA PayoutsStep ==
    ASSUME Base, HeldOnce, PaidOnce, OnePayout, [Next]_vars
    PROVE  OnePayout'
<1>0. CallsOK /\ WorldOK /\ Doubtful \subseteq Doubtful'
  BY DoubtsGrow DEF Base
<1> SUFFICES ASSUME NEW d \in Nat, d \notin Doubtful', d # NoDay
             PROVE  /\ \A t, u \in mempool' : t.date = d /\ u.date = d => t = u
                    /\ \A i, j \in PayoutsOf(d)' : i = j
                    /\ PayoutsOf(d)' = {} \/ \A t \in mempool' : t.date # d
  BY DEF OnePayout
<1>1. /\ \A t, u \in mempool : t.date = d /\ u.date = d => t = u
      /\ \A i, j \in PayoutsOf(d) : i = j
      /\ PayoutsOf(d) = {} \/ \A t \in mempool : t.date # d
  BY <1>0 DEF OnePayout
<1>2. /\ PayoutsOf(d) = {i \in DOMAIN chain : chain[i].date = d}
      /\ PayoutsOf(d)' = {i \in DOMAIN chain' : chain'[i].date = d}
  BY DEF PayoutsOf
<1>3. CASE UNCHANGED wallet
  BY <1>1, <1>2, <1>3 DEF wallet
<1>4. ASSUME NEW tx, Accept(tx)
      PROVE  PayoutsOf(d)' = IF tx.date = d THEN PayoutsOf(d) \cup {Len(chain) + 1} ELSE PayoutsOf(d)
  <2>1. /\ DOMAIN chain = 1 .. Len(chain) /\ DOMAIN chain' = 1 .. Len(chain) + 1 /\ Len(chain) \in Nat
        /\ \A i \in DOMAIN chain : chain'[i] = chain[i]
        /\ chain'[Len(chain) + 1].date = tx.date
    BY <1>0, <1>4, AcceptAppends DEF WorldOK
  <2>2. DOMAIN chain' = DOMAIN chain \cup {Len(chain) + 1} /\ Len(chain) + 1 \notin DOMAIN chain
    BY <2>1
  <2> QED BY <1>2, <2>1, <2>2
<1>5. CASE \E amount \in Amounts, sender \in BOOLEAN : Accept(Deposit(amount, sender)) /\ UNCHANGED mempool
  <2>1. PICK amount \in Amounts, sender \in BOOLEAN : Accept(Deposit(amount, sender)) /\ mempool' = mempool
    BY <1>5
  <2>2. Deposit(amount, sender).date # d
    BY DEF Deposit
  <2>3. PayoutsOf(d)' = PayoutsOf(d)
    BY <1>4, <2>1, <2>2
  <2> QED BY <1>1, <2>1, <2>3
<1>6. CASE \E tx \in mempool : Accept(tx) /\ mempool' = mempool \ {tx}
  <2>1. PICK tx \in mempool : Accept(tx) /\ mempool' = mempool \ {tx}
    BY <1>6
  <2>2. CASE tx.date = d
    BY <1>1, <1>4, <2>1, <2>2
  <2>3. CASE tx.date # d
    BY <1>1, <1>4, <2>1, <2>3
  <2> QED BY <2>2, <2>3
<1>7. CASE \E c \in Callers : SubmitPayout(c)
  <2>1. PICK c \in Callers : SubmitPayout(c)
    BY <1>7
  <2>2. PICK tx : mempool' = mempool \cup {tx} /\ tx.date = Record(c).date
    BY <1>0, <2>1, PayoutInHand
  <2>3. PayoutsOf(d)' = PayoutsOf(d)
    BY <1>2, <2>1 DEF SubmitPayout
  <2>4. CASE tx.date # d
    BY <1>1, <2>2, <2>3, <2>4
  <2>5. CASE tx.date = d
    <3>1. d \notin PaidDays
      BY <1>0, <2>1, <2>2, <2>5, SubmitsUnpaid
    <3>2. Sent = {x \in {chain[i] : i \in DOMAIN chain} : x.date # NoDay} \cup mempool
      BY DEF Sent, Range, IsPayout
    <3>3. \A t \in mempool : t.date # d
      BY <3>1, <3>2 DEF PaidDays
    <3>4. PayoutsOf(d) = {}
      BY <1>2, <3>1, <3>2 DEF PaidDays
    <3> QED BY <2>2, <2>3, <3>3, <3>4
  <2> QED BY <2>4, <2>5
<1> QED BY <1>0, <1>3, <1>5, <1>6, <1>7, WalletEffect

\* What the last two theorems need of all parts together.
Ledgered == Base /\ HeldOnFile /\ SentOnFile /\ PaidIsPaid /\ HeldOnce /\ PaidOnce /\ OnePayout

\* They hold at the start and after every step.
LEMMA LedgeredInvariant ==
    /\ Init => Ledgered
    /\ Ledgered /\ [Next]_vars => Ledgered'
<1>1. ASSUME Init PROVE Ledgered
  <2>1. /\ Sent = {} /\ DOMAIN history = {}
        /\ \A c \in Callers : calls[c].pc = "idle" /\ calls[c].todo = <<>>
    BY <1>1, WorldStarts, FreshCalls
  <2>2. mempool = {} /\ DOMAIN chain = {1}
    BY <1>1 DEF Init
  <2>3. HeldOnFile /\ SentOnFile /\ PaidIsPaid
    BY <2>1 DEF HeldOnFile, SentOnFile, PaidIsPaid, Submitted
  <2>4. HeldOnce /\ PaidOnce
    BY <2>1 DEF HeldOnce, PaidOnce, PaidDays
  <2>5. OnePayout
    BY <2>2 DEF OnePayout, PayoutsOf
  <2> QED BY <1>1, <2>3, <2>4, <2>5, BaseInvariant DEF Ledgered
<1>2. ASSUME Ledgered, [Next]_vars PROVE Ledgered'
  BY <1>2, BaseInvariant, PaysWhatIsOnFile, PaidStaysPaid, HandsStep, PaymentsSettle, PayoutsStep DEF Ledgered
<1> QED BY <1>1, <1>2

\* A day whose payment was never cut off, never taken up twice and never torn from the
\* file is paid at most once.
THEOREM NoSecondPayout == Spec => []PaidTwiceOnlyAfterTrouble
<1>1. Init => Ledgered
  BY LedgeredInvariant
<1>2. Ledgered /\ [Next]_vars => Ledgered'
  BY LedgeredInvariant
<1>3. Ledgered => PaidTwiceOnlyAfterTrouble
  <2> SUFFICES ASSUME OnePayout, NEW d \in (1 .. MaxDay) \ (disturbed \cup forgotten)
               PROVE  Cardinality({tx \in mempool : tx.date = d} \cup PayoutsOf(d)) <= 1
    BY DEF Ledgered, PaidTwiceOnlyAfterTrouble
  <2> DEFINE S == {tx \in mempool : tx.date = d} \cup PayoutsOf(d)
  <2>1. d \in Nat \ (Doubtful \cup {NoDay})
    BY LegacyAssumption DEF Doubtful, NoDay
  <2>2. /\ \A t, u \in mempool : t.date = d /\ u.date = d => t = u
        /\ \A i, j \in PayoutsOf(d) : i = j
        /\ PayoutsOf(d) = {} \/ \A t \in mempool : t.date # d
    BY <2>1 DEF OnePayout
  <2>3. \A x, y \in S : x = y
    BY <2>2
  <2> HIDE DEF S
  <2>4. Cardinality(S) \in {0, 1}
    <3>1. CASE S = {}
      BY <3>1, FS_EmptySet
    <3>2. CASE S # {}
      <4>1. PICK x : S = {x}
        BY <2>3, <3>2
      <4> QED BY <4>1, FS_Singleton
    <3> QED BY <3>1, <3>2
  <2>5. Cardinality(S) <= 1
    BY <2>4
  <2> QED BY <2>5 DEF S
<1> QED BY <1>1, <1>2, <1>3, PTL DEF Spec

\* A status is set by a call that has the record in hand: a completed record of a day
\* that is not in doubt is in the hands of the call that paid it, or of none.
LEMMA CompletedKeeps ==
    ASSUME Ledgered, [Next]_vars, NEW k \in DOMAIN history, history[k].payoutStatus = "completed",
           history[k].date \notin Doubtful', NEW l \in DOMAIN history', history'[l].date = history[k].date
    PROVE  history'[l].payoutStatus = "completed"
<1>0. FileOK /\ CallsOK /\ Doubtful \subseteq Doubtful'
  BY DoubtsGrow DEF Base, Ledgered
<1>1. ASSUME NEW j \in DOMAIN history, history'[l] = history[j] PROVE history'[l].payoutStatus = "completed"
  BY <1>0, <1>1 DEF FileOK, OneRecordPerDay
<1>2. CASE UNCHANGED file
  BY <1>1, <1>2 DEF file
<1>3. CASE DOMAIN history' = {}
  BY <1>3
<1>4. ASSUME NEW c \in Callers, NEW r, Draws(c, r), history'[1] = r,
             l = 1 \/ (l - 1 \in DOMAIN history /\ history'[l] = history[l - 1])
      PROVE  history'[l].payoutStatus = "completed"
  <2>1. history[k].date \in completed
    BY <1>0 DEF FileOK, OneRecordPerDay, Range
  <2>2. l # 1
    BY <1>4, <2>1 DEF Draws
  <2> QED BY <1>1, <1>4, <2>2
<1>5. ASSUME NEW c \in Callers, NEW status, Marks(c, status), DOMAIN history' = DOMAIN history,
             SameDraw(history[l], history'[l]),
             history[l].date = Record(c).date => history'[l].payoutStatus = status,
             history[l].date # Record(c).date => history'[l] = history[l]
      PROVE  history'[l].payoutStatus = "completed"
  <2>1. CASE history[l].date # Record(c).date
    BY <1>1, <1>5, <2>1
  <2>2. CASE history[l].date = Record(c).date
    <3> DEFINE d == Record(c).date
    <3>1. calls[c].todo # <<>>
      BY <1>5 DEF Marks, LetGo
    <3>2. Record(c) = calls[c].todo[1] /\ 1 \in DOMAIN calls[c].todo
      BY <1>0, <3>1, RecordInHand
    <3>3. history[k].date = d /\ d \notin Doubtful
      BY <1>0, <1>5, <2>2 DEF SameDraw
    <3>4. d \in PaidDays
      BY <3>3 DEF Ledgered, PaidIsPaid
    <3>5. Held(d)
      BY <3>2 DEF Held
    <3>6. PICK e \in Callers : calls[e].pc \in Submitted /\ Record(e).date = d
      BY <3>3, <3>4, <3>5 DEF Ledgered, PaidOnce, InHand
    <3>7. calls[e].todo # <<>>
      BY <1>0, <3>6 DEF CallsOK, CallOK, Submitted
    <3>8. Record(e) = calls[e].todo[1] /\ 1 \in DOMAIN calls[e].todo
      BY <1>0, <3>7, RecordInHand
    <3>9. e = c
      BY <3>2, <3>3, <3>6, <3>8 DEF Ledgered, HeldOnce
    <3>10. calls[c].pc = "disconnect"
      BY <1>5, <3>6, <3>9 DEF Marks, Submitted
    <3> QED BY <1>5, <2>2, <3>10 DEF Marks
  <2> QED BY <2>1, <2>2
<1> QED BY <1>0, <1>2, <1>3, <1>4, <1>5, FileMoves

\* A payment marked completed is not made pending again, whatever another call read
\* before its await, unless its day is in doubt.
THEOREM CompletedRecordsStay == Spec => CompletedStays
<1> DEFINE Stays == \A r \in Range(history) :
                       r.payoutStatus = "completed" /\ r.date \notin disturbed' \cup forgotten' =>
                           \A new \in Range(history') : new.date = r.date => new.payoutStatus = "completed"
<1>1. Init => Ledgered
  BY LedgeredInvariant
<1>2. Ledgered /\ [Next]_vars => Ledgered'
  BY LedgeredInvariant
<1>3. Ledgered /\ [Next]_vars => Stays
  BY CompletedKeeps DEF Range, Doubtful
<1>4. Ledgered /\ [Next]_vars => [Stays]_history
  BY <1>3
<1> HIDE DEF Stays
<1>5. Spec => [][Stays]_history
  BY <1>1, <1>2, <1>4, PTL DEF Spec
<1> QED BY <1>5 DEF CompletedStays, Stays

-----------------------------------------------------------------------------
(***************************************************************************)
(* The wallet: no coin of it is spent twice, a payout never spends more    *)
(* than its coins are worth, and the record of a day holds what the wallet *)
(* had left when the day ended.  The totals of kaspa-api.js and payouts.js *)
(* are folds over sets of coins; the sums of NatInduction say how they add *)
(* up.                                                                     *)
(***************************************************************************)
\* What coins are worth and what the transactions of a set spend, of any chain.
Worth(ch, is) == MapThenSumSet(LAMBDA i : ch[i].out, is)
SpentBy(ch, is) == MapThenSumSet(LAMBDA i : Worth(ch, ch[i].ins), is)

\* The model's totals are those.
LEMMA TotalIsWorth ==
    ASSUME NEW is
    PROVE  Total(is) = Worth(chain, is)
BY DEF Total, Worth

\* The jackpot computed over the transactions up to a day's end.
LEMMA EndOfDay ==
    ASSUME NEW seen, NEW day
    PROVE LET past == {i \in Visible(seen) : chain[i].day <= day} IN
          JackpotAtEndOfDay(seen, day) = Worth(chain, past) - SpentBy(chain, past)
BY DEF JackpotAtEndOfDay, Total, Worth, SpentBy

\* A fold of the library over a finite set is the sum the lemmas are about.
LEMMA WorthIsSum ==
    ASSUME NEW ch, NEW R, IsFiniteSet(R), \A i \in R : ch[i].out \in Int
    PROVE  Worth(ch, R) = SumOver([i \in R |-> ch[i].out], R)
<1> DEFINE w == [i \in R |-> ch[i].out]
           body(g) == [s \in SUBSET R |-> IF s = {} THEN 0 ELSE ch[Chosen(s)].out + g[s \ {Chosen(s)}]]
<1>1. Worth(ch, R) = (CHOOSE g : g = body(g))[R]
  BY DEF Worth, MapThenSumSet, MapThenFoldSet, Chosen
<1>2. ASSUME NEW g PROVE (g = body(g)) <=> IsSum(g, w, R)
  <2>1. \A s \in SUBSET R : s # {} => Chosen(s) \in R
    BY DEF Chosen
  <2>2. \A s \in SUBSET R : s # {} => w[Chosen(s)] = ch[Chosen(s)].out
    BY <2>1
  <2>3. body(g) = Adding(g, w, R)
    <3> HIDE DEF w
    <3> QED BY <2>2 DEF Adding
  <2> QED BY <2>3 DEF IsSum
<1>3. \A i \in R : w[i] \in Int
  OBVIOUS
<1> HIDE DEF w, body
<1>4. \E g : IsSum(g, w, R)
  BY <1>3, SumExists
<1>5. PICK g : g = body(g)
  BY <1>2, <1>4
<1>6. (CHOOSE h : h = body(h)) = body((CHOOSE h : h = body(h)))
  BY <1>5
<1>7. IsSum((CHOOSE h : h = body(h)), w, R)
  BY <1>2, <1>6
<1>8. (CHOOSE h : h = body(h))[R] = SumOver(w, R)
  BY <1>3, <1>7, SumUnfold
<1> QED BY <1>1, <1>8 DEF w

\* The same for what transactions spend.
LEMMA SpentIsSum ==
    ASSUME NEW ch, NEW R, IsFiniteSet(R), \A i \in R : Worth(ch, ch[i].ins) \in Int
    PROVE  SpentBy(ch, R) = SumOver([i \in R |-> Worth(ch, ch[i].ins)], R)
<1> DEFINE w == [i \in R |-> Worth(ch, ch[i].ins)]
           body(g) == [s \in SUBSET R |-> IF s = {} THEN 0 ELSE Worth(ch, ch[Chosen(s)].ins) + g[s \ {Chosen(s)}]]
<1>1. SpentBy(ch, R) = (CHOOSE g : g = body(g))[R]
  BY DEF SpentBy, MapThenSumSet, MapThenFoldSet, Chosen
<1>2. ASSUME NEW g PROVE (g = body(g)) <=> IsSum(g, w, R)
  <2>1. \A s \in SUBSET R : s # {} => Chosen(s) \in R
    BY DEF Chosen
  <2>2. \A s \in SUBSET R : s # {} => w[Chosen(s)] = Worth(ch, ch[Chosen(s)].ins)
    BY <2>1
  <2>3. body(g) = Adding(g, w, R)
    <3> HIDE DEF w
    <3> QED BY <2>2 DEF Adding
  <2> QED BY <2>3 DEF IsSum
<1>3. \A i \in R : w[i] \in Int
  OBVIOUS
<1> HIDE DEF w, body
<1>4. \E g : IsSum(g, w, R)
  BY <1>3, SumExists
<1>5. PICK g : g = body(g)
  BY <1>2, <1>4
<1>6. (CHOOSE h : h = body(h)) = body((CHOOSE h : h = body(h)))
  BY <1>5
<1>7. IsSum((CHOOSE h : h = body(h)), w, R)
  BY <1>2, <1>6
<1>8. (CHOOSE h : h = body(h))[R] = SumOver(w, R)
  BY <1>3, <1>7, SumUnfold
<1> QED BY <1>1, <1>8 DEF w

\* Worth adds up over disjoint sets of coins.
LEMMA WorthAdds ==
    ASSUME NEW ch, NEW D, IsFiniteSet(D), \A i \in D : ch[i].out \in Nat
    PROVE  /\ \A R \in SUBSET D : Worth(ch, R) \in Nat
           /\ Worth(ch, {}) = 0
           /\ \A A, B \in SUBSET D : A \cap B = {} => Worth(ch, A \cup B) = Worth(ch, A) + Worth(ch, B)
<1> DEFINE w == [i \in D |-> ch[i].out]
<1>1. ASSUME NEW R \in SUBSET D PROVE Worth(ch, R) = SumOver(w, R) /\ Worth(ch, R) \in Nat
  <2> DEFINE v == [i \in R |-> ch[i].out]
  <2>1. IsFiniteSet(R) /\ \A i \in R : ch[i].out \in Int
    BY FS_Subset
  <2>2. Worth(ch, R) = SumOver(v, R)
    BY <2>1, WorthIsSum
  <2>3. \A i \in R : w[i] \in Int /\ w[i] = v[i] /\ w[i] \in Nat
    OBVIOUS
  <2> HIDE DEF v, w
  <2>4. SumOver(w, R) = SumOver(v, R) /\ SumOver(w, R) \in Nat
    BY <2>1, <2>3, SumAgrees, SumOfNaturals
  <2> QED BY <2>2, <2>4
<1>2. \A i \in D : w[i] \in Int
  OBVIOUS
<1> HIDE DEF w
<1>3. SumOver(w, {}) = 0
  BY <1>2, SumUnfold
<1>4. ASSUME NEW A \in SUBSET D, NEW B \in SUBSET D, A \cap B = {}
      PROVE  Worth(ch, A \cup B) = Worth(ch, A) + Worth(ch, B)
  <2>1. SumOver(w, A \cup B) = SumOver(w, A) + SumOver(w, B)
    BY <1>2, <1>4, SumSplit
  <2>2. A \cup B \in SUBSET D
    OBVIOUS
  <2> QED BY <1>1, <2>1, <2>2
<1>5. Worth(ch, {}) = 0
  <2>1. {} \in SUBSET D
    OBVIOUS
  <2> QED BY <1>1, <1>3, <2>1
<1> QED BY <1>1, <1>4, <1>5

\* Coins that two chains agree on are worth the same in both.
LEMMA WorthAgrees ==
    ASSUME NEW ch, NEW new, NEW R, IsFiniteSet(R), \A i \in R : ch[i].out \in Nat /\ new[i] = ch[i]
    PROVE  Worth(new, R) = Worth(ch, R)
<1>1. \A i \in R : ch[i].out \in Int /\ new[i].out \in Int
  OBVIOUS
<1>2. [i \in R |-> ch[i].out] = [i \in R |-> new[i].out]
  OBVIOUS
<1>3. Worth(ch, R) = SumOver([i \in R |-> ch[i].out], R)
  BY <1>1, WorthIsSum
<1>4. Worth(new, R) = SumOver([i \in R |-> new[i].out], R)
  BY <1>1, WorthIsSum
<1> QED BY <1>2, <1>3, <1>4

\* Transactions that spend different coins spend together what those coins are worth.
LEMMA SpentIsWorth ==
    ASSUME NEW ch, NEW D, IsFiniteSet(D), \A i \in D : ch[i].out \in Nat,
           NEW P \in SUBSET D, \A i \in P : ch[i].ins \subseteq D
    PROVE  /\ SpentBy(ch, P) \in Int
           /\ (\A i, j \in P : i # j => ch[i].ins \cap ch[j].ins = {})
                 => SpentBy(ch, P) = Worth(ch, UNION {ch[i].ins : i \in P})
<1> DEFINE w == [i \in P |-> Worth(ch, ch[i].ins)]
           Ins(R) == UNION {ch[i].ins : i \in R}
<1>1. \A i \in P : Worth(ch, ch[i].ins) \in Nat
  BY WorthAdds
<1>2. IsFiniteSet(P) /\ (\A i \in P : w[i] \in Int) /\ \A i \in P : Worth(ch, ch[i].ins) \in Int
  BY <1>1, FS_Subset
<1>3. SpentBy(ch, P) = SumOver(w, P)
  BY <1>2, SpentIsSum
<1>4. SpentBy(ch, P) \in Int
  <2> HIDE DEF w
  <2> QED BY <1>2, <1>3, SumUnfold
<1>5. ASSUME \A i, j \in P : i # j => ch[i].ins \cap ch[j].ins = {}
      PROVE  SpentBy(ch, P) = Worth(ch, Ins(P))
  <2> DEFINE Good == {R \in SUBSET P : SumOver(w, R) = Worth(ch, Ins(R))}
  <2>1. {} \in Good
    <3>1. SumOver(w, {}) = 0
      <4> HIDE DEF w
      <4> QED BY <1>2, SumUnfold
    <3>2. Ins({}) = {} /\ Worth(ch, {}) = 0
      BY WorthAdds
    <3> QED BY <3>1, <3>2
  <2>2. ASSUME NEW R \in Good, NEW x \in P \ R PROVE R \cup {x} \in Good
    <3>1. SumOver(w, R \cup {x}) = w[x] + SumOver(w, R)
      <4> HIDE DEF w
      <4> QED BY <1>2, SumAdd
    <3>2. Ins(R \cup {x}) = ch[x].ins \cup Ins(R)
      OBVIOUS
    <3>3. ch[x].ins \cap Ins(R) = {}
      BY <1>5
    <3>4. ch[x].ins \in SUBSET D /\ Ins(R) \in SUBSET D
      OBVIOUS
    <3> HIDE DEF Ins
    <3>5. Worth(ch, ch[x].ins \cup Ins(R)) = Worth(ch, ch[x].ins) + Worth(ch, Ins(R))
      BY <3>3, <3>4, WorthAdds
    <3>6. w[x] = Worth(ch, ch[x].ins)
      OBVIOUS
    <3>7. SumOver(w, R) = Worth(ch, Ins(R)) /\ R \cup {x} \in SUBSET P
      OBVIOUS
    <3> HIDE DEF w
    <3> QED BY <3>1, <3>2, <3>5, <3>6, <3>7
  <2>3. P \in Good
    <3>1. Good \in SUBSET (SUBSET P)
      OBVIOUS
    <3> HIDE DEF Good
    <3> QED BY <1>2, <2>1, <2>2, <3>1, SetInduction
  <2> HIDE DEF w
  <2> QED BY <1>3, <2>3
<1> QED BY <1>4, <1>5

\* What transactions that spend only among themselves receive, less what they spend,
\* is what the coins are worth that they leave unspent.
LEMMA BalanceIsUnspent ==
    ASSUME NEW ch, NEW P, IsFiniteSet(P), \A i \in P : ch[i].out \in Nat /\ ch[i].ins \subseteq P,
           \A i, j \in P : i # j => ch[i].ins \cap ch[j].ins = {}
    PROVE  Worth(ch, P) - SpentBy(ch, P) = Worth(ch, P \ UNION {ch[i].ins : i \in P})
<1> DEFINE spent == UNION {ch[i].ins : i \in P}
<1>1. spent \in SUBSET P /\ P \ spent \in SUBSET P /\ (P \ spent) \cap spent = {} /\ (P \ spent) \cup spent = P
  OBVIOUS
<1>2. SpentBy(ch, P) = Worth(ch, spent)
  BY SpentIsWorth
<1> HIDE DEF spent
<1>3. Worth(ch, P) = Worth(ch, P \ spent) + Worth(ch, spent)
  BY <1>1, WorthAdds
<1>4. Worth(ch, P \ spent) \in Nat /\ Worth(ch, spent) \in Nat
  BY <1>1, WorthAdds
<1>5. \A a, b \in Nat : (a + b) - b = a
  OBVIOUS
<1> QED BY <1>2, <1>3, <1>4, <1>5 DEF spent

-----------------------------------------------------------------------------
(***************************************************************************)
(* The wallet's coins, and the coins in the calls' hands.                  *)
(***************************************************************************)
\* A transaction spends coins that came before it, and no coin is spent twice.
CoinsOK ==
    /\ \A i \in DOMAIN chain : chain[i].ins \subseteq 1 .. i - 1 /\ chain[i].out \in Nat
    /\ \A i, j \in DOMAIN chain : i < j => chain[i].day <= chain[j].day
    /\ \A i, j \in DOMAIN chain : i # j => chain[i].ins \cap chain[j].ins = {}
    /\ \A tx \in mempool : /\ tx.ins \subseteq DOMAIN chain /\ tx.out \in Nat
                           /\ \A i \in DOMAIN chain : tx.ins \cap chain[i].ins = {}
    /\ \A tx, ty \in mempool : tx # ty => tx.ins \cap ty.ins = {}

\* The coins a call is about to spend cover its payout; what it has not seen of the
\* chain came on the day of its answer or later.
HandOK(c) ==
    /\ calls[c].coins \subseteq DOMAIN chain
    /\ calls[c].pc = "submit" => /\ Record(c).jackpot > 0
                                 /\ Outputs(Record(c).jackpot) + Fee <= Worth(chain, calls[c].coins)
    /\ calls[c].seenOn \in 0 .. today
    /\ \A i \in DOMAIN chain : i > calls[c].seen => chain[i].day >= calls[c].seenOn
HandsOK == \A c \in Callers : HandOK(c)

\* Every record is of its type.
RecordsOK ==
    /\ \A k \in DOMAIN history : history[k] \in Records
    /\ \A c \in Callers : \A i \in DOMAIN calls[c].todo : calls[c].todo[i] \in Records

\* A transaction that spends unspent coins keeps the wallet in order.
LEMMA AcceptKeepsCoins ==
    ASSUME WorldOK, CoinsOK, NEW tx, Accept(tx), tx.ins \subseteq DOMAIN chain, tx.out \in Nat,
           \A i \in DOMAIN chain : tx.ins \cap chain[i].ins = {},
           mempool' \subseteq mempool, \A ty \in mempool' : tx.ins \cap ty.ins = {}
    PROVE  CoinsOK'
<1> DEFINE n == Len(chain)
<1>1. /\ n \in Nat /\ DOMAIN chain = 1 .. n /\ DOMAIN chain' = 1 .. n + 1
      /\ \A i \in DOMAIN chain : chain'[i] = chain[i]
      /\ chain'[n + 1].day = today /\ chain'[n + 1].ins = tx.ins /\ chain'[n + 1].out = tx.out
  BY AcceptAppends DEF WorldOK
<1> HIDE DEF n
<1>2. /\ \A i \in DOMAIN chain' : i \in DOMAIN chain \/ i = n + 1
      /\ \A i \in DOMAIN chain : i \in DOMAIN chain' /\ i < n + 1 /\ ~ (n + 1 < i)
      /\ n + 1 \notin DOMAIN chain /\ (n + 1) - 1 = n /\ ~ (n + 1 < n + 1)
  BY <1>1
<1>3. \A i \in DOMAIN chain' : chain'[i].ins \subseteq 1 .. i - 1 /\ chain'[i].out \in Nat
  <2>1. chain'[n + 1].ins \subseteq 1 .. (n + 1) - 1 /\ chain'[n + 1].out \in Nat
    BY <1>1, <1>2
  <2> QED BY <1>1, <1>2, <2>1 DEF CoinsOK
<1>4. \A i, j \in DOMAIN chain' : i < j => chain'[i].day <= chain'[j].day
  <2>1. \A i \in DOMAIN chain : chain[i].day <= today
    BY DEF WorldOK
  <2>2. \A i, j \in DOMAIN chain : i < j => chain[i].day <= chain[j].day
    BY DEF CoinsOK
  <2> QED BY <1>1, <1>2, <2>1, <2>2
<1>5. \A i, j \in DOMAIN chain' : i # j => chain'[i].ins \cap chain'[j].ins = {}
  <2>1. \A i, j \in DOMAIN chain : i # j => chain[i].ins \cap chain[j].ins = {}
    BY DEF CoinsOK
  <2> QED BY <1>1, <1>2, <2>1
<1>6. \A ty \in mempool' : /\ ty.ins \subseteq DOMAIN chain' /\ ty.out \in Nat
                           /\ \A i \in DOMAIN chain' : ty.ins \cap chain'[i].ins = {}
  <2> SUFFICES ASSUME NEW ty \in mempool'
               PROVE  /\ ty.ins \subseteq DOMAIN chain' /\ ty.out \in Nat
                      /\ \A i \in DOMAIN chain' : ty.ins \cap chain'[i].ins = {}
    OBVIOUS
  <2>1. ty.ins \subseteq DOMAIN chain /\ ty.out \in Nat /\ \A i \in DOMAIN chain : ty.ins \cap chain[i].ins = {}
    BY DEF CoinsOK
  <2>2. ty.ins \cap chain'[n + 1].ins = {}
    BY <1>1
  <2> QED BY <1>1, <1>2, <2>1, <2>2
<1>7. \A ty, tz \in mempool' : ty # tz => ty.ins \cap tz.ins = {}
  BY DEF CoinsOK
<1> QED BY <1>3, <1>4, <1>5, <1>6, <1>7 DEF CoinsOK

\* The chain has finitely many coins, each worth something or nothing.
LEMMA CoinsAreWorth ==
    ASSUME WorldOK, CoinsOK
    PROVE  /\ IsFiniteSet(DOMAIN chain) /\ DOMAIN chain = 1 .. Len(chain) /\ Len(chain) \in Nat
           /\ \A i \in DOMAIN chain : chain[i].out \in Nat /\ chain[i].ins \subseteq DOMAIN chain
           /\ \A R \in SUBSET DOMAIN chain : Worth(chain, R) \in Nat
<1>1. DOMAIN chain = 1 .. Len(chain) /\ Len(chain) \in Nat
  BY DEF WorldOK, IsList
<1>2. IsFiniteSet(DOMAIN chain)
  BY <1>1, FS_Interval
<1>3. \A i \in DOMAIN chain : chain[i].out \in Nat
  BY DEF CoinsOK
<1>4. \A i \in DOMAIN chain : chain[i].ins \subseteq DOMAIN chain
  <2> SUFFICES ASSUME NEW i \in 1 .. Len(chain) PROVE 1 .. i - 1 \subseteq 1 .. Len(chain)
    BY <1>1 DEF CoinsOK
  <2> QED BY <1>1
<1> QED BY <1>1, <1>2, <1>3, <1>4, WorthAdds

\* A payout leaves the wallet at least what it had over, and spends the coins chosen for it.
LEMMA PayoutSpends ==
    ASSUME WorldOK, CallsOK, CoinsOK, HandsOK, RecordsOK, NEW c \in Callers, SubmitPayout(c)
    PROVE  LET tx == Payout(Record(c), calls[c].coins) IN
           /\ mempool' = mempool \cup {tx} /\ tx.ins = calls[c].coins /\ tx.out \in Nat
           /\ \A i \in DOMAIN chain : tx.ins \cap chain[i].ins = {}
           /\ \A ty \in mempool : tx.ins \cap ty.ins = {}
<1> DEFINE jackpot == Record(c).jackpot
           coins == calls[c].coins
           tx == Payout(Record(c), coins)
<1>1. calls[c].pc = "submit" /\ calls[c].todo # <<>>
  BY DEF SubmitPayout, At, CallsOK, CallOK
<1>2. jackpot \in Int /\ jackpot > 0 /\ Outputs(jackpot) + Fee <= Worth(chain, coins) /\ coins \subseteq DOMAIN chain
  <2>1. 1 \in DOMAIN calls[c].todo /\ Record(c) = calls[c].todo[1]
    BY <1>1, RecordInHand
  <2>2. Record(c) \in Records
    BY <2>1 DEF RecordsOK
  <2> QED BY <1>1, <2>2 DEF HandsOK, HandOK, Records
<1>3. mempool' = mempool \cup {tx} /\ tx.ins = coins
  BY DEF SubmitPayout, Payout
<1>4. tx.out \in Nat
  <2> DEFINE change == IF OpsValid THEN 0 ELSE Worth(chain, coins) - Outputs(jackpot) - Fee
             prize == jackpot \div 2
  <2>1. tx.out = change + (IF IsPayout(chain[Record(c).winner]) THEN prize ELSE 0)
    BY TotalIsWorth DEF Payout
  <2>2. Worth(chain, coins) \in Nat /\ Fee \in Nat
    BY <1>2, CoinsAreWorth, LegacyAssumption
  <2>3. prize \in Nat
    BY <1>2
  <2>4. Outputs(jackpot) \in Nat
    BY <1>2 DEF Outputs
  <2>5. change \in Nat
    <3> HIDE DEF jackpot, coins
    <3> QED BY <1>2, <2>2, <2>4
  <2> HIDE DEF change, prize
  <2> QED BY <2>1, <2>3, <2>5
<1>5. /\ \A i \in DOMAIN chain : coins \cap chain[i].ins = {}
      /\ \A ty \in mempool : coins \cap ty.ins = {}
  <2>1. coins \cap ((UNION {ty.ins : ty \in Range(chain)}) \cup UNION {ty.ins : ty \in mempool}) = {}
    BY DEF SubmitPayout, Conflicts, Spent
  <2>2. \A i \in DOMAIN chain : chain[i] \in Range(chain)
    BY DEF Range
  <2>3. /\ \A ty \in Range(chain) : coins \cap ty.ins = {}
        /\ \A ty \in mempool : coins \cap ty.ins = {}
    BY <2>1
  <2> QED BY <2>2, <2>3
<1> QED BY <1>3, <1>4, <1>5

\* The wallet stays in order.
LEMMA CoinsStep ==
    ASSUME WorldOK, CallsOK, CoinsOK, HandsOK, RecordsOK, [Next]_vars
    PROVE  CoinsOK'
<1>1. CASE UNCHANGED wallet
  BY <1>1 DEF wallet, CoinsOK
<1>2. ASSUME NEW amount \in Amounts, NEW sender \in BOOLEAN, Accept(Deposit(amount, sender)), mempool' = mempool
      PROVE  CoinsOK'
  <2>1. Deposit(amount, sender).ins = {} /\ Deposit(amount, sender).out \in Nat
    BY LegacyAssumption DEF Deposit
  <2> QED BY <1>2, <2>1, AcceptKeepsCoins
<1>3. ASSUME NEW tx \in mempool, Accept(tx), mempool' = mempool \ {tx}
      PROVE  CoinsOK'
  <2>1. tx.ins \subseteq DOMAIN chain /\ tx.out \in Nat /\ \A i \in DOMAIN chain : tx.ins \cap chain[i].ins = {}
    BY DEF CoinsOK
  <2>2. \A ty \in mempool' : tx.ins \cap ty.ins = {}
    BY <1>3 DEF CoinsOK
  <2> QED BY <1>3, <2>1, <2>2, AcceptKeepsCoins
<1>4. ASSUME NEW c \in Callers, SubmitPayout(c) PROVE CoinsOK'
  <2> DEFINE tx == Payout(Record(c), calls[c].coins)
  <2>1. /\ mempool' = mempool \cup {tx} /\ tx.ins = calls[c].coins /\ tx.out \in Nat
        /\ \A i \in DOMAIN chain : tx.ins \cap chain[i].ins = {}
        /\ \A ty \in mempool : tx.ins \cap ty.ins = {}
    BY <1>4, PayoutSpends
  <2>2. tx.ins \subseteq DOMAIN chain /\ chain' = chain
    BY <1>4, <2>1 DEF HandsOK, HandOK, SubmitPayout
  <2> HIDE DEF tx
  <2>3. \A ty \in mempool' : /\ ty.ins \subseteq DOMAIN chain /\ ty.out \in Nat
                             /\ \A i \in DOMAIN chain : ty.ins \cap chain[i].ins = {}
    BY <2>1, <2>2 DEF CoinsOK
  <2>4. \A ty, tz \in mempool' : ty # tz => ty.ins \cap tz.ins = {}
    BY <2>1 DEF CoinsOK
  <2> QED BY <2>2, <2>3, <2>4 DEF CoinsOK
<1> QED BY <1>1, <1>2, <1>3, <1>4, WalletEffect

\* A call forgets what it has seen of the chain, keeps it, or has all of it.
SeesMore(c) ==
    \/ calls'[c].seen = 0 /\ calls'[c].seenOn = 0
    \/ calls'[c].seen = calls[c].seen /\ calls'[c].seenOn = calls[c].seenOn
    \/ calls'[c].seen = Len(chain) /\ calls'[c].seenOn = today

\* What a step does to the coins in a call's hands.
LEMMA HandEffect ==
    ASSUME CallsOK, [Next]_vars, NEW e \in Callers
    PROVE  \/ calls'[e] = calls[e]
           \/ calls'[e] = Idle
           \/ /\ UNCHANGED <<chain, today>> /\ SeesMore(e)
              /\ \/ calls'[e].pc # "submit" /\ calls'[e].coins \in {calls[e].coins, {}}
                 \/ /\ calls'[e].pc = "submit" /\ calls'[e].todo = calls[e].todo
                    /\ calls'[e].coins \subseteq Unspent /\ Suffice(calls'[e].coins, Record(e).jackpot)
<1> DEFINE Effect == \/ calls'[e] = calls[e]
                     \/ calls'[e] = Idle
                     \/ /\ UNCHANGED <<chain, today>> /\ SeesMore(e)
                        /\ \/ calls'[e].pc # "submit" /\ calls'[e].coins \in {calls[e].coins, {}}
                           \/ /\ calls'[e].pc = "submit" /\ calls'[e].todo = calls[e].todo
                              /\ calls'[e].coins \subseteq Unspent /\ Suffice(calls'[e].coins, Record(e).jackpot)
<1>0. \A c \in Callers : IsCall(calls[c])
  BY DEF CallsOK, CallOK
<1>1. ASSUME NEW c \in Callers, NEW call, IsCall(call), Goto(c, call), UNCHANGED <<chain, today>>,
             call.pc # "submit", call.coins \in {calls[c].coins, {}},
             \/ call.seen = 0 /\ call.seenOn = 0
             \/ call.seen = calls[c].seen /\ call.seenOn = calls[c].seenOn
             \/ call.seen = Len(chain) /\ call.seenOn = today
      PROVE  Effect
  <2>1. /\ \A d \in Callers \ {c} : calls'[d] = calls[d]
        /\ calls'[c].pc = call.pc /\ calls'[c].coins = call.coins
        /\ \/ calls'[c].seen = 0 /\ calls'[c].seenOn = 0
           \/ calls'[c].seen = call.seen /\ calls'[c].seenOn = call.seenOn
    BY <1>1, GotoEffect
  <2>2. SeesMore(c)
    <3> HIDE DEF Effect
    <3>1. CASE calls'[c].seen = 0 /\ calls'[c].seenOn = 0
      BY <3>1 DEF SeesMore
    <3>2. CASE calls'[c].seen = call.seen /\ calls'[c].seenOn = call.seenOn
      BY <1>1, <3>2 DEF SeesMore
    <3> QED BY <2>1, <3>1, <3>2
  <2>3. calls'[c].pc # "submit" /\ calls'[c].coins \in {calls[c].coins, {}}
    BY <1>1, <2>1, Zenon
  <2> QED BY <1>1, <2>1, <2>2, <2>3, Zenon
<1>2. ASSUME NEW c \in Callers, NEW call, Goto(c, call), UNCHANGED <<chain, today>>,
             \/ call = FetchForYesterday \/ call = Idle \/ \E b : call = FetchForQueue(b)
      PROVE  Effect
  <2>1. IsCall(call) /\ call.pc \in {"fetch", "idle"} /\ call.coins = {} /\ call.seen = 0 /\ call.seenOn = 0
    <3>1. /\ FetchForYesterday.coins = {} /\ FetchForYesterday.seenOn = 0 /\ Idle.coins = {} /\ Idle.seenOn = 0
          /\ \A b : FetchForQueue(b).coins = {} /\ FetchForQueue(b).seenOn = 0
      BY DEF FetchForYesterday, FetchForQueue, Idle
    <3> QED BY <1>2, <3>1, FreshCalls
  <2> HIDE DEF Effect
  <2> QED BY <1>1, <1>2, <2>1
<1>3. ASSUME NEW c \in Callers, NEW pc, pc # "submit", Step(c, pc), UNCHANGED <<chain, today>>
      PROVE  Effect
  <2> DEFINE y == [calls[c] EXCEPT !.pc = pc]
  <2>1. IsCall(y) /\ y.pc = pc /\ y.coins = calls[c].coins /\ y.seen = calls[c].seen /\ y.seenOn = calls[c].seenOn
    BY <1>0 DEF IsCall, Fields
  <2>2. Goto(c, y)
    BY <1>3 DEF Step
  <2> HIDE DEF y, Effect
  <2> QED BY <1>1, <1>3, <2>1, <2>2
<1>4. ASSUME NEW c \in Callers, NextRecord(c), UNCHANGED <<chain, today>> PROVE Effect
  <2> DEFINE y == [calls[c] EXCEPT !.pc = "draw", !.todo = Tail(calls[c].todo), !.coins = {}]
  <2>1. IsCall(y) /\ y.pc = "draw" /\ y.coins = {} /\ y.seen = calls[c].seen /\ y.seenOn = calls[c].seenOn
    BY <1>0 DEF IsCall, Fields
  <2>2. Goto(c, y)
    BY <1>4 DEF NextRecord
  <2> HIDE DEF y, Effect
  <2> QED BY <1>1, <1>4, <2>1, <2>2
<1>5. ASSUME NEW c \in Callers, StartQueue(c) \/ StartYesterday(c) PROVE Effect
  <2>1. \E b : Goto(c, FetchForQueue(b)) \/ Goto(c, FetchForYesterday)
    BY <1>5 DEF StartQueue, StartYesterday
  <2>2. UNCHANGED <<chain, today>>
    BY <1>5 DEF StartQueue, StartYesterday, wallet
  <2> HIDE DEF Effect
  <2> QED BY <1>2, <2>1, <2>2
<1>6. ASSUME NEW c \in Callers, End(c), UNCHANGED <<chain, today>> PROVE Effect
  <2>1. Goto(c, FetchForYesterday) \/ Goto(c, Idle)
    BY <1>6 DEF End
  <2> HIDE DEF Effect
  <2> QED BY <1>2, <1>6, <2>1
<1>7. ASSUME NEW c \in Callers, Fetched(c) PROVE Effect
  <2> DEFINE y(pc) == [calls[c] EXCEPT !.pc = pc, !.seen = Len(chain), !.seenOn = today]
  <2>1. Goto(c, y("missed")) \/ Goto(c, y("draw"))
    BY <1>7 DEF Fetched
  <2>2. \A pc : IsCall(y(pc)) /\ y(pc).pc = pc /\ y(pc).coins = calls[c].coins /\ y(pc).seen = Len(chain) /\ y(pc).seenOn = today
    BY <1>0 DEF IsCall, Fields
  <2>3. UNCHANGED <<chain, today>>
    BY <1>7 DEF Fetched, wallet
  <2> HIDE DEF y, Effect
  <2>4. ASSUME NEW pc \in {"missed", "draw"}, Goto(c, y(pc)) PROVE Effect
    BY <1>1, <2>2, <2>3, <2>4
  <2> QED BY <2>1, <2>4
<1>8. ASSUME NEW c \in Callers, CatchUpMissedDraws(c) PROVE Effect
  <2> DEFINE y == [calls[c] EXCEPT !.pc = "draw", !.days = MissedRaffleDates(calls[c].seen)]
  <2>1. Goto(c, y) /\ UNCHANGED <<chain, today>>
    BY <1>8 DEF CatchUpMissedDraws, wallet
  <2>2. IsCall(y) /\ y.pc = "draw" /\ y.coins = calls[c].coins /\ y.seen = calls[c].seen /\ y.seenOn = calls[c].seenOn
    BY <1>0 DEF IsCall, Fields
  <2> HIDE DEF y, Effect
  <2> QED BY <1>1, <2>1, <2>2
<1>9. ASSUME NEW c \in Callers, RunDrawForDate(c) PROVE Effect
  <2> DEFINE y(d, t) == [calls[c] EXCEPT !.days = d, !.todo = t]
             z(d) == [calls[c] EXCEPT !.days = d]
  <2>1. calls[c].pc = "draw" /\ UNCHANGED <<chain, today>>
    BY <1>9 DEF RunDrawForDate, At, wallet
  <2>2. (\E d : Goto(c, z(d))) \/ \E d, t : Goto(c, y(d, t))
    BY <1>9 DEF RunDrawForDate
  <2>3. \A d, t : /\ IsCall(y(d, t)) /\ y(d, t).pc = calls[c].pc /\ y(d, t).coins = calls[c].coins
                  /\ y(d, t).seen = calls[c].seen /\ y(d, t).seenOn = calls[c].seenOn
    BY <1>0 DEF IsCall, Fields
  <2>4. \A d : /\ IsCall(z(d)) /\ z(d).pc = calls[c].pc /\ z(d).coins = calls[c].coins
               /\ z(d).seen = calls[c].seen /\ z(d).seenOn = calls[c].seenOn
    BY <1>0 DEF IsCall, Fields
  <2> HIDE DEF y, z, Effect
  <2>5. ASSUME NEW d, Goto(c, z(d)) PROVE Effect
    BY <1>1, <2>1, <2>4, <2>5
  <2>6. ASSUME NEW d, NEW t, Goto(c, y(d, t)) PROVE Effect
    BY <1>1, <2>1, <2>3, <2>6
  <2> QED BY <2>2, <2>5, <2>6
<1>10. ASSUME NEW c \in Callers, SelectCoins(c) PROVE Effect
  <2> DEFINE y(k) == [calls[c] EXCEPT !.pc = "submit", !.coins = k]
  <2>1. UNCHANGED <<chain, today>>
    BY <1>10 DEF SelectCoins, wallet
  <2>2. Step(c, "failed") \/ \E k \in SUBSET Unspent : Suffice(k, Record(c).jackpot) /\ Goto(c, y(k))
    BY <1>10 DEF SelectCoins
  <2>3. ASSUME NEW k \in SUBSET Unspent, Suffice(k, Record(c).jackpot), Goto(c, y(k)) PROVE Effect
    <3>1. /\ IsCall(y(k)) /\ y(k).pc = "submit" /\ y(k).coins = k /\ y(k).todo = calls[c].todo
          /\ y(k).seen = calls[c].seen /\ y(k).seenOn = calls[c].seenOn
      BY <1>0 DEF IsCall, Fields
    <3> HIDE DEF y
    <3>2. CASE e = c
      BY <2>1, <2>3, <3>1, <3>2, GotoEffect DEF SeesMore
    <3>3. CASE e # c
      BY <2>3, <3>1, <3>3, GotoEffect
    <3> QED BY <3>2, <3>3
  <2> HIDE DEF y, Effect
  <2> QED BY <1>3, <2>1, <2>2, <2>3
<1>11. ASSUME NEW c \in Callers, ReadPending(c) PROVE Effect
  <2> DEFINE y == [calls[c] EXCEPT !.part = "pending", !.todo = PendingPayouts]
  <2>1. Goto(c, y) /\ calls[c].pc = "draw" /\ UNCHANGED <<chain, today>>
    BY <1>11 DEF ReadPending, Paying, At, wallet
  <2>2. IsCall(y) /\ y.pc = calls[c].pc /\ y.coins = calls[c].coins /\ y.seen = calls[c].seen /\ y.seenOn = calls[c].seenOn
    BY <1>0 DEF IsCall, Fields
  <2> HIDE DEF y, Effect
  <2> QED BY <1>1, <2>1, <2>2
<1>12. ASSUME NEW c \in Callers,
              \/ ConnectFails(c) \/ SubmitPayout(c) \/ SubmitRefused(c) \/ AnswerLost(c) \/ DisconnectFails(c) \/ Answered(c)
       PROVE  Effect
  <2>1. \E pc \in {"failed", "sent", "disconnect"} : Step(c, pc)
    BY <1>12 DEF ConnectFails, SubmitPayout, SubmitRefused, AnswerLost, DisconnectFails, Answered
  <2>2. UNCHANGED <<chain, today>>
    BY <1>12 DEF ConnectFails, SubmitPayout, SubmitRefused, AnswerLost, DisconnectFails, Answered, wallet
  <2> HIDE DEF Effect
  <2> QED BY <1>3, <2>1, <2>2
<1>13. ASSUME NEW c \in Callers, NotRequired(c) \/ PayoutsDisabled(c) \/ MarkCompleted(c) \/ PaymentFailed(c)
       PROVE  Effect
  <2>1. NextRecord(c) /\ UNCHANGED <<chain, today>>
    BY <1>13 DEF NotRequired, PayoutsDisabled, MarkCompleted, PaymentFailed, wallet
  <2> HIDE DEF Effect
  <2> QED BY <1>4, <2>1
<1>14. ASSUME NEW c \in Callers, FetchFails(c) \/ RefreshSnapshot(c) PROVE Effect
  <2>1. End(c) /\ UNCHANGED <<chain, today>>
    BY <1>14 DEF FetchFails, RefreshSnapshot, wallet
  <2> HIDE DEF Effect
  <2> QED BY <1>6, <2>1
<1>15. ASSUME Enter \/ AcceptPayout \/ PassTime \/ UNCHANGED vars PROVE Effect
  BY <1>15 DEF Enter, AcceptPayout, PassTime, vars
<1>16. ASSUME Crash \/ TornDrawState PROVE Effect
  <2>1. calls' = [c \in Callers |-> Idle]
    BY <1>16 DEF Crash, TornDrawState, Restart
  <2> QED BY <2>1
<1> HIDE DEF Effect
<1>17. Effect
  <2>1. CASE \E c \in Callers : StartQueue(c) \/ StartYesterday(c) \/ Draw(c) \/ Fail(c)
    BY <1>5, <1>7, <1>8, <1>9, <1>12, <1>14, <2>1 DEF Draw, Fail
  <2>2. CASE \E c \in Callers : Pay(c)
    BY <1>10, <1>11, <1>12, <1>13, <1>14, <2>2 DEF Pay
  <2> QED BY <1>15, <1>16, <2>1, <2>2 DEF Next
<1> QED BY <1>17 DEF Effect

\* The coins in the calls' hands stay in order.
LEMMA HandsKeep ==
    ASSUME Base, CoinsOK, HandsOK, [Next]_vars
    PROVE  HandsOK'
<1>0. WorldOK /\ CallsOK
  BY DEF Base
<1>1. /\ today' \in Nat /\ today \in Nat /\ today <= today'
      /\ DOMAIN chain \subseteq DOMAIN chain' /\ \A i \in DOMAIN chain : chain'[i] = chain[i]
      /\ \A i \in DOMAIN chain' : i \in DOMAIN chain \/ chain'[i].day = today
      /\ \A i \in DOMAIN chain' : chain'[i].day \in Nat
      /\ DOMAIN chain' \subseteq Nat /\ DOMAIN chain = 1 .. Len(chain) /\ Len(chain) \in Nat
  <2>1. WorldOK'
    BY <1>0, WorldStep DEF Base
  <2>2. \A i \in DOMAIN chain' : chain'[i].day \in 1 .. today'
    BY <2>1 DEF WorldOK
  <2>3. today' \in Nat /\ today \in Nat /\ today <= today'
    BY <1>0, DayEffect DEF WorldOK
  <2> QED BY <1>0, <2>2, <2>3, ChainEffect
<1>2. \A R \in SUBSET DOMAIN chain : Worth(chain', R) = Worth(chain, R)
  <2> SUFFICES ASSUME NEW R \in SUBSET DOMAIN chain PROVE Worth(chain', R) = Worth(chain, R)
    OBVIOUS
  <2>1. IsFiniteSet(R) /\ \A i \in R : chain[i].out \in Nat /\ chain'[i] = chain[i]
    BY <1>0, <1>1, CoinsAreWorth, FS_Subset
  <2> QED BY <2>1, WorthAgrees
<1> SUFFICES ASSUME NEW e \in Callers PROVE HandOK(e)'
  BY DEF HandsOK
<1>3. HandOK(e) /\ calls[e].seen \in 0 .. Len(chain)
  BY <1>0 DEF HandsOK, CallsOK, CallOK
<1>4. CASE calls'[e] = calls[e]
  <2>1. calls'[e].coins \subseteq DOMAIN chain'
    BY <1>1, <1>3, <1>4 DEF HandOK
  <2>2. ASSUME calls'[e].pc = "submit"
        PROVE  Record(e)'.jackpot > 0 /\ Outputs(Record(e)'.jackpot) + Fee <= Worth(chain', calls'[e].coins)
    <3>1. Record(e)' = Record(e)
      BY <1>4 DEF Record
    <3> QED BY <1>2, <1>3, <1>4, <2>2, <3>1 DEF HandOK
  <2>3. calls'[e].seenOn \in 0 .. today' /\ calls[e].seenOn \in 0 .. today
    BY <1>1, <1>3, <1>4 DEF HandOK
  <2>4. \A i \in DOMAIN chain' : i > calls'[e].seen => chain'[i].day >= calls'[e].seenOn
    BY <1>1, <1>3, <1>4, <2>3 DEF HandOK
  <2> QED BY <2>1, <2>2, <2>3, <2>4 DEF HandOK, Outputs
<1>5. CASE calls'[e] = Idle
  <2>1. Idle.coins = {} /\ Idle.pc = "idle" /\ Idle.seen = 0 /\ Idle.seenOn = 0
    BY DEF Idle
  <2> HIDE DEF Idle
  <2>2. \A i \in DOMAIN chain' : chain'[i].day >= 0
    BY <1>1
  <2> QED BY <1>1, <1>5, <2>1, <2>2 DEF HandOK
<1>6. CASE /\ UNCHANGED <<chain, today>> /\ SeesMore(e)
           /\ \/ calls'[e].pc # "submit" /\ calls'[e].coins \in {calls[e].coins, {}}
              \/ /\ calls'[e].pc = "submit" /\ calls'[e].todo = calls[e].todo
                 /\ calls'[e].coins \subseteq Unspent /\ Suffice(calls'[e].coins, Record(e).jackpot)
  <2>1. calls'[e].coins \subseteq DOMAIN chain'
    BY <1>3, <1>6 DEF HandOK, Unspent
  <2>2. ASSUME calls'[e].pc = "submit"
        PROVE  Record(e)'.jackpot > 0 /\ Outputs(Record(e)'.jackpot) + Fee <= Worth(chain', calls'[e].coins)
    <3>1. Record(e)' = Record(e) /\ Suffice(calls'[e].coins, Record(e).jackpot)
      BY <1>6, <2>2 DEF Record
    <3>2. Record(e).jackpot > 0 /\ Total(calls'[e].coins) >= Outputs(Record(e).jackpot) + Fee
      BY <3>1 DEF Suffice
    <3>3. Total(calls'[e].coins) = Worth(chain', calls'[e].coins)
      BY <1>6, TotalIsWorth
    <3> QED BY <3>1, <3>2, <3>3
  <2>3. calls'[e].seenOn \in 0 .. today'
    BY <1>1, <1>3, <1>6 DEF HandOK, SeesMore
  <2>4. \A i \in DOMAIN chain' : i > calls'[e].seen => chain'[i].day >= calls'[e].seenOn
    <3>1. CASE calls'[e].seen = 0 /\ calls'[e].seenOn = 0
      BY <1>1, <3>1
    <3>2. CASE calls'[e].seen = calls[e].seen /\ calls'[e].seenOn = calls[e].seenOn
      BY <1>3, <1>6, <3>2 DEF HandOK
    <3>3. CASE calls'[e].seen = Len(chain)
      BY <1>1, <1>6, <3>3
    <3> QED BY <1>6, <3>1, <3>2, <3>3 DEF SeesMore
  <2> QED BY <2>1, <2>2, <2>3, <2>4 DEF HandOK, Outputs
<1> QED BY <1>0, <1>4, <1>5, <1>6, HandEffect

\* The clock, the flags and the count of incidents stay in their ranges.
GaugesOK ==
    /\ today \in 1 .. MaxDay /\ window \in BOOLEAN /\ running \in BOOLEAN
    /\ walletSet \in BOOLEAN /\ incidents \in 0 .. MaxIncidents
LEMMA GaugesKeep ==
    ASSUME GaugesOK, [Next]_vars
    PROVE  GaugesOK'
<1>0. ASSUME Incident \/ UNCHANGED incidents PROVE incidents' \in 0 .. MaxIncidents
  BY <1>0, LegacyAssumption DEF GaugesOK, Incident
<1>1. CASE Enter \/ AcceptPayout \/ UNCHANGED vars
  BY <1>1 DEF GaugesOK, Enter, AcceptPayout, vars
<1>2. CASE PassTime
  <2>1. today' \in 1 .. MaxDay
    BY <1>2, LegacyAssumption DEF GaugesOK, PassTime
  <2>2. window' \in BOOLEAN /\ UNCHANGED <<running, walletSet, incidents>>
    BY <1>2 DEF PassTime
  <2> QED BY <2>1, <2>2, Zenon DEF GaugesOK
<1>3. CASE Crash \/ TornDrawState
  <2>1. Restart
    BY <1>3 DEF Crash, TornDrawState
  <2>2. Incident /\ running' = FALSE /\ walletSet' = TRUE /\ UNCHANGED <<today, window>>
    BY <2>1 DEF Restart
  <2> QED BY <1>0, <2>2, Zenon DEF GaugesOK
<1>4. ASSUME NEW c \in Callers, StartQueue(c) \/ StartYesterday(c) PROVE GaugesOK'
  <2>1. Incident \/ UNCHANGED incidents
    BY <1>4, Zenon DEF StartQueue, StartYesterday
  <2>2. (running' = TRUE \/ running' = running) /\ UNCHANGED <<today, window, walletSet>>
    BY <1>4, Zenon DEF StartQueue, StartYesterday
  <2> QED BY <1>0, <2>1, <2>2, Zenon DEF GaugesOK
<1>5. ASSUME NEW c \in Callers, Draw(c) PROVE GaugesOK'
  BY <1>5 DEF GaugesOK, Draw, Fetched, CatchUpMissedDraws, RunDrawForDate
<1>6. ASSUME NEW c \in Callers, Fail(c) PROVE GaugesOK'
  <2>1. Incident /\ UNCHANGED <<today, window, walletSet>>
    BY <1>6, Zenon DEF Fail, FetchFails, ConnectFails, AnswerLost, DisconnectFails
  <2>2. running' \in BOOLEAN
    BY <1>6, Zenon DEF GaugesOK, Fail, FetchFails, ConnectFails, AnswerLost, DisconnectFails, End
  <2> QED BY <1>0, <2>1, <2>2, Zenon DEF GaugesOK
<1>7. ASSUME NEW c \in Callers, Pay(c) PROVE GaugesOK'
  BY <1>7 DEF GaugesOK, Pay, NotRequired, PayoutsDisabled, SelectCoins, SubmitPayout, SubmitRefused, Answered,
              MarkCompleted, PaymentFailed, ReadPending, RefreshSnapshot, End
<1> QED BY <1>1, <1>2, <1>3, <1>4, <1>5, <1>6, <1>7 DEF Next

-----------------------------------------------------------------------------
(***************************************************************************)
(* What a record says of its day.                                          *)
(***************************************************************************)
UpTo(ch, day) == {i \in DOMAIN ch : ch[i].day <= day}
EntriesOf(ch, day) == {i \in UpTo(ch, day) : ch[i].day = day /\ ch[i].out >= MinEntry /\ ch[i].sender}
LeftOn(ch, day) == UpTo(ch, day) \ UNION {ch[i].ins : i \in UpTo(ch, day)}
\* What DrawsSettleTheirDay says of one record.
SettlesIn(ch, drawnEarly, now, r) ==
    /\ r.date \in Nat /\ r.date < now
    /\ r.winner # NoWinner => r.winner \in EntriesOf(ch, r.date)
    /\ Len(ch) <= FetchLimit /\ r.date \notin drawnEarly =>
          /\ r.winner = NoWinner => EntriesOf(ch, r.date) = {}
          /\ r.jackpot = Worth(ch, LeftOn(ch, r.date))
Settles(r) == SettlesIn(chain, early, today, r)
AllSettle == \A k \in DOMAIN history : Settles(history[k])

\* A record that was just drawn is of its type.
LEMMA DrawnIsRecord ==
    ASSUME Base, CoinsOK, GaugesOK, NEW c \in Callers, NEW r, Draws(c, r)
    PROVE  r \in Records
<1>0. WorldOK /\ CallsOK
  BY DEF Base
<1> DEFINE seen == calls[c].seen
           day == r.date
           past == {i \in Visible(seen) : chain[i].day <= day}
           entries == ParseEntriesForDay(seen, day)
<1>1. PICK winner \in IF entries = {} THEN {NoWinner} ELSE entries : r = DrawRecord(seen, day, winner)
  BY DEF Draws, Decides
<1>2. seen \in Nat /\ seen <= Len(chain) /\ Len(chain) \in Nat /\ DOMAIN chain = 1 .. Len(chain)
  BY <1>0, CoinsAreWorth DEF CallsOK, CallOK
<1>3. Visible(seen) \subseteq DOMAIN chain
  BY <1>2 DEF Visible
<1>4. winner \in Nat
  <2>1. entries \subseteq DOMAIN chain
    BY <1>3 DEF ParseEntriesForDay
  <2> HIDE DEF entries
  <2> QED BY <1>1, <1>2, <2>1 DEF NoWinner
<1>5. JackpotAtEndOfDay(seen, day) \in Int
  <2>1. JackpotAtEndOfDay(seen, day) = Worth(chain, past) - SpentBy(chain, past)
    BY EndOfDay
  <2>2. past \in SUBSET DOMAIN chain
    BY <1>3
  <2> HIDE DEF past
  <2>3. SpentBy(chain, past) \in Int
    BY <1>0, <2>2, CoinsAreWorth, SpentIsWorth
  <2>4. Worth(chain, past) \in Nat
    BY <1>0, <2>2, CoinsAreWorth
  <2> QED BY <2>1, <2>3, <2>4
<1>6. day \in 1 .. MaxDay
  <2>1. day \in 1 .. Yesterday
    BY <1>0, DayInHand DEF Draws, Past
  <2> QED BY <2>1, LegacyAssumption DEF GaugesOK, Yesterday
<1>7. DrawRecord(seen, day, winner) =
         [date |-> day, winner |-> winner, jackpot |-> JackpotAtEndOfDay(seen, day),
          payoutStatus |-> IF winner = NoWinner THEN "not_required" ELSE "pending"]
  BY DEF DrawRecord
<1>8. (IF winner = NoWinner THEN "not_required" ELSE "pending") \in {"not_required", "pending", "completed"}
  OBVIOUS
<1> HIDE DEF day, seen
<1> QED BY <1>1, <1>4, <1>5, <1>6, <1>7, <1>8 DEF Records

\* The records keep their type.
LEMMA RecordsKeep ==
    ASSUME Base, CoinsOK, GaugesOK, RecordsOK, [Next]_vars
    PROVE  RecordsOK'
<1>0. FileOK /\ CallsOK
  BY DEF Base
<1>1. \A k \in DOMAIN history' : history'[k] \in Records
  <2>1. CASE UNCHANGED file
    BY <2>1 DEF RecordsOK, file
  <2>2. CASE DOMAIN history' = {}
    BY <2>2
  <2>3. ASSUME NEW c \in Callers, NEW r, Draws(c, r), history'[1] = r,
               \A k \in DOMAIN history' : k = 1 \/ (k - 1 \in DOMAIN history /\ history'[k] = history[k - 1])
        PROVE  \A k \in DOMAIN history' : history'[k] \in Records
    <3>1. r \in Records
      BY <2>3, DrawnIsRecord
    <3> QED BY <2>3, <3>1 DEF RecordsOK
  <2>4. ASSUME NEW c \in Callers, NEW status, Marks(c, status)
        PROVE  \A k \in DOMAIN history' : history'[k] \in Records
    <3>1. CASE history' = history
      BY <3>1 DEF RecordsOK
    <3>2. CASE \E k : history' = [history EXCEPT ![k].payoutStatus = status]
      <4>1. PICK k : history' = [history EXCEPT ![k].payoutStatus = status]
        BY <3>2
      <4>2. status \in {"not_required", "pending", "completed"}
        BY <2>4 DEF Marks
      <4>3. ASSUME NEW r \in Records PROVE [r EXCEPT !.payoutStatus = status] \in Records
        BY <4>2, <4>3 DEF Records
      <4>4. \A j \in DOMAIN history : history'[j] = history[j] \/ history'[j] = [history[j] EXCEPT !.payoutStatus = status]
        BY <4>1
      <4>5. DOMAIN history' = DOMAIN history
        BY <4>1
      <4> QED BY <4>3, <4>4, <4>5 DEF RecordsOK
    <3> QED BY <2>4, <3>1, <3>2 DEF Marks, MarkPayoutStatus
  <2> QED BY <1>0, <2>1, <2>2, <2>3, <2>4, FileMoves
<1>2. ASSUME NEW c \in Callers, NEW i \in DOMAIN calls'[c].todo PROVE calls'[c].todo[i] \in Records
  <2>1. CASE \E j \in DOMAIN calls[c].todo : calls'[c].todo[i] = calls[c].todo[j]
    BY <2>1 DEF RecordsOK
  <2>2. CASE Draws(c, calls'[c].todo[i])
    BY <2>2, DrawnIsRecord
  <2>3. CASE \E k \in DOMAIN history : calls'[c].todo[i] = history[k]
    BY <2>3 DEF RecordsOK
  <2> QED BY <2>1, <2>2, <2>3, TodoEffect
<1> QED BY <1>1, <1>2 DEF RecordsOK

\* Days drawn early stay so.
LEMMA EarlyGrows ==
    ASSUME [Next]_vars
    PROVE  early \subseteq early'
<1>1. CASE Enter \/ AcceptPayout \/ PassTime \/ UNCHANGED vars
  BY <1>1 DEF Enter, AcceptPayout, PassTime, vars, ghosts
<1>2. CASE Crash \/ TornDrawState
  BY <1>2 DEF Crash, TornDrawState, Restart
<1>3. ASSUME NEW c \in Callers, StartQueue(c) \/ StartYesterday(c) \/ Draw(c) \/ Fail(c) PROVE early \subseteq early'
  <2>1. CASE RunDrawForDate(c)
    BY <2>1 DEF RunDrawForDate
  <2> QED BY <1>3, <2>1 DEF StartQueue, StartYesterday, Draw, Fetched, CatchUpMissedDraws,
                            Fail, FetchFails, ConnectFails, AnswerLost, DisconnectFails, ghosts
<1>4. ASSUME NEW c \in Callers, Pay(c) PROVE early \subseteq early'
  BY <1>4 DEF Pay, NotRequired, PayoutsDisabled, SelectCoins, SubmitPayout, SubmitRefused, Answered,
              MarkCompleted, PaymentFailed, ReadPending, RefreshSnapshot, ghosts
<1> QED BY <1>1, <1>2, <1>3, <1>4 DEF Next

\* A day that is over gets no more transactions: its entries and the coins left on it stay.
LEMMA PastStays ==
    ASSUME WorldOK, CallsOK, CoinsOK, [Next]_vars, NEW day \in Nat, day < today
    PROVE  /\ EntriesOf(chain', day) = EntriesOf(chain, day)
           /\ LeftOn(chain', day) = LeftOn(chain, day)
           /\ Worth(chain', LeftOn(chain, day)) = Worth(chain, LeftOn(chain, day))
<1>1. /\ \A i \in DOMAIN chain : i \in DOMAIN chain' /\ chain'[i] = chain[i]
      /\ \A i \in DOMAIN chain' : i \in DOMAIN chain \/ chain'[i].day = today
  BY ChainEffect
<1>2. ~ (today <= day)
  BY DEF WorldOK
<1>3. UpTo(chain', day) = UpTo(chain, day)
  BY <1>1, <1>2 DEF UpTo
<1>4. \A i \in UpTo(chain, day) : i \in DOMAIN chain /\ chain'[i] = chain[i]
  BY <1>1 DEF UpTo
<1>5. EntriesOf(chain', day) = EntriesOf(chain, day)
  BY <1>3, <1>4 DEF EntriesOf
<1>6. LeftOn(chain', day) = LeftOn(chain, day)
  BY <1>3, <1>4 DEF LeftOn
<1>7. LeftOn(chain, day) \in SUBSET DOMAIN chain
  BY DEF LeftOn, UpTo
<1>8. IsFiniteSet(LeftOn(chain, day)) /\ \A i \in LeftOn(chain, day) : chain[i].out \in Nat /\ chain'[i] = chain[i]
  BY <1>1, <1>7, CoinsAreWorth, FS_Subset
<1> QED BY <1>5, <1>6, <1>8, WorthAgrees

\* What a record says of its day is true of it ever after.
LEMMA StaysSettled ==
    ASSUME WorldOK, CallsOK, CoinsOK, [Next]_vars, NEW r, Settles(r)
    PROVE  SettlesIn(chain', early', today', r)
<1>1. r.date \in Nat /\ r.date < today /\ r.date < today'
  BY DayEffect DEF WorldOK, Settles, SettlesIn
<1>2. /\ EntriesOf(chain', r.date) = EntriesOf(chain, r.date)
      /\ LeftOn(chain', r.date) = LeftOn(chain, r.date)
      /\ Worth(chain', LeftOn(chain, r.date)) = Worth(chain, LeftOn(chain, r.date))
  BY <1>1, PastStays
<1>3. Len(chain') <= FetchLimit => Len(chain) <= FetchLimit
  BY ChainEffect, LegacyAssumption
<1>4. r.date \notin early' => r.date \notin early
  BY EarlyGrows
<1> QED BY <1>1, <1>2, <1>3, <1>4 DEF Settles, SettlesIn

\* An answer that was given after the day and holds the whole chain has all that
\* happened up to the day's end, so the draw settles it.
LEMMA DrawSettles ==
    ASSUME Base, CoinsOK, HandsOK, NEW c \in Callers, NEW r, Draws(c, r), [Next]_vars
    PROVE  SettlesIn(chain', early', today', r)
<1>0. WorldOK /\ CallsOK
  BY DEF Base
<1> DEFINE seen == calls[c].seen
           day == r.date
           past == {i \in Visible(seen) : chain[i].day <= day}
           entries == ParseEntriesForDay(seen, day)
<1>1. PICK winner \in IF entries = {} THEN {NoWinner} ELSE entries : r = DrawRecord(seen, day, winner)
  BY DEF Draws, Decides
<1>2. r.winner = winner /\ r.jackpot = JackpotAtEndOfDay(seen, day)
  BY <1>1 DEF DrawRecord
<1>3. day \in Nat /\ day < today /\ chain' = chain
  <2>1. day \in 1 .. Yesterday
    BY <1>0, DayInHand DEF Draws, Past
  <2> QED BY <1>0, <2>1 DEF WorldOK, Yesterday, Draws, wallet
<1>4. seen \in Nat /\ seen <= Len(chain) /\ Len(chain) \in Nat /\ DOMAIN chain = 1 .. Len(chain)
  BY <1>0, CoinsAreWorth DEF CallsOK, CallOK
<1>5. Visible(seen) \subseteq DOMAIN chain
  BY <1>4 DEF Visible
<1>6. entries \subseteq EntriesOf(chain, day) /\ NoWinner \notin DOMAIN chain
  BY <1>3, <1>4, <1>5 DEF ParseEntriesForDay, IsEntry, Enough, EntriesOf, UpTo, NoWinner
<1>7. r.winner # NoWinner => r.winner \in EntriesOf(chain, day)
  BY <1>1, <1>2, <1>6
<1>8. ASSUME Len(chain) <= FetchLimit, day \notin early'
      PROVE  /\ r.winner = NoWinner => EntriesOf(chain, day) = {}
             /\ r.jackpot = Worth(chain, LeftOn(chain, day))
  <2>1. ~ (calls[c].seenOn <= day)
    BY <1>8 DEF Draws, Decides
  <2>2. calls[c].seenOn \in Nat /\ \A i \in DOMAIN chain : i > seen => chain[i].day >= calls[c].seenOn
    BY <1>0 DEF HandsOK, HandOK
  <2>3. \A i \in DOMAIN chain : chain[i].day \in Nat
    BY <1>0 DEF WorldOK
  <2>4. \A i \in DOMAIN chain : chain[i].day <= day => i \in Visible(seen)
    <3> SUFFICES ASSUME NEW i \in DOMAIN chain, chain[i].day <= day PROVE i \in Visible(seen)
      OBVIOUS
    <3>1. ~ (i > seen)
      BY <1>3, <2>1, <2>2, <2>3
    <3>2. FetchLimit \in Nat /\ i \in Nat /\ i >= 1
      BY <1>4, LegacyAssumption
    <3> HIDE DEF day, seen
    <3> QED BY <1>4, <1>8, <3>1, <3>2 DEF Visible
  <2>5. past = UpTo(chain, day)
    BY <1>5, <2>4 DEF UpTo
  <2>6. entries = EntriesOf(chain, day)
    BY <1>3, <1>6, <2>4 DEF ParseEntriesForDay, IsEntry, Enough, EntriesOf, UpTo
  <2>7. r.winner = NoWinner => EntriesOf(chain, day) = {}
    BY <1>1, <1>2, <1>6, <2>6 DEF EntriesOf, UpTo
  <2>8. r.jackpot = Worth(chain, UpTo(chain, day)) - SpentBy(chain, UpTo(chain, day))
    BY <1>2, <2>5, EndOfDay
  <2>9. \A i \in UpTo(chain, day) : chain[i].out \in Nat /\ chain[i].ins \subseteq UpTo(chain, day)
    <3> SUFFICES ASSUME NEW i \in UpTo(chain, day), NEW j \in chain[i].ins
                 PROVE  j \in UpTo(chain, day)
      BY DEF UpTo, CoinsOK
    <3>1. i \in DOMAIN chain /\ chain[i].day <= day /\ j \in 1 .. i - 1
      BY DEF UpTo, CoinsOK
    <3>2. j \in DOMAIN chain /\ j < i
      BY <1>4, <3>1
    <3>3. chain[j].day <= chain[i].day
      BY <3>1, <3>2 DEF CoinsOK
    <3>4. chain[j].day <= day
      BY <1>3, <2>3, <3>1, <3>2, <3>3
    <3> QED BY <3>2, <3>4 DEF UpTo
  <2>10. /\ IsFiniteSet(UpTo(chain, day))
         /\ \A i, j \in UpTo(chain, day) : i # j => chain[i].ins \cap chain[j].ins = {}
    <3>1. UpTo(chain, day) \subseteq DOMAIN chain
      BY DEF UpTo
    <3>2. IsFiniteSet(UpTo(chain, day))
      BY <1>0, <3>1, CoinsAreWorth, FS_Subset
    <3> QED BY <3>1, <3>2 DEF CoinsOK
  <2> QED BY <2>7, <2>8, <2>9, <2>10, BalanceIsUnspent DEF LeftOn
<1>9. day < today'
  BY <1>0, <1>3, DayEffect DEF WorldOK
<1> QED BY <1>3, <1>7, <1>8, <1>9 DEF SettlesIn

\* The file's records settle their days after every step.
LEMMA AllStaySettled ==
    ASSUME Base, CoinsOK, HandsOK, AllSettle, [Next]_vars
    PROVE  AllSettle'
<1>0. FileOK /\ WorldOK /\ CallsOK
  BY DEF Base
<1>1. \A k \in DOMAIN history : SettlesIn(chain', early', today', history[k])
  BY <1>0, StaysSettled DEF AllSettle
<1>2. CASE UNCHANGED file
  BY <1>1, <1>2 DEF AllSettle, Settles, file
<1>3. CASE DOMAIN history' = {}
  BY <1>3 DEF AllSettle
<1>4. ASSUME NEW c \in Callers, NEW r, Draws(c, r), history'[1] = r,
             \A k \in DOMAIN history' : k = 1 \/ (k - 1 \in DOMAIN history /\ history'[k] = history[k - 1])
      PROVE  AllSettle'
  <2>1. SettlesIn(chain', early', today', r)
    BY <1>4, DrawSettles
  <2>2. \A k \in DOMAIN history' : SettlesIn(chain', early', today', history'[k])
    BY <1>1, <1>4, <2>1
  <2> QED BY <2>2 DEF AllSettle, Settles
<1>5. ASSUME DOMAIN history' = DOMAIN history, \A k \in DOMAIN history : SameDraw(history[k], history'[k])
      PROVE  AllSettle'
  <2>1. ASSUME NEW k \in DOMAIN history' PROVE SettlesIn(chain', early', today', history'[k])
    <3>1. SettlesIn(chain', early', today', history[k]) /\ SameDraw(history[k], history'[k])
      BY <1>1, <1>5
    <3> QED BY <3>1 DEF SettlesIn, SameDraw
  <2> QED BY <2>1 DEF AllSettle, Settles
<1> QED BY <1>0, <1>2, <1>3, <1>4, <1>5, FileMoves

\* The wallet, the calls and the records together.
WalletOK == Base /\ CoinsOK /\ HandsOK /\ RecordsOK /\ GaugesOK /\ AllSettle /\ payoutHistory \subseteq Past

\* They hold at the start and after every step.
LEMMA WalletInvariant ==
    /\ Init => WalletOK
    /\ WalletOK /\ [Next]_vars => WalletOK'
<1>1. ASSUME Init PROVE WalletOK
  <2>0. Base /\ DOMAIN history = {} /\ \A c \in Callers : calls[c] = Idle
    BY <1>1, BaseInvariant, WorldStarts
  <2>1. PICK amount \in Amounts, sender \in BOOLEAN : chain = <<Accepted(Deposit(amount, sender), 1)>>
    BY <1>1 DEF Init
  <2>2. DOMAIN chain = {1} /\ chain[1].ins = {} /\ chain[1].out = amount
    BY <2>1 DEF Accepted, Deposit
  <2>3. today = 2 /\ mempool = {} /\ window = FALSE /\ running = FALSE /\ walletSet \in BOOLEAN
        /\ incidents = 0 /\ payoutHistory = {}
    BY <1>1 DEF Init
  <2>4. CoinsOK
    BY <2>2, <2>3, LegacyAssumption DEF CoinsOK
  <2>5. HandsOK
    <3>1. Idle.coins = {} /\ Idle.pc = "idle" /\ Idle.seen = 0 /\ Idle.seenOn = 0
      BY DEF Idle
    <3>2. \A i \in DOMAIN chain : chain[i].day >= 0
      BY <2>0 DEF Base, WorldOK
    <3> HIDE DEF Idle
    <3> QED BY <2>0, <2>3, <3>1, <3>2 DEF HandsOK, HandOK
  <2>6. RecordsOK
    <3>1. Idle.todo = <<>>
      BY DEF Idle
    <3> QED BY <2>0, <3>1 DEF RecordsOK
  <2>7. GaugesOK
    <3>1. today \in 1 .. MaxDay /\ incidents \in 0 .. MaxIncidents
      BY <2>3, LegacyAssumption
    <3> QED BY <2>3, <3>1, Zenon DEF GaugesOK
  <2> QED BY <2>0, <2>3, <2>4, <2>5, <2>6, <2>7 DEF WalletOK, AllSettle
<1>2. ASSUME WalletOK, [Next]_vars PROVE payoutHistory' \subseteq Past'
  <2>0. WorldOK /\ CallsOK /\ payoutHistory \subseteq Past /\ Past \subseteq Past'
    BY <1>2, DayEffect DEF WalletOK, Base
  <2>1. ASSUME NEW c \in Callers, Learns(c) PROVE payoutHistory' \subseteq Past
    <3>1. calls[c].todo # <<>>
      BY <2>0, <2>1 DEF Learns, CallsOK, CallOK
    <3> QED BY <2>0, <2>1, <3>1, RecordInHand DEF Learns
  <2>2. payoutHistory' = payoutHistory \/ \E c \in Callers : Learns(c)
    BY <1>2, <2>0, StepKinds DEF Outside, Restarted, Waits, Skips, Submits, Loses, TakesUp, Draws, Marks
  <2> QED BY <2>0, <2>1, <2>2
<1>3. ASSUME WalletOK, [Next]_vars PROVE WalletOK'
  BY <1>2, <1>3, BaseInvariant, CoinsStep, HandsKeep, RecordsKeep, GaugesKeep, AllStaySettled DEF WalletOK, Base
<1> QED BY <1>1, <1>3

\* Every variable keeps its type, however calls overlap and whenever the process stops.
THEOREM LegacyTypes == Spec => []TypeOK
<1>1. Init => WalletOK
  BY WalletInvariant
<1>2. WalletOK /\ [Next]_vars => WalletOK'
  BY WalletInvariant
<1>3. WalletOK => TypeOK
  <2> SUFFICES ASSUME WalletOK PROVE TypeOK
    OBVIOUS
  <2>1. \A i \in DOMAIN chain : /\ chain[i].ins \subseteq DOMAIN chain /\ chain[i].out \in Nat
                                /\ chain[i].day \in 1 .. today
    BY CoinsAreWorth DEF WalletOK, Base, WorldOK
  <2>2. \A tx \in Range(chain) : tx.ins \subseteq DOMAIN chain /\ tx.out \in Nat /\ tx.day \in 1 .. today
    BY <2>1 DEF Range
  <2>3. \A tx \in mempool : tx.ins \subseteq DOMAIN chain /\ tx.out \in Nat
    BY DEF WalletOK, CoinsOK
  <2>4. ASSUME NEW s, IsList(s), \A i \in DOMAIN s : s[i] \in Records PROVE s \in Seq(Records)
    <3>1. PICK S : s \in Seq(S)
      BY <2>4 DEF IsList
    <3>2. Len(s) \in Nat /\ DOMAIN s = 1 .. Len(s) /\ s \in [1 .. Len(s) -> S]
      BY <3>1
    <3>3. s \in [1 .. Len(s) -> Records]
      BY <2>4, <3>2
    <3> QED BY <3>2, <3>3
  <2>5. history \in Seq(Records)
    <3>1. IsList(history)
      BY DEF WalletOK, Base, FileOK, IsList
    <3> QED BY <2>4, <3>1 DEF WalletOK, RecordsOK
  <2>6. \A c \in Callers : calls[c].todo \in Seq(Records) /\ calls[c].coins \subseteq DOMAIN chain
    BY <2>4 DEF WalletOK, Base, CallsOK, CallOK, RecordsOK, HandsOK, HandOK
  <2>7. Past \subseteq 1 .. MaxDay
    BY LegacyAssumption DEF WalletOK, GaugesOK, Past, Yesterday
  <2>8. completed \subseteq 1 .. MaxDay
    <3>1. \A k \in DOMAIN history : history[k].date \in Past
      BY DEF WalletOK, Base, WorldOK
    <3>2. completed = {r.date : r \in {history[k] : k \in DOMAIN history}}
      BY DEF WalletOK, Base, FileOK, OneRecordPerDay, Range
    <3> QED BY <2>7, <3>1, <3>2
  <2>9. payoutHistory \subseteq 1 .. MaxDay
    BY <2>7 DEF WalletOK
  <2>10. GaugesOK
    BY DEF WalletOK
  <2> QED BY <2>2, <2>3, <2>5, <2>6, <2>8, <2>9, <2>10, Zenon DEF TypeOK, GaugesOK
<1> QED BY <1>1, <1>2, <1>3, PTL DEF Spec

\* The record of a day names an entry of that day, or none when there was none, and the
\* jackpot of a draw from a complete and late enough answer is what the wallet then held:
\* what its coins were worth that no transaction up to the day's end had spent.
THEOREM RecordsSettleTheirDays == Spec => []DrawsSettleTheirDay
<1>1. Init => WalletOK
  BY WalletInvariant
<1>2. WalletOK /\ [Next]_vars => WalletOK'
  BY WalletInvariant
<1>3. WalletOK => DrawsSettleTheirDay
  <2> SUFFICES ASSUME WalletOK, NEW k \in DOMAIN history
               PROVE  LET r == history[k]
                          past == {i \in DOMAIN chain : chain[i].day <= r.date}
                          entries == {i \in past : chain[i].day = r.date /\ IsEntry(i)}
                      IN  /\ r.date < today
                          /\ r.winner # NoWinner => r.winner \in entries
                          /\ Len(chain) <= FetchLimit /\ r.date \notin early =>
                                /\ r.winner = NoWinner => entries = {}
                                /\ r.jackpot = Total(past \ UNION {chain[i].ins : i \in past})
    BY DEF DrawsSettleTheirDay, Range
  <2>1. SettlesIn(chain, early, today, history[k])
    BY DEF WalletOK, AllSettle, Settles
  <2> QED BY <2>1, TotalIsWorth DEF SettlesIn, EntriesOf, LeftOn, UpTo, IsEntry, Enough
<1> QED BY <1>1, <1>2, <1>3, PTL DEF Spec
=============================================================================
