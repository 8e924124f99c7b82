# Kaspa Raffle: TLA+ models and proofs

A daily raffle on the Kaspa network. An entrant pays to an address whose script
is a covenant (`kaspa-raffle-website/covenant/raffle_entry.sil`); after midnight
UTC anyone may settle the day with one transaction that pays 50 % of the pot to
a winner, 40 % to a development fund and 10 % to the operator; what is not
settled, its entrant takes back a day later. A small Node service
(`kaspa-raffle-website/backend`) hands out addresses and settles the days. The
covenant is compiled by the SilverScript compiler (`silverscript/`).

## Inventory

| Component | State | Operations | Interacts through |
|---|---|---|---|
| Entry covenant (`raffle_entry.sil`) | none of its own: the entry's script and value | `draw` (leader or delegate), `reclaim` | one script run per input of a transaction |
| `raffle-cli` (`silverscript/raffle-cli`) | none | `template`, `entry-address`, `draw-sigscripts`, `pick-winner` | child process of the service |
| Ledger and node (external) | UTXO set, mempool, past median time, selected chain | accept, confirm, reorganise, answer | RPC (`backend/rpc.js`) |
| Draw engine (`backend/draw.js`) | local state of each call; its copies of day files | `settleAllDue`, `settleDay` | node RPC, CLI, registry |
| Registry (`backend/registry.js`) | one JSON file per day: pinned keys, entrants, settlement | load, pin, add entrant, save, list | files shared by all handlers and by the heartbeat process |
| Server (`backend/server.js`, `cli.js`, `config.js`) | configuration read at start | `/api/enter`, `/api/cron/draw`, status, interval | event loop; handlers interleave at awaits |
| Heartbeat (`scripts/heartbeat-entrant.js`) | none | one run a day | a second process on the same files |
| Legacy backend (`backend-legacy`) | draw and payout files written in place, one wallet | hourly queue (catch up, pay, retry pending), midnight draw, cron and admin requests | timers and handlers that interleave at awaits; a public API for the wallet's transactions, a node for payouts |
| SilverScript compiler (`silverscript/silverscript-lang/src/compiler`) | the syntax tree between passes; while generating, types, stack layout and depth | size arrays, check, expand covenant declarations, inline, take structs apart, replace appends, unroll loops, replace locals, generate, again until the size fits | a sequential pipeline; what it makes runs in the script engine, next to the scripts of other inputs |
| Debugger (`debugger/session`, `debugger/cli`, `compiler/debug_recording.rs`) | the recorded steps of a compilation; a session's cursor over them, executed steps, breakpoints, console output | next, step, si, finish, continue, break | a prompt; runs the script engine one opcode at a time |
| Editors, docs, vendored SDK | | | |

What is hard here, and the properties that answer it:

- **The delegate argument.** Every input's script runs alone. A delegate looks at
  its own lock and at input 0 only, yet entries must leave the ledger only in a
  whole settlement of one day or by reclaim (`ImplementsPot`), and one payee must
  be acceptable for every batch (`ExactlyOneWinner`).
- **Arithmetic of the selection.** Unrolled loops, a modulus, first match
  (`LoopsAgreeWithPickWinner`, `NoInputSkipped`, `OnlyListedReasonsReject`,
  `EveryInputCanWin`).
- **Handlers that interleave at awaits over shared files**, with copies that age
  (`EntrantsKept`, `OneTemplatePerDay`, `SettlementIsFinal`).
- **Two systems of record**, the chain and the day file, with stops and lost
  answers in between (`PaidAsRecorded`, `EmptyMeansNothingDrawn`, `OneDrawPerDay`).
- **Retries until it works** (`EntriesAreDrawn`).
- **Eleven rewritings of one program.** Names that meet when bodies are inlined,
  values read after they changed, types guessed again after a declaration is gone:
  every pass must keep what every call comes to (`MeaningKept`).
- **A stack machine behind named variables.** Each assignment, block, branch and call
  moves the slots of all others, and the depths are counted by hand; the script must
  do what the source says, on every path and from every layout (`ScriptMeans`).
- **Generated covenant entrypoints** that run one per input: together they must let
  through the spends the declaration promises and no others (`CovenantKept`).
- **A script that contains its own length** (`SettlesInTime`), and a checker that
  stands alone between a type error and a wrong script (`RefusesOnlyWrong`).
- **A cursor over a script that knows no calls.** Two numberings of the same statements
  decide which inlined call a byte belongs to; steps share offsets; commands look for
  a step by depth and give up those behind the engine (`NeverBack`,
  `OverSkipsNothing`, `OutLeavesTheCall`, `CallsShownAreOpen`, `ContinueStopsAtBreakpoints`).
- **The legacy backend's payers**: a queue, a midnight draw and requests over the same
  file, an answer from before midnight used after it, payouts whose fate is unknown, a
  file that a stop may empty (`DrawsSettleTheirDay`, `PayoutsMatchRecords`,
  `PaidTwiceOnlyAfterTrouble`, `RecordsKept`, `DaysAreDrawn`).

The full list of hazards, line by line, is in `PROJECT.json`.

## Modules

```
WinnerSelection          selection, split: pure operators
 ├─ LeaderLoop           the leader's loops as the compiler unrolls them
 ├─ RafflePot            abstract: what the covenant promises
 └─ RaffleEntry          draw and reclaim as predicates on a transaction
     └─ RaffleLedger     any transaction, one script per input; INSTANCE RafflePot
KaspaNode                clock, deposits, UTXO index, mempool, complaints
 └─ DrawService          handlers, settlers, day files, heartbeat, faults
LegacyRaffle             the custodial backend: wallet, draws, payouts, restarts
SortedLists              a set of numbers as a list, under both services
NatInduction             induction over naturals and finite sets, folds, sums
 ├─ WinnerSelectionProofs   ─ LeaderLoopProofs
 │                          └ RaffleLedgerProofs
 ├─ DrawServiceProofs
 ├─ LegacyRaffleProofs
 ├─ SilverBindingsProofs
 └─ SilverDebuggerProofs
SilverAst                the syntax tree, types and their sizes
 ├─ SilverTypes          inferred types and coercions
 │   ├─ SilverStructs    scopes, structs into leaves
 │   │   └─ SilverPasses array sizes, output checks, appends, loops, locals
 │   │       └─ SilverCovenants   covenant declarations
 │   └─ SilverCodegen    expressions ─ SilverStatements ─ SilverContract
 │         (SilverCheck: the type checker, over SilverStructs and SilverStatements)
 ├─ SilverInline         function calls
 └─ SilverEval           abstract: what a program means
SilverBindings           the stack layout ─ SilverStack  the script engine
SilverCompiler           the passes in order; both meanings compared
SilverRecorder           the debug records of a compilation
SilverDebugger           a session over such records
MCLeaderLoop, MCRaffleLedger, MCDrawService, MCLegacyRaffle,
MCSilverCompiler, MCSilverCovenants, MCSilverDebugger: constants and programs for TLC
```

**WinnerSelection.** `RunningTotal` and `WinnerAfter` are the accumulators of the
two loops of `draw` after each iteration, as recursive functions; `PickWinner` is
`raffle-cli`'s loop with its `break` and its initial index. Indices count from 1,
so `winnerIdx == -1` is `NoWinner`, 0. `RandRange` stands for 2^48.

**LeaderLoop.** One step is one unrolled copy of a loop body (`for.rs`): the length
check, `MAX_ENTRIES` copies guarded by the hidden counter, the ticket, the second
loop, the final `require`.

**RaffleEntry.** A redeem script is a sequence of symbols, one for each constructor
argument and one for each byte after the entrant's key, so that `Splice` can be cut
anywhere, as a witness may. Hashes are injective: a P2SH lock is the script it
commits to. `draw` is split into what it asks of inputs and witness
(`DrawInputs`) and of outputs (`DrawOutputs`), `reclaim` is `Reclaim`.

**RaffleLedger.** `Submit` takes any list of live outpoints with an entry in it, any
lock time, any outputs, any signers; each input needs a witness of its own under
which its script succeeds. Time passes, blocks join the selected chain and leave it.
`OpenEntries` maps the ledger to the variables of **RafflePot**, whose actions
are the promise: `Settle` a batch of one day at once, or `TakeBack`.

**KaspaNode, DrawService.** A step of a handler runs from one await to the next; what
is synchronous in JavaScript is one step. `settlers[s]` is one call of
`settleAllDue`: its list of copied days, the batch, the block, the candidate, the
attempt, fee and budgets, and the node's answer once there is one. The node picks
any applicable complaint (`Complaints`), in any order; what `draw.js` cannot
recognise is `"rejected"`. `AfterDay`, `AfterCandidate` and `AfterAttempt` are the
ends of the three nested loops; a throw is `AfterDay`. `FinishRequest` loads the
file again, as `addEntrant` does; `SaveSettlement` writes the old copy, as
`saveDay(day)` does. Faults: a restart (with other keys, perhaps), an RPC call that
throws, a `submitTransaction` whose answer is lost, with or without effect.

**LegacyRaffle.** `calls[c]` is one call of `processDrawQueue` (parts `catchup` and
`pending`) or `executeDrawForYesterday` (part `yesterday`): the await it is at, the
API's answer it works on (`seen`, a prefix of the chain), the days to draw, the records
to pay, the coins chosen. The timer has a caller of its own, the midnight draw and
requests share another. `chain` holds what the wallet received and spent, so the jackpot,
the entries and the coins are all read off it, as `kaspa-api.js` and the node do; change
that comes back to the wallet is a coin, and an entry if it is large enough. A transaction
whose sender has no address is in the balance but no entry, although
`earliestEntryDateKey` counts it. Files are
read and written in one step with what is computed from them, since nothing is awaited in
between. Three history variables name the circumstances under which the code does not
keep its word: `disturbed` (a payment was cut off after the submit, by a stop, a lost
answer, a history that could not be written or a failing `disconnect`, or a call took it
up while another had it in hand), `forgotten` (a stop in the middle of a write emptied the
file), `early` (drawn from an answer from before the day's end).

**SilverCompiler.** A behaviour takes one program through `compile_contract_impl`:
one action per pass, each of which may refuse (`Pass`), then `EmitScript`, one step
per try of a size. With debug records the locals stay (`KeepLocals`), so both orders of
business are explored. `ast` is the tree after the last pass, `declared` the one after
covenant declarations, from which the ABI is made. An error is a marker in the tree
(`Wrong`, `WrongStmt`) rather than a result type, and `Refused` looks for it.

**SilverEval** is the reference: what a call of a function comes to on the source,
with big-step evaluation, structs as values, loops as loops and calls as calls. It
knows nothing of leaves, layouts or scripts. It is checked against *every* stage, so
each pass is a step of a refinement: the tree after it means what the source meant
(`MeaningKept`), and the final script, run by **SilverStack** on what
`build_sig_script` pushes, means it too (`ScriptMeans`). Where the language's tutorial
says something surprising (an end that is not constant is compared before every copy
of a loop body), `SilverEval` says the same.

**SilverCheck** is `static_check.rs`, **SilverInline** `inline_functions.rs`,
**SilverStructs** `structs.rs`, **SilverPasses** the four smaller passes and
`validate_output_state.rs`, **SilverCovenants** `covenant_declarations.rs`.
**SilverCodegen**, **SilverStatements** and **SilverContract** are `compile.rs`: a
sub-expression is a list of parts, each an expression, opcodes with what they do to
the depth, or a push, so that one fold (`CompileParts`) does what the code repeats in
every function, the count of the depth included. **SilverBindings** is
`stack_bindings.rs`: layouts, copies from a depth, rebinding, and the reordering of one
layout into another by a known short plan or through the alternate stack.
**SilverStack** is the script engine (external): numbers are byte strings in their
shortest form, `OpNum2Bin` pads, a hash is an injective function to 32 bytes,
introspection reads the transaction of the call.

**SilverRecorder** is `debug_recording.rs` with the parts of the inliner, of the loop
unrolling and of the code generator that call it: statements keep only their span, the
calls in them and their bodies, a script is a sequence of opcodes of which only the
conditional ones and those that may fail are told apart. `LowerFunction` numbers the
statements as the inliner puts them out, `CompileEntrypoint` as code generation meets
them; `CompileContract` gives the script and its steps. A step also keeps the frame its
statement was inlined in (`of`), which the code does not have: the properties use it.

**SilverDebugger** is one session. `pc` is the engine, `cursor` the step shown; `live`
says which offsets are executed, for one outcome of every condition, and `failing` which
opcode ends the run, both chosen in `Init`. An action is one command with its whole loop
over steps: `Into`, `Over`, `Out`, `UntilBreakpoint` are functions of the session's state
(a record), as in `session.rs`. The loops of the code are `While`, a recursive function
with a limit of rounds, `MaxRounds`, that no loop reaches (a theorem says so). `Try` is one
round of `step_with_depth_predicate`. The order of steps and which of them the inliner
generated depend on the contract only, so they are computed once (`Order`, `Marked`).

## Runs

| Run | Shows | Bounds |
|---|---|---|
| `leader_loop` | loops against reference definitions | 3 copies, lists of up to 4 values out of dust, minimum, minimum + 1 and one coprime; all 128 tickets |
| `ledger` | the delegate argument, as a refinement of `RafflePot` | 3 outpoints, at most 2 inputs per draw, two days with the same time and dev key, dust, a foreign contract with a script like the template, every cut of the known scripts as witness, dishonest splits, 3 times |
| `draw_service` | records and draws of a service that runs one settlement at a time | 1 day, 3 deposits with dust, 2 per draw, 2 blocks, 4 ticks |
| `draw_concurrent` | handlers and overlapping settlements | 2 days, 2 enter calls, 2 settlers, 2 key pairs, 2 faults, 1 deposit |
| `draw_recovers` | deposits are drawn in spite of faults | 1 heartbeat entry, 2 deposits, 2 faults of any kind |
| `legacy` | one record per day and it is true, payouts follow records, what a second payment takes, all days are drawn | 3 days, 2 deposits with or without a sender's address, the timer and one other caller, 3 transactions per answer of the API, one incident: a request, a failing call, a lost answer, a history not written, a failing disconnect, a stop or a torn write |
| `compiler` | passes keep the meaning, scripts do what the source says, declarations keep their promise, only wrong programs are refused, sizes settle | 445 programs: the 400 ordered pairs of 20 pieces of code, a contract with state and three entrypoints, 36 contracts with one error each, 8 covenant declarations; each called with several arguments and transactions, with and without debug records |
| `debugger` | the cursor, the stops and the calls shown are those of the source | 14 contracts, most from `debug_session_tests.rs`: calls in calls, several arguments, repeated calls, calls as operands, branches with and without else, loops with constant and other bounds, calls in them, two entrypoints; every outcome of the conditions, any failing `require`, any sequence of commands, 1 breakpoint on any line |

Why these are enough: a delegate refers to input 0 and itself, so two inputs already
mix any two roles and three let a second delegate differ; the dust, minimum and
over-limit cases are all inside. The service has one file per day, so two days show
what a stale list does; the limit per draw is 2, so three deposits crowd it. Two
settlers are the least that overlap. The legacy queue excludes itself, so the timer and
one more caller are all that can overlap; two days with entries make it catch up, one
more lets answers age over midnight; two deposits make two winners and leave coins for
a second payment. Amounts in the ledger are units of 10 KAS.
A bug in a pass or in the layout shows when two features meet, so the programs are all
*pairs* of pieces over the same variables: what the first leaves behind (moved slots,
reordered branches, inlined temporaries, forgotten aliases) is in the way of the
second. The transactions of the covenants have a first and a second input of the
same or another covenant and every mixture of fewer, more, foreign and wrong outputs.
A debugger session has no bound on its commands, and each contract is one of the shapes
in which frames, offsets or spans meet; `continue` stops at the first of its breakpoints,
so one at a time shows each.
The service's lottery is the block's number modulo the batch, since which candidate
wins is the covenant's business; fees and script units are such that a batch of two
needs each kind of raise once. Every bound is a CONSTANT (`MaxInputs`, `MaxTime`,
`MaxCoins`, `MaxFaults`, `RequestOverrun`, `MaxDay`, `MaxDeposits`, `MaxIncidents`, `MaxIterations`, `MaxBreakpoints`), and `CHECK_DEADLOCK FALSE` is set because
behaviours end when the bounds are used up, a script has its verdict or a session is over.

`RequestOverrun` is an assumption about time: an enter call that began before a close
ends before the draw of that day starts (the delay is four minutes). Without it
`EntrantsKept` is false, because the settler saves an old copy.

Four more runs end in a violation, each of a sentence in the repository; see
`findings` in `PROJECT.json`: `input_order`, `settle_twice`, `heartbeat_keys`
and `struct_assign` (a struct assigned from its own fields mixes old and new values).

What each property of `compiler` would let pass if it were weaker: `MeaningKept`
compares results and acceptance after every pass, not only at the end, so a pass
cannot undo another's error; `ScriptMeans` demands an empty stack below the results,
the failure of the script where the source rejects, and success where it accepts;
`CovenantKept` is an equivalence, so a declaration that lets nothing through fails too;
`RefusesOnlyWrong` has a program for each kind of error the checker or a pass reports.

One property of `debugger` has a premise. `Aligned`, for `CallsShownAreOpen`: all
records lie in the frame their statement was inlined in; in most contracts they do, and
"Not modelled" says what happens in the others. `OverSkipsNothing` and `OutLeavesTheCall`
hold of all contracts, because a record in a wrong frame still has the right depth; of
`next` the run shows that it runs past no statement of its own depth, not that it stays
out of calls, which it does not (see below). There is no fairness: a user need not type
anything.

Fairness. `DrawService`: weak fairness of each settler (`setInterval` fires every
minute, awaited promises settle or are rejected, with a connection timeout in
`rpc.js`), of enter calls, of the clock and of the chain confirming the mempool.
Nobody has to enter, pay or take anything back, and no fault has to happen.
`LegacyRaffle`: weak fairness of each call's next step (a `fetch` or an RPC call returns
or throws) and of the timer's start (`setInterval`); not of time, blocks or entries.

## Proofs

For every value of the constants, checked by TLAPS:

- `WinnerHoldsTicket`: if the ticket is below the total, there is a winner, its
  interval of the pot holds the ticket, and it is the first such input. The functions
  are recursive, so the lemmas `RunningTotalUnfolds` and `WinnerAfterUnfolds` first
  derive their equations from `RecursiveFunctionExists` (induction over sets of
  naturals, `NatInduction`).
- `PickWinnerAgrees`: the off-chain predictor returns the same index.
- `SplitLeavesHalf`: integer division never takes more than half from the winner.
- `EntryScriptInjective`, `WitnessIsTemplate`: with the suffix length pinned, a witness
  that reproduces an entry's script is that day's template and names that entrant.
- `TypeCorrect`: the ledger's type invariant, inductive as it stands.
- `DelegatesFollowLeader`: any accepted transaction that spends an entry is that
  entry's reclaim, alone, or one whole settlement. A delegate's own look at itself pins
  the witness to its template (`WitnessPinned`), so input 1 is an entry of the same
  day; no plain key, foreign script or reclaim can spend it there (`EntrySpend`), so it
  runs the leader's checks, and these make every input an entry of that day
  (`LeaderSpend`).
- `LedgerImplementsPot`: `Spec => ImplementsPot`, the refinement `ledger`
  checks. The invariant it needs is `TypeOK`. `PotSubmit` splits a transaction by
  `DelegatesFollowLeader`; `PotSettle` shows that the winner is an input
  (`WinnerInRange`), that its output lies between its share less the fee cap and its
  share (`WinnerOutput`), and that what each key is paid is the pot's split.

- `SettlerFindsItsWinner`: for every batch and chain block the covenant accepts the
  payout to exactly one key, which is an entrant of the batch.

The leader's loops, for every unroll bound, list and entropy:

- `LoopInvariant`: `LoopInv` is inductive. It says at each copy what the loops have
  done so far: the hidden counter is the number of copies that found an input, `total`
  (then `acc`) is `RunningTotal` up to there, `winnerIdx` is `WinnerAfter` up to there,
  and there is no dust in what was read. The checked invariants speak of the
  last copy, from which no step can be argued backwards.
- From it: `LoopTypes`, `LegalBatchesSettle` (only length and dust reject),
  `LoopsReadEverything`, `PredictionIsSelection` (the loops select what `raffle-cli`
  predicts), and `EveryInputHasATicket`. The last assumes `EntropyCoversPots`, that
  2^48 is not below the pot: the code does not check it, see "Not modelled".

The draw service, for any number of callers, days, keys and deposits:

- `ShapeInvariant`, `ServiceTypes`: `Shape` is `TypeOK` with what the steps need of
  copies: which days a call's list holds, that the coins it read are coins of its day,
  that a day's file is of its own name.
- `RecordedDrawsHappened`: the history shows no draw the node has not taken, whatever
  fails, restarts and overlaps.
- `DaysKeepTheirTemplate`: behind it, `TemplatesAgree` follows the keys through the
  addresses still being compiled and the old copies that settlers write back. It
  assumes that there is no heartbeat or that the keys do not change; the run
  `heartbeat_keys` shows the property broken otherwise.
- `AnsweredEntrantsAreKept`: behind it, `EntrantsListed`: when a day becomes due no call
  for it is under way, so that the settlers' copies have all its entrants. It assumes
  `RequestOverrun < DRAW_DELAY`.
- `DaysAreDrawnOnce`, `EmptyDaysHadNoDraw`, `SettledDaysStaySettled`: behind them,
  `DrawsAccountedFor`: every draw taken is on record or in the hands of the call whose
  answer has come, and what a call has still to settle are distinct days without a
  record. They assume one `settleAllDue` at a time, no restart and no lost answer
  (`Faults \subseteq {"rpc"}`); `settle_twice` shows two overlapping calls draw a day twice.

The legacy backend, for any number of callers, entries and incidents:

- `RecordedOnce`, `RecordsStay`: `draw-state.json` holds one record of each completed
  day, and a step changes no record's winner or jackpot and drops none, but for a torn
  write. `StepEffect` says that every action leaves the file alone, draws a day that is
  not completed, sets a status, or tears the file; the inductive invariant `FileOK` adds
  that the file is a sequence of records, without which a status set on a position, or a
  record put in front, would say nothing about the others.
- `PayoutsAreOfRecord`: what is on its way to a winner is the half of a record's jackpot.
  Inductive with `HeldOnFile`: the records in the calls' hands, read before an await,
  still stand in the file with that winner and jackpot, or were torn out of it.
- `CompletedArePaid`: inductive with `PaidIsPaid`, which knows at each await what the
  call has already sent and reported.
- `NoSecondPayout`, `CompletedRecordsStay`: inductive as `Ledgered`. A record is in one
  call's hands at most (`HeldOnce`), a day that is paid is held by the call that paid it or
  is completed and held by none (`PaidOnce`), and it has one payout (`OnePayout`); all
  but for the days `disturbed` or `forgotten` names.
- `LegacyTypes`, `RecordsSettleTheirDays`: the gauge of the wallet is a natural number,
  and each record's jackpot is what the wallet had received less what it had spent up to
  the end of its day, with a winner who entered that day. Inductive as `WalletOK`:
  transactions spend coins from before them, no coin is spent twice (`CoinsOK`), the coins
  a call has chosen cover its payout and the fee, and what it has not seen of the chain is
  of the day of its answer or later (`HandsOK`), so that no entry is added below a
  jackpot already computed. The sums are folds over sets of coins; `NatInduction`
  proves that they add up (`SumOver`), by induction over finite sets.

The compiler's stack code, for every layout, every depth, any values and whatever lies
below (`SilverBindingsProofs`):

- The machine is a stack and an alt stack. `Enough` says what an opcode asks of them and
  `Effect` what it does, which for the opcodes used here is `StepOp` of `SilverStack`;
  a number pushed for `OP_PICK` or `OP_ROLL` stands for its encoding. `Runs(code, from,
  to)` holds if the code takes one pair of stacks to another and no opcode on the way
  finds too few slots. `Stacked(L, v, below)` is the stack of a layout `L` whose names
  have the values `v`.
- `CopyReadsTheName`: the short forms for small depths and the general `PICK` push the
  value of the name asked for, under any temporaries.
- `RebindingKeepsTheOthers`: `emit_update_stack_for_rebinding` and
  `emit_move_binding_to_top` leave the stack of the layout the compiler goes on with.
- `DroppingKeepsTheOthers`: so does `emit_drop_bindings`, for every set of names.
- `ReorderingReaches`: `emit_stack_reordering` takes the stack of a layout to the stack of
  any other layout of the same names. A searched plan is right because each of the four
  local opcodes turns the top slots as `RotateLeft` turns the permutation
  (`LocalRuns`, `PlansReach`); the lifted prefix because the names that stay are in the
  target's order already (`KeptSuffix`, `RestStays`) and the alt stack gives the others
  back last first (`PrefixLifted`, `ReturnFromAlt`). The loops are recursive functions;
  `StagedRecursion` of `NatInduction` argues over their stages.

The debugger, for every set of recorded contracts, every outcome of their conditions and any
mixture of commands (`SilverDebuggerProofs`):

- `SessionInvariant`, `DebuggerTypes`: the invariant `SessionOK` is `TypeOK` with what the
  records are in the order of a session: each of them once (`OrderListsAll`, by counting
  those before it), and no two with one number (`MarkedKeepsNumbers`).
- `CommandsMoveOn`: every command has an outcome, and if it stops again, it is at a later
  statement. A command repeats searches, a search tries step after step, a try executes
  opcode after opcode. `WhileEnds` is the rule for these loops: a loop that stays in a set
  and lowers a measure not above `MaxRounds` ends in that set, because its condition is
  false. The measures are the opcodes left (`OpcodesEnd`) and the numbers above that of the
  step tried (`SearchEnds`, `CommandsEndIn`), so the limit is never what ends a loop.
  `Onward`, that nothing went back and a stop is at a larger number, is what every loop keeps.
- `CommandsReachTheirGoal`: when they stop, `step` has left the entry of its call, `next` the
  source text it was at, and `continue` is at a line with a breakpoint.
- `CursorOnlyAdvances`: `NeverBack`, of which single opcodes are a step of their own.

The theorems rest on the named assumptions of the modules: `RandRangeAssumption`,
`EntryAssumption`, `LedgerAssumption`, `LoopAssumption`, `NodeAssumption`,
`ServiceAssumption`, `LegacyAssumption`, `ContractsAssumption`. They say that constants are of their types and
bounds positive, that the first fee is not above the covenant's cap, that outputs a
transaction may have are coins, that other contracts' scripts are not the script of an
entry, that hashes are injective (in the model a lock holds its script), and that the
records of a compilation are numbered as they are put out. What goes
beyond is in the statement of the theorem that needs it.

Not proved: liveness and anything about fairness or ENABLED, which TLAPS does not reach
(`DaysAreDrawn`, `EntriesAreDrawn`), and the compiler but for its stack code: its
modules are recursive over trees, which is out of the prover's reach. For the debugger,
`ContinueStopsAtBreakpoints`, `OverSkipsNothing`, `OutLeavesTheCall` and `CallsShownAreOpen`
depend on how the recorder lays records
out (a statement executed has a record that a search meets before it is passed, entries and
exits nest, a call's own line is as deep as its entry); the recorder is recursive over statements, so these stay with TLC. Every other
invariant and action property that a passing run of the raffle or the debugger checks is
stated by a theorem.

## Not modelled

Byte encodings of addresses and JSON, signatures as such, transaction mass, read-only
HTTP endpoints, the web page, process managers, vendored code. 64-bit overflow of
`total * 40` needs a pot of 2.3 billion KAS and is left out. A draw evicted from the
mempool after it was recorded, and two processes inside one load-and-save section of a
day file, are listed as hazards.

Of the legacy backend: the snapshot for the page, the change of the funding address, the
resolution of the wallet's name, the caps on the files (120 draws, 90 payouts), payouts
that the SDK splits into several transactions, torn writes of the payout history.

Of the compiler: the parser and the formatter (text to tree and back), pragma versions,
the texts and places of errors, the ABI as JSON, the option that forbids entrypoints to
return, and dates and units, which the parser turns into numbers.

Of the debugger: the values of variables and of expressions (a shadow run of the script),
what the records say about them, covenant declarations under their source names, reports
of failures, the test runner.

What the code does and no run is about:

- A pot above 2^48 sompi (2,814,749 KAS) has inputs that no entropy selects; a day with
  more deposits than `maxEntriesPerDraw` leaves the others to reclaims; a deposit made
  between the close and the draw plays in it.
- The legacy backend pays a record twice when the answer to a payout is lost, when the
  payout history cannot be written or the `disconnect` in its `finally` throws, when the
  process stops before the status is written, and when the queue and
  `executeDrawForYesterday` hold the same record; a refused second payment sets a
  completed record back to pending. A queue that waits for the API over midnight draws
  the day that has just ended from an answer without its last entries. The jackpot is
  the wallet's whole balance, so days drawn together promise the same coins twice, and
  the later payment waits for new entries. Change goes to the operator when there is an
  operator's address, although `payouts.js:163` records that the remainder is "kept as
  change in raffle wallet"; with both addresses set the outputs are the whole balance and
  leave nothing for the fee.
- An array literal of numbers that is used once and indexed is taken for bytes
  (`debug_value_types.rs:162`; `locals.rs` drops its declared type): with
  `int[2] s = [a, b]` the requirement `s[1] == b` fails.
- `step_over` walks into a call at its second inlining inside a function that is called
  twice: `should_follow_cross_span_inline_enter` (`session.rs:1370`) takes it for the rest
  of the first, although `session.rs:303` says "at the same or shallower call depth". The
  model does the same: in the contract `twice`, `next` at line 9 of the second call of
  `last` stops inside `inner`.
- A call in a branch or a loop shifts the numbers of the inliner against those of the code
  generator (`source_statement_slot_count` counts a nested statement with its parent and
  again alone; one span has one number however often it is unrolled), so that the
  statements after it are recorded in other frames: `next` then stops inside callees.
- After `si` the cursor follows the offset whether or not the engine is executing, so
  console messages of a branch not taken are shown.
- After `byte[](int, size)` the depth is one too high for the rest of the expression
  (`compile.rs:3754`).
- The checker accepts a compound expression of a wrong type where only literals and
  names are compared (`static_check.rs:1719`, the last arm): `bool z = a + b`.
- `covenant_declarations.rs` differs in details from its design note (`DECL.md`): the
  entrypoint's name for 1:N declarations and what a singleton's alias implies.

## Plan

1. Values in the debugger: which variables are shown at a step, and that a shadow run
   evaluates them to what `SilverEval` says.
2. Processes sharing the data directory; eviction of draws from the mempool.
