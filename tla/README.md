# Formal models of the arbitrage bot

This directory holds TLA+ models of the bot in `bot/`, the TLC configurations
that check them on small instances and the proofs TLAPS checks for every
instance.  `PROJECT.json` lists, machine-readably, which definition models which
lines, what every run checks, and the seeded bugs (`Mut*` operators) that show
each property can fail.  Nothing in a specification uses a `Mut*` operator.

## 1. The system and its parts

The bot watches BNB Smart Chain.  For every new block it reads all trading
venues at one block, searches a two-leg arbitrage, re-validates the state it is
about to trade against, and sends one transaction to `FlashLoanArbitrage.sol`,
through a private relay when one is configured, else through a public node.
It is one Node process with one wallet: between two `await`s code runs
undisturbed, at an `await` everything else may run, and the process may die at
any instruction.

| component | source | state it keeps | operations |
|---|---|---|---|
| nonce journal | `bot/nonce-journal.js` | `records` in memory, the journal file | `load`, `bindWallet`, `reserve`, `approve`, `commit`, `markUnknown`, `terminal`, `rolledBack` |
| nonce manager | `bot/nonce.js` | `next`, `pending`, `reserved`, `blocked`, `journal` | `init`, `reserve`, `commit`, `rollback`, `releaseDropped`, `reconcile`, `attachJournal`, `markApproved`, `recover`, `reap` |
| executor | `bot/executor.js` | the control point of `executeOpp` and the nonce it holds | reserve, approve, track, private submission, public submission |
| transaction tracker | `bot/tx-tracker.js` | one record per submitted transaction | `create`, `markSubmitted`, `replace`, `markReplaced`, `markDropped`, `transition`, `poll` |
| receipt waiting | `bot/tracker.js` | a local tracker record | `trackTransaction` |
| WebSocket lifecycle | `bot/index.js` 57-410, `bot/rpc.js` | current socket, generation, reconnect timer, watchdogs, listeners, the attempt in progress | `start`, `attach`, `handleWsFailure`, `scheduleReconnect`, `attemptConnect`, the watchdog |
| scan loop | `bot/index.js` 455-751 | `executing`, `errCount`, the provider, wallet and manager in use | `scan`, `runHttpPollingLoop`, health check and reconnection |
| snapshot guards | `bot/snapshot.js`, `bot/fresh.js`, `bot/index.js` 756-848 | the last snapshot and its fingerprints | `createSnapshot`, `validateSnapshot`, `freshOnChainStateValidation` |
| scanner and search | `bot/scanner.js`, `bot/profit.js`, `lib/amm.js`, `lib/dodo.js` | the venues | reads, two-leg search |
| V3 quote engine | `lib/v3.js` | price, tick and liquidity of the loop | `getAmountOutV3Exact` |
| submission gates | `bot/execution-safety.js`, `bot/execution-cost.js` | none | `finalRequote`, the economic guard, gas limit and cost |
| broadcast | `bot/broadcast-integrity.js`, `bot/bloxroute.js` | none | comparison of signed bytes, one relay request |
| accounting | `bot/pnl.js`, `bot/reconciliation.js` | records by transaction hash | `recordPnL`, `reconcile`, aggregation |
| contract | `contracts/FlashLoanArbitrage.sol` | callback targets, balances | flash loans and their callbacks |

How they interact.  `main()` owns one provider, wallet and nonce manager.  A
block event of the WebSocket lifecycle, or the HTTP polling loop, calls
`scan()`, which is guarded by the mutex `executing`.  A scan that finds an
opportunity calls `executeOpp()` with the manager; the executor reserves a
nonce, which the manager writes to the journal before it hands it out, creates
a tracker record, sends, and commits or rolls back.  `reap()` runs after an
execution and releases slots whose receipts it sees.  The health check at the
end of a scan may replace provider, wallet and manager; the new manager is
bound to the journal file and recovers from it, as at start.

What is hard, and what makes each part correct:

| part | hard behaviour | correctness |
|---|---|---|
| journal | a write fails after memory changed; a later write stores everything; restart | the file never forgets a nonce that was sent, never reopens a confirmed one |
| manager | double commits, late rollbacks, releases of middle slots, a node that answers late or behind | an owned nonce is never granted again; `next` stays above what is owned |
| executor + manager + journal + chain | crash between any two steps, lost answers, relay timeout and public fallback, two executions, `reap()` beside them, reconnection | two transactions that can execute never share a nonce |
| WebSocket lifecycle | events of old and new sockets in any order, refusals during the rendezvous, silence, attempts that fail at each step | one reconnection flight, no dead end, no stale listener, CONNECTED is true |
| scan loop | overlapping block events, failures at every await, reconnection in a scan | one scan at a time, the manager in use is not replaced, the mutex is released, blocks are read |
| contract | callbacks between untrusting contracts, short loans, partly filled swaps, rounding, a revert at any step | the source is paid once and exactly; prior funds survive; at least the minimum profit, or nothing happened |
| tracker | polls that overtake each other, stale answers, replacements | terminal states are final and true |
| snapshot guards, search, requote | the chain moves at every await, single reads fail and leave old state behind, a V3 leg is not read again | what is sent was re-read in the state the search used, every state behind its minimums is recent, what is mined gains |
| V3 quote engine | words and ticks that were not read, empty ranges, word edges, roundings in both directions, a fee that is not the pool's | quoted at no less than its own fee the pool pays the quote; price, tick and liquidity agree |
| submission gates | divisions that round in different directions at three places, a loan's fee that the contract computes otherwise | the contract's profit check covers the minimum output; an unmoved pool passes it; an approved trade's net pays its gas |
| accounting | replaced transactions, mixed-up receipts, transfers across the balances, reconciliation before the result is known, records a caller makes up | totals of what `pnl.js` recorded are what the wallet earned; a deviation from such a record is true |

## 2. Modules

| module | models | extends |
|---|---|---|
| `NonceJournal` | the journal: memory, file, failing writes, restart | |
| `NonceManager` | every operation of the manager, with its journal calls | `NonceJournal` |
| `NonceLifecycle` | executions, `reap()`, recovery, crash, reconnection, chain and relay | `NonceManager` |
| `NonceOwnership` | the abstract promise about nonces | |
| `WsLifecycle` | `createWsLifecycle()` and the sockets it is handed | |
| `ScanLoop` | `main()`, `scan()`, `runHttpPollingLoop()` | |
| `TransactionTracker` | the tracker's state machine and concurrent `poll()` | |
| `FlashLoanArbitrage` | the contract's transaction and its callbacks | |
| `ExecutionGuard` | a scan from its reads to the transaction: snapshot, search, re-validation, requote, simulation | |
| `V3Quote` | `getAmountOutV3Exact()` and the pool that executes its input | |
| `TradeGates` | the requote's arithmetic and the gates of `executeOpp()` | |
| `QuotedTrade` | a trade whose selling pool is quoted by `V3Quote` and passes `TradeGates` | `TradeGates`, `V3Quote` |
| `Ledger` | `recordPnL()` and `reconcile()` with their totals | |
| `*Proofs` | the theorems about the module of that name, and about the modules it extends | that module, `TLAPS` |
| `MC*` | the instance of a module that TLC checks | that module |

### The nonce family

`mem` and `disk` are the journal's `records` and its file; a record is its
lifecycle state and its hash.  Every journal operation has a parameter `ok`:
whether `_save()` succeeded.  If it did not, `mem` has changed and `disk` has
not, which is what `_transition()` before `_save()` does in the code; a later
successful write then stores all of `mem`.  A call the code rejects changes
nothing.

`NonceManager` keeps the fields of the constructor.  A key of `pending` maps to
a hash, to `NoHash` (a tombstone: sent, hash unknown) or to `NoSlot`.  `Granted`
tells a `reserve()` that returns from one that throws after having taken the
nonce.  Answers of `getNonce("pending")` are parameters.

In `NonceLifecycle` an execution is at `reserved`, `approved`, `private`,
`fallback` or `public`; each action is the code between two awaits.  `Approve`
and `Send` are apart because the process may die between the journal write and
the send.  `atRisk` is the truth the bot cannot see: which sent transactions of
a nonce can still execute or did.  `Accepted` with `NoHash` covers every
ambiguous answer (timeout, unknown, accepted without usable hash).

Modelling assumptions about the environment:

- what a node or relay reports as refused is refused, and the evidence an
  operator gives to `releaseDropped()` is true;
- no other software uses the wallet; a pending count is never ahead of the
  transactions that exist, and arbitrarily far behind;
- a crash is a crash of the process: a file that was renamed into place stays;
- one manager at a time: two processes on one journal file are not modelled.

`Executors = {e1, e2}` is more concurrency than `scan()` allows; it stands for
the contract "CONCURRENT-SAFE" that `executor.js` states for itself.

`NonceOwnership` says what all this is for: each nonce is free, held, risked or
spent; it is granted only while free and put at risk only by its holder.
`OwnershipPromise` is that specification under the mapping `Status`, `Using`.

`MgrSpec` is the manager and its journal without the executor: any caller makes
any call in any order, and `RecoverCall` are the journal calls of `recover()`.

### WebSocket lifecycle

Sockets are numbered in the order `pickWsProvider()` returns them; the code's
generation counter is the number of the current socket.  `attempt` says at
which await `attemptConnect()` is suspended; `wire` and `sub` are the connection
and the subscription under a socket.  A socket `error` that meets neither a
listener nor a guard goes into `uncaught`, which ends the process (`Running`);
0 stands for a socket that `pickWsProvider()` still tries.  The watchdog
outlasts the rendezvous of an attempt, as the code's default timeouts do.

### Scan loop

Every await of `scan()` is a stage.  Blocks are two flags: `unseen` (the next
`getBlockNumber()` or event shows a new one) and `unread` (no snapshot was taken
since).  `using` is the manager an invocation handed to the executor.  `Init`
chooses between the WebSocket and the HTTP loop, as `main()` does; the loop
keeps the provider it was given (`LoopProvider`).

### Transaction tracker

A poll is suspended at the network check, at the receipt request, or with an
answer in hand that is applied later; the record may have changed in between.
An answer is a true receipt, `null`, `"foreign"` (another transaction's) or
`"unusable"`.  A transition that is not allowed throws and changes nothing.

### Contract

A transaction is the sequence of steps its calls take; `stage` says whose turn
it is.  `Callback` up to `Repay` is the body of `pancakeCall()` and `_dodoCall()`,
which differ only in what they pay back (`Owed`).  `active` holds the `active*`
variables, `saved` the state a revert restores, whose balances are the initial
balances the code carries in its callback data.  `Revert` stands for every
failing `require()` and every refusal by another contract, so a guard of an
action is a `require()` that passed.  The arguments (`Calls`) have passed the
checks both entry points make on them; `CheckLeg` is kept because the two legs
must fit together.  A V3 pool sends its output, then asks for its input, of
which it may take less; canonical pools, which `_checkLeg()` insists on, never
ask for more.  Fees of the pair are the code's 9975/10000.

### Snapshot guards

`chain` is the state of every pool at each block; an await is a point where
`NewBlock` may come.  A pool's state is one value for everything a quote depends
on, and `Net` is the result of the best borrow for a pair of such states, so
that the search over amounts is a table.  Each read of a venue is one event and
may fail, which leaves the venue's old fields.  `shallow` stands for what
`readState()` writes, `deep` for the `v3State` that only `enrichV3Venues()`
writes; `Input` is the one `venueOutput()` quotes from.  A fingerprint is the
value itself with the form it was computed from: the hash is taken to be
injective.  `Margin` is what the slippage tolerance takes off the net result
(its arithmetic is in `TradeGates`).  The transaction is included behind others
that may have moved the pools in any way (`Include`).

### V3 quote, gates and the quoted trade

`V3Quote` keeps the loop's variables in `swap` and makes one iteration per step.
A bitmap is the set of initialized ticks of a word that was read; `msb`/`lsb`
are the largest and smallest of it.  The table of square-root ratios, 2^96, the
256 bits of a word and 10^6 are parameters, so that small numbers round as often
as large ones; uint256 does not overflow (`getNextSqrtPriceFromInput()` has a
branch for it).  After the quote the same pool executes the same input
(`Executes`, external: it knows all words and goes on through empty ranges), and
then takes the output back.  The pool takes its own fee; the loop is given
`args.fee`, which is that fee or `DefaultFee` (`Fees`): `venueOutput()` passes
`feeTier ?? 500` (profit.js 47), and discovery writes the tier as `feeUnits`
(scanner.js 166).

`TradeGates` has the arithmetic of `execution-safety.js` and `execution-cost.js`
and the order of the gates in `executeOpp()`.  `QuotedTrade` puts both in a row:
the V3 quote of the selling leg becomes the requote's output.  Other kinds of
pools quote any amount.

`flashFee` is the bot's fee of a V2 loan, `owed` the repayment the contract
computes, `feeGap` what lies between them.  The executor puts `minOut` on every
leg (executor.js 28-41), but `_execLeg()` hands it on to V2 routers only
(FlashLoanArbitrage.sol 1277); what guards the output of a V3 or DODO selling
leg is the profit check after the repayment.  The properties of a trade speak
of that check.

### Ledger

`Mine` is the chain; `RecordPnL` gets a receipt of any mined transaction, or
none, and balances that other transfers may have crossed; `Reconcile` compares
with whatever record exists by then, or with one its caller made up (`Claims`),
of which the code checks only the hash (reconciliation.js 149-153).  The code
names `PnLTracker` as the source of either; the ghost `claimed` tells them apart.
Both ledgers keep the first record of a hash.

## 3. Runs

Type invariants are proved, and part of every inductive invariant; the runs
spend their time on the properties below.

| run | checks | bounds, and why they are enough |
|---|---|---|
| `manager` | `SentNeedsEvidence`, `ConfirmedIsForever`, `NoReserveConflict` under arbitrary calls, failing writes, recovery and restarts | 3 nonces and a cap of 2: saturation, a middle slot, a gap; one record's failed write is flushed by another's success |
| `lifecycle` | `OneTransactionPerNonce`, `WriteBeforeRisk`, `ReleasedOnProof`, the refinement `OwnershipPromise` | 2 nonces, 2 hashes, 2 executions, relay and public fallback, one crash or reconnection at any step.  Two hashes are what a double send of one nonce needs |
| `lifecycle_live` | `MinedSlotIsReleased`, `RecoveryEnds`, `ConfirmedOnlyIfMined` | 2 nonces, 2 hashes, a manager that saturates at one slot, reconnections that may lose the journal.  The first is conditional on `reap()` being started again and again |
| `ws_lifecycle` | `SingleFlight`, `OnlyCurrentListens`, `ConnectedMeansSubscribed`, `AttachedErrorsCaught`, `DeadConnectionNoticed`, `ReconnectionEnds` | 3 sockets: a current one, one retired with guards, and a third that replaces a failed replacement |
| `scan` | `OneScan`, `ManagerInUse`, `MutexReleased`, `BlocksAreRead` | 2 overlapping calls, 3 providers, a back-off after 2 errors |
| `tracker` | `TerminalIsFinal`, `FinalMatchesChain`, `DroppedIsProved`, `MinedIsNoticed` | 2 records, 2 transactions of one nonce, 2 concurrent polls: one poll overtakes the other, one record replaces the other.  The last is conditional on an owner that polls the record |
| `flash_loan` | `IdleIsClean`, `PriorFundsSafe`, `RepaymentIsExact`, `EndsWhole` | loans of 1 (the fee rounds up) and 399 (it divides exactly), amounts on both sides of what they cost, 2 V3 pools, both sources, prior funds of 0 and 1 of either token |
| `execution_guard` | `SentWasRevalidated`, `QuotesAreRecent`, `GuardAgrees`, `MinedIsGain` | 2 pools, one of them V3, 4 states with an empty one, a profit too good, one at the margin and one between; 3 blocks and an age limit of 1, so that reads, re-validation, requote and inclusion can each meet another block |
| `ledger` | `TotalIsEarned`, `DeviationIsTrue` | a transaction and its replacement, a third in another token with a loss; a loan, and a transfer in either direction; three records a caller may make up, with a result, in another token, and reverted |
| `quoted_trade` | `QuoteIsPaid`, `SwapStateAgrees`, `RoundTripGainsNothing`, `ProfitCheckPasses`, `ProfitCheckSuffices`, `ApprovedPays` | liquidity in one range, with a gap, overlapping, and far apart; every price, pools of two fees, one below and one above the default, quoted at their own and at the default, five inputs, both directions, at most one word and one tick not read, words of two ticks so that a swap leaves several; amounts up to 50 with a scale of 10, so that every division rounds |

Deadlock is checked except where the system may really stop: `ws_lifecycle`
(sockets used up, or the process ended by an uncaught error), `tracker` (all
transactions decided), `ledger` (every transaction recorded), `quoted_trade`
(the trade was approved or rejected).

Runs that find a disagreement between the code and what its comments say:

| run | property | what the counterexample shows |
|---|---|---|
| `reconnect_reuse` | `OneTransactionPerNonce` | `init()` of a reconnection throws after the new manager was installed (index.js 668-690); the bot goes on without a journal and grants a nonce whose transaction can still execute |
| `scan_dead_provider` | `DeadProviderReplaced` | with a dead provider every scan throws before it reaches the health check (index.js 658) that would replace it |

Observations made while modelling that no run states.  Connections and scan:

- A socket that errs before `attach()` has no `error` listener: the first one
  while `main()` initialises (index.js 510-736), and each candidate of
  `pickWsProvider()` (rpc.js 51-59).  index.js 54 promises "no uncaught
  exception".  `CandidateError` and `SocketError` before `Start` are in the
  model; `AttachedErrorsCaught` therefore speaks of attached sockets.
- The HTTP polling loop keeps the provider it was given at start (index.js 741,
  469); a reconnection replaces only `main()`'s variable (664), although 666-667
  say the re-binding is there so that no state of the dead connection is kept.
  `BlocksAreRead` therefore says "while its provider lives".

Nonces and tracker:

- nonce.js 608 says `reap()` is called in every scan.  Its only call (index.js
  651) follows an execution attempt: a scan that finds nothing to execute, or
  whose execution throws, never gets there, and mined slots wait for the next
  opportunity.  Repeated calls are therefore a premise of `MinedSlotIsReleased`,
  not fairness.
- Tombstones leave `pending` by `releaseDropped()` or a restart only.
  nonce.js 629-630 says reconcile and resync release them; they do not touch
  `pending`.  After `maxPending` ambiguous answers `reserve()` returns null.
- A nonce rolled back below a pending one is never granted again: the resync of
  `reap()`, "against persistent gaps" (nonce.js 678), takes the maximum of
  `next` and the pending count (689) and so only moves forward.  Later
  transactions wait for the missing nonce.
- executor.js 597-598 says a tombstone is journalled SUBMITTED_PUBLIC; without
  a hash `commit()` writes UNKNOWN.
- `poll()` says it never throws on a terminal state (tx-tracker.js 426-427),
  but a poll that was overtaken ends in `transition()` from a terminal state,
  which does (122-123).  The record is unharmed.
- Nothing in `bot/` calls `TransactionTracker.poll()`: the bot waits for its
  receipts in `tracker.js`, which gives up after a timeout.  `MinedIsNoticed`
  is therefore about whoever owns a record and polls it.
- `poll()` accepts a receipt without a hash (tx-tracker.js 471-472).  No node
  answers so, and the model has no such answer.
- `replace()` is for a "DIFFERENT txHash" (tx-tracker.js 250-251) and never
  compares the two hashes (276).

Reads, search and quotes:

- index.js 588 says every venue is stamped "with the exact snapshot block it was
  read at"; 589 stamps those too whose read failed and that keep older state.
  `validateSnapshot()` accepts it; `fresh.js` reads it again, and
  `SentWasRevalidated` holds.
- executor.js 119-121 says the final requote works on fresh state; it calls
  `readState()` only (129), while a V3 venue is quoted from `v3State`, which
  `enrichV3Venues()` renews.  The two legs may come from different blocks, each
  of them recent (`QuotesAreRecent`).
- profit.js 232 calls `logger.warn()`, but the file has no `logger`: an
  opportunity above the plausibility limit, which 225-229 promise to keep, ends
  the search with a ReferenceError, and the scan loses all it had found
  (`Throws`).
- A venue once marked dead by an empty read (scanner.js 246) stays so until
  `refreshVenues()` makes new objects.
- lib/v3.js 272-273 says the traversal goes on "exactly like the pool on chain".
  It ends at a word edge that is reached without consuming anything and is no
  initialized tick (301), for instance in an empty range, where the pool goes
  on.  The quote is then too small, never too large (`QuoteIsPaid`).
- profit.js 36-37 calls a V3 quote identical to QuoterV2's.  `venueOutput()`
  passes `feeTier ?? 500` (47), but discovery stores the tier as `feeUnits`
  (scanner.js 166) and nothing sets `feeTier`, so every V3 pool is quoted at 500,
  of the tiers 100, 500, 2500 and 10000 (config.js 42).  A quote for the tiers
  2500 and 10000 promises more than the pool pays; one for 100 promises too
  little, but never more than the pool pays; only one for 500 is exact.
  `QuoteIsPaid` and `ProfitCheckPasses` therefore have the premise
  `args.fee >= pool.fee`; without it TLC finds a quote of a dearer pool that is
  not paid.  A trade on such a quote is lost to the simulation or the profit
  check, not sent at a loss (`MinedIsGain`).
- The per-leg `minOut`, "NEVER a trivial 1" (executor.js 33), is enforced on V2
  router legs only; V3 and DODO legs are left to the profit check
  (`ProfitCheckSuffices`).
- executor.js 119-121 calls the requote's net profit exact.  The bot takes
  floor(borrow * 25 / 10000) as the fee of a V2 loan (execution-safety.js 105),
  the contract repays ceil(borrow * 10000 / 9975) (FlashLoanArbitrage.sol
  541-551): a loan of 200000 is counted as 200500 and repaid with 200502.  The
  difference, `feeGap`, is some six millionths of the loan.  `ApprovedPays`
  speaks of the bot's net; and at zero tolerance a trade on an unmoved pool would
  fail the profit check by that gap, which is why `ProfitCheckPasses` asks for a
  slippage margin that covers it.

Accounting and contract:

- reconciliation.js 10 says realized results come from `PnLTracker` alone.
  `reconcile()` takes `data.realizedRecord` from its caller, compares only its
  hash (149-153) and stores `PnLTracker` as its source (191), also for a
  transaction `PnLTracker` never saw.  A deviation from such a record, and a
  total that adds one, are whatever the caller said; `DeviationIsTrue` and
  `TotalIsEarned` speak of the others (`Claimed`).
- reconciliation.js 322-323 says unknown records "never contribute to known
  totals"; 390-395 subtract the expectations of all records of the token from
  the results of the comparable ones.
- pnl.js 359-360 says UNKNOWN records are excluded from known totals; 391 adds
  their gas when the caller declared it.
- A trade reconciled before its result is known stays UNKNOWN: the second call
  returns the first record (reconciliation.js 143).
- No module of the bot calls `pnl.js` or `reconciliation.js`; tests do.
- When leg B is a V3 pool that is filled only in part, the rest of the
  intermediate token stays in the contract.  It is not in the profit
  (FlashLoanArbitrage.sol 364-377) and leaves by `rescueToken()`; `EndsWhole`
  therefore says "at no less".
- A trade whose legs are one V3 pool passes `_checkLeg()` and always reverts in
  leg B's callback (`LegsUseDistinctPools`, in the theorem `CallbacksAreBound`).

## 4. Fairness

- `NonceLifecycle`: executions go on (their requests time out); a `reap()` that
  was started goes on, and the node that is asked again and again for the receipt
  of a mined transaction eventually shows it (strong fairness); the chain mines
  the account's next transaction if it is there to be mined; recovery has no
  unbounded wait.  That `reap()` is started is not assumed, for it needs an
  opportunity each time: `[]<><<ReapStart>>_vars` is the premise of
  `MinedSlotIsReleased`.
- `WsLifecycle`: timers fire; `pickWsProvider()` ends (5 s per URL) and succeeds
  again and again; microtasks run; the watchdog of a socket on which no block
  can come any more fires.  No fairness on blocks, silence or errors.
- `ScanLoop`: every await settles because requests and sleeps time out; a
  living provider answers again and again; some endpoint of `pickProvider()`
  works; blocks and time go on.  No fairness on `Die`.
- `TransactionTracker`: the requests of a poll end, and a node shows the right
  network and an existing receipt again and again.  That a record is polled is
  the premise `Polled(id)` of `MinedIsNoticed`, not fairness.

Liveness properties are leads-to formulas that end when the process does or
when a bound (`MaxSockets`, `MaxProviders`) is used up.

## 5. Proofs

All proofs are checked by TLAPS without assumptions beyond the named `ASSUME`s
of the modules.  Most say that bounds are natural numbers and null values are no
hashes; `ExecutionGuard` assumes that a drained pool pays nothing.  Those of
`V3Quote` say what a pool is: ratios that grow with the tick (`RatiosGrow`), a
price in their range whose tick it has, or one below if that tick has just been
crossed downwards, initialized ticks on the spacing, a liquidity that is the sum
of the positions at the tick and is negative at none (`PoolStates`), and positive
scales (`Scales`).  The made-up records of `Ledger` are records (`ClaimTypes`).
TLC evaluates all of them on the instances of the runs.

| module | theorem | says |
|---|---|---|
| `NonceLifecycleProofs` | `JournalConsistent`, `EvidenceRequired`, `ConfirmedForever` | the journal's properties for any number of nonces and hashes |
| | `TypeCorrect` | `[]TypeOK`, with and without lost journals |
| | `NoncesAreSafe`, `RiskIsRecorded`, `SlotsReleasedOnProof` | `OneTransactionPerNonce`, `WriteBeforeRisk` and `ReleasedOnProof`, if `~ReconnectInitMayFail` |
| | `LifecycleKeepsPromise` | the refinement `OwnershipPromise`, if `~ReconnectInitMayFail` |
| | `PromiseExcludesSharing`, `ExecutionsNeverShare` | what keeps that promise never has two executions on one nonce (`UsedByOne`); hence the bot has not |
| | `ConfirmationsAreTrue` | `ConfirmedOnlyIfMined`, even with `ReconnectInitMayFail` |
| | `ManagerUsesJournal`, `NoConflicts` | the manager under arbitrary callers implements `JournalSpec`, and `NoReserveConflict` |
| `WsLifecycleProofs` | `LifecycleTypes`, `OneFlight`, `StaleSocketsAreMute`, `ConnectedIsAlive`, `RefusalIsNoticed`, `ErrorsAreCaught` | the safety properties for any number of sockets |
| `ScanLoopProofs` | `ScanLoopTypes`, `MutualExclusion`, `ExecutionKeepsManager` | for any number of overlapping calls; errors are not counted beyond `MAX_ERRS`, and provider and manager are replaced together |
| `TransactionTrackerProofs` | `TrackerTypes`, `FinalStatesAreTrue`, `DroppedOnlyOnProof`, `TerminalForGood` | for any number of records, transactions and polls |
| `FlashLoanArbitrageProofs` | `ContractTypes`, `PriorFundsAreSafe`, `RepaidExactly`, `CallbacksAreBound`, `TradesEndWhole` | the contract's properties, `IdleIsClean` among them, for any pools, loans and amounts |
| `ExecutionGuardProofs` | `ExecutionGuardTypes`, `SentIsRevalidated`, `SentQuotesAreRecent`, `SearchPassesGuard`, `MinedTransactionGains` | the guard's properties for any venues, states, price table, margin and number of blocks |
| `QuotedTradeProofs` | `QuoteTypes`, `SwapStatesAgree` | `SwapStateAgrees` for any positions, ratios, fees, word size and scale |
| | `QuotesArePaid` | `QuoteIsPaid`: the loop against the pool, at no less than the pool's fee, over any number of ticks |
| | `RoundTripsGainNothing` | `RoundTripGainsNothing`: every rounding of a swap favours the pool |
| | `UnmovedPoolsPassTheCheck` | `ProfitCheckPasses`: what the pool pays, less what the contract repays, is at least `minProfit` |
| | `GateTypes`, `ProfitCheckIsEnough`, `GasLimitHasItsBuffer`, `ApprovedTradesPay` | the gates' arithmetic for any amounts, prices, fees and tolerances |
| `LedgerProofs` | `LedgerTypes`, `DeviationsAreTrue`, `TotalsAreEarned` | the ledgers' properties for any number of transactions and tokens, and any records callers make up |

The arguments:

- **Journal.**  `JournalInv`: a record claims a hash exactly where its state
  says so, in both copies; and where the file is confirmed, memory says the
  same.  Without the last part a failed write followed by another record's
  success could overwrite a confirmed one.
- **Lifecycle.**  `OneTransactionPerNonce` alone is not inductive.  `IndInv`
  adds that a busy execution owns its nonce in `reserved`, in memory and in the
  file, that nothing but what it is sending is at risk (`HoldersOwn`), that two
  executions differ (`HoldersDiffer`), that memory knows all risk
  (`MemoryKnowsRisk`), that nothing at or above `next` is at risk
  (`FreshAboveNext`), and that a slot stands for its one transaction
  (`SlotRisk`).  The step that needs most is `Bind`: the file blocks everything
  at risk because of `WriteBeforeRisk`.  The run `reconnect_reuse` shows the
  hypothesis `~ReconnectInitMayFail` is needed: it is the code's gap.
  `ConfirmedOnlyIfMined` needs neither: `ConfInv` shows that only `terminal()`
  with the receipt of the record's own hash confirms, in every state.
- **Refinement.**  One lemma per action says which step of `NonceOwnership` it
  is (`...Refines`).  Beyond `IndInv` it needs `GrantedNotBlocked`: a refused
  nonce becomes free only because nothing reserved is also blocked.
  The abstract specification is worth what follows from it: `UsedByOne` is
  inductive there, because a nonce that somebody uses is never free.
- **Manager.**  `NoReserveConflict` is not inductive, since a rollback or release
  slides `next` back onto a nonce.  `MgrInv` adds that every reserved nonce's
  record is RESERVED or APPROVED and every slot's is submitted or UNKNOWN, from
  which the journal allows the transition to a reusable state; `MgrGiven` is the
  step that gives a nonce up.
- **WebSocket.**  `WsInv` adds to the properties where the lifecycle stands
  (`Phases`), what an attempt in its rendezvous has put in place
  (`Rendezvous`), and that a socket that can still err has a listener or a
  guard (`Covered`).
- **Scan loop.**  Mutual exclusion with `executing`, and that a manager in use
  belongs to a scan between `executing` and `reaping`, while only a scan in
  `picking` replaces it.  The error count reaches its maximum only in the
  back-off (`ErrorsBounded`), which the mutex makes the only scan.
- **Tracker.**  `TrackInv`: records and chain agree (`RecordsMatch`), a receipt a
  suspended poll holds is still true (`AnswersHold`, receipts are permanent),
  and what is gone is never mined (`GoneNeverMined`).
- **Contract.**  `IndInv` adds to the properties what the transaction is bound
  to (`Bindings`), that the data hash admits one callback (`PaidOnce`), and what
  is in hand beyond the prior funds before each step that spends (`InHand`).
  `CeilDivIsLeast` is the arithmetic of the repayment; `SamePoolRefused` is the
  case in which the first target matches for both legs.
- **Guard.**  `GuardInv` follows an opportunity through its stages: between two
  awaits nobody else touches the venue objects, so the fingerprint in the
  opportunity is that of the state the quote used; a venue checked equals the
  chain at the fresh block; and the requote either renews a state at a block in
  the window or leaves the one that was validated.
- **Gates.**  The lemmas about `\div` (a floor is the largest, a ceiling the
  least) give each property without knowing any constant.  `LoanFee` bounds the
  contract's repayment by the bot's fee from below, and from above by less than
  two units and (FlashFeeBps / BPS)^2 of the loan more.
- **Iteration.**  `Agrees` is what one iteration keeps (`MoveAgrees`): the price
  lies between the ratios of its tick and the next, the liquidity is
  `LiquidityAt` the tick, and nothing is negative.  It needs that no initialized
  tick lies between a state and the `TickNext` its word shows, which is the
  arithmetic of words and bits, and that crossing a tick changes `LiquidityAt`
  by exactly that tick's net.
- **Loop and pool.**  `Run(r, n, down)` is a run of n moves of the pool.
  `LoopFollows`, whose premise is a fee of the loop that is at least the pool's:
  where such a run from the state the loop was given ends, it has at least the
  loop's input left, exactly as much at the pool's own fee, and is otherwise in
  the loop's state (`Covers`); or both are at the limit of prices and the loop
  goes round without effect.  With sufficient reads an iteration of the loop is
  a move of the pool at the loop's fee (`ReadsShowThePool`).  Against the same
  step with no less input and no higher fee (`StepCovers`), it gives no more,
  and where it reaches its target, so does the other, which keeps no less
  (`CoversMoves`).  Thus the run gets one longer.  When the loop returns, that
  run lies ahead of the pool (`PoolFollows`): the pool is at its first state,
  the quote is at most the output at its end, and if the loop used its input at
  the pool's fee the pool stops there.  Each move of the pool consumes one state
  of the run.  `V3Inv` is the conjunction, with the types.
- **Round trip.**  A step is measured by what the positions hold of either token
  at its price (`Held`, up to a constant: the liquidity times the price or its
  reciprocal, less the same of every position at its own ticks, multiplied by
  the common multiple `Unit` of all prices so that it is an integer).
  `MovePays`: a step adds to the holdings of its input no more than it takes,
  and gives no more than it removes.  `Comparable`: of two states of one pool,
  the one that holds no more of one token holds no less of the other.  `TripInv`
  carries the two sums through both swaps.  When the second has used its input,
  the output token's holdings are at most the first, hence those of the input
  at least the first, and it has given back no more than the first has taken.
- **Ledger.**  `LedgerInv`: a record that knows a result knows the chain's, and
  stands in the token of its transaction, and so does what was compared with it.
  The totals of both sides are then sums of equal terms.  Records that a caller
  made up are left out by `claimed`; they disturb no other record.
- **Sums and iterations without induction principles.**  The library's induction
  theorems take an operator as a parameter, which none of the provers can
  instantiate.  `QuotedTradeProofs` therefore argues by a minimal
  counterexample: the set of them is an ordinary set, and
  `FS_StrictSubsetOrderingWellFounded` or `NatLessThanWellFounded` gives it a
  least member.  A fold of the community modules is `CHOOSE` of a function that
  solves an equation; the lemmas show that exactly one exists, and with that
  `MapThenSumSet` may lose any one element and agrees on equal terms.

Model-checked only: liveness, that is `MinedSlotIsReleased`, `RecoveryEnds`,
`DeadConnectionNoticed`, `ReconnectionEnds`, `MutexReleased`, `BlocksAreRead` and
`MinedIsNoticed`; the prover has no rules for fairness, since ENABLED is out of
its reach.  Every other property of a passing run is a theorem.

## 6. Not modelled, and why

- `trackTransaction()` of `bot/tracker.js`: one loop over local variables, ended
  by a receipt or a timeout.
- `bot/broadcast-integrity.js`: stateless comparison of signed bytes with the
  approved request.
- The HTTP request of `bot/bloxroute.js`; its three outcomes are in
  `NonceLifecycle`.
- The constant-product and DODO formulas of `lib/amm.js` and `lib/dodo.js`, and
  `getSqrtRatioAtTick()`: pure functions of 256-bit numbers; what depends on
  them is parameterised by a table (`Net`, `Ratio`).
- The ternary search over borrow amounts in `profit.js`: only its result, the
  best net of a pair, reaches the guard.
- Record ids of the journal (`_nextId`, `_restoreSeq`), which no decision reads,
  and the refusal of malformed files; evidence fields and `markReplaced()` of
  the tracker; the gas columns and basis points of the ledgers.
- Two processes on one journal file; power failures that lose a renamed file.
- Configuration, logging, deployment scripts, contract mocks, the sweeper, wire
  formats and texts.
