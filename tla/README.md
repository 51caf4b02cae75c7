# Verification of the Tron bridge daemon

This directory holds a TLA+ development of `fx-tron-bridge`, the daemon that
an oracle's operator ("bridger") runs between the Tron chain and f(x)Core:
specifications, TLC models and TLAPS proofs. Paths are relative to the
repository, e.g. `bridge/oracle.go`.

## 1. The system

One process, one goroutine that matters and one that can kill it.
`cmd/main.go` reads flags and keys, opens the clients, waits until both chains
move, starts the metrics server in a goroutine and calls `bridge.Run`, which
never returns unless something fails.

```
   Tron node                     daemon                       f(x)Core node
  (contract events)    main -> WaitNewBlock -> Run -> tick, tick, ...
        |                          |
        | BlockNumber,             |-- bridgeEvent (Oracle) ---> claims, by 100
        | QueryBlockEvent  ------->|
        |                          |-- confirm (Singer) -------> confirmations
        |                          |
                          lastBlockNumber.info
```

| Component | State | Operations | Correct if |
|---|---|---|---|
| Event relay, `bridge/oracle.go` | `startBlockNumber`, `lastEventNonce`, the messages of a tick, the file `lastBlockNumber.info` | `NewOracle`, `getLastBlockNumber`, `bridgeEvent`, `readLastBlockNumber`, `saveLastBlockNumber` | every settled event of the contract is claimed once, in nonce order; nothing unsettled is claimed; no restart loses an event |
| Signer, `bridge/singer.go` | `gravityId` | `NewSinger`, `confirm`, `singerOracleSetConfirm`, `singerConfirmBatch` | every pending oracle set and batch gets this bridger's signature, oracle sets oldest first, and neither keeps the other waiting |
| Batch sender, `bridge/fx_tron_bridge.go` | none | `BatchSendMsg`, `sendMsg` | each message is in exactly one chunk, chunks go out in order, the first error stops the rest |
| Startup wait, same file | local heights | `WaitNewBlock` | it ends once both chains have moved, and not before the nodes of both have given two heights |
| Scheduler, `bridge/scheduler.go` | none | `Run` | the two halves of a tick each get their turn whatever the other one meets |
| Launch, `cmd/main.go`, and keys, `internal/utils/key.go` | the keys | `main`, `NewFxTronBridge`, `DecryptFxPrivateKey`, `DecryptEthPrivateKey` | nothing is sent before the wait is over |
| Metrics server, `prometheus.go` | the port | `StartBridgePrometheus` | it does not outlive the daemon; two daemons do not run side by side |
| Tron client: blocks and events, `client/tron_bridge.go` | connection | `BlockNumber`, `QueryBlockEvent`, `QueryOracleSetUpdatedEvent` | a block's events are those the contract emitted in it, in order, and the two readers, each with its own filter, agree |
| Tron client: contract queries, same file | none | seven getters | the answer is what the contract holds |
| Tron client: transactions, `client/tron_client.go` | none | `SuggestGasPrice`, `EstimateGas`, `GetLimit`, `TriggerContract`, `BroadcastTx`, `WithMint` | the limit covers the energy; a mint in time is seen |
| f(x)Core client, `fxchain/` | connection | one wrapper per query | forwards |
| Claims and hashes, `contract/fx_bridge_event.go` | none | `ToMsg`, `EncodeOracleSetConfirmHash`, `EncodeConfirmBatchHash`, conversions | the claim says what the event says |
| Binding, address prefix, version, the rest of metrics and logging | | | not modelled, see section 8 |

The parts share no memory to speak of: they meet in the two chains. What is
hard here is therefore not locking but time. Between two calls of a tick both
chains move; the tip of Tron may be replaced; a transaction whose broadcast
failed may be executed a minute later; a tick that fails is started over from
whatever it had made permanent; a process that dies keeps one number in a file
that it may have half written; and the daemon decides where to go on from three
heights (the file's, f(x)Core's, the operator's) that were written at different
times. `PROJECT.json` lists these hazards one by one, at their lines.

## 2. Modules

| Module | Models | |
|---|---|---|
| `TronChain` | the Tron chain as the client shows it | external; the uint64 subtraction and the queries are code |
| `OracleRecord` | the status flag of the oracle record, which both parts read | external |
| `FxCore` | f(x)Core as the relay sees it: claims, claim height, late transactions | external, `EXTENDS OracleRecord` |
| `Oracle` | the event relay | `EXTENDS TronChain, FxCore` |
| `EventRelay` | what the relay promises, with no blocks, ticks or calls | abstract specification |
| `FxRequests` | f(x)Core as the signer sees it: requests, confirmations, `gravityId`, the registered key | external, `EXTENDS OracleRecord` |
| `Singer` | the signer | `EXTENDS FxRequests` |
| `SigningDuty` | what the signer promises, with no ticks, transactions or keys | abstract specification |
| `Bridge` | `Run`: both parts in one loop with one oracle record | `EXTENDS Oracle, Singer` |
| `Startup` | `WaitNewBlock` | |
| `Launch` | `main` up to and after `Run`, keys, metrics server, one launch after the other | `EXTENDS Startup` |
| `BlockEvents` | the two readers of a block, log by log | |
| `ContractQueries` | the getters of the contract's state, that of the id byte by byte | |
| `TronTx` | a transaction from its price to its receipt | |
| `TronCalls` | the two together | `EXTENDS ContractQueries, TronTx` |
| `MCOracle`, `MCSinger`, `MCBridge`, `MCBlockEvents`, `MCTronCalls` | constants for TLC | |
| `SequenceFacts`, `OracleProofs`, `SingerProofs`, `BridgeProofs`, `LaunchProofs`, `BlockEventsProofs`, `TronCallsProofs` | proofs | |

### From the code to `Oracle`

* Every remote call is one action, so everything else may happen between two
  calls. Straight-line code between two calls belongs to the call before it:
  `QueryBlock` is the query, the sort, the filter, the append and the flush
  test; `Advance` is the assignment of `startBlockNumber`, the save, the resets
  and the end of the loop.
* `pc` says which call is next: `nonce` (`LastEventNonceByAddr`), `head`
  (`BlockNumber`), `query` (`QueryBlockEvent`), `send` (the next chunk of
  `BatchSendMsg`, or its return), `idle` between ticks, `scanHead` and `scan`
  inside `getLastBlockNumber`, `down` while there is no process.
* `startBlockNumber`, `lastEventNonce`, `blockNumber`, `batchBlockNumber` and
  `msgs` are the variables of that name. `limit` is `endBlockNumber` in a tick
  and `minBlockNumber` in the scan; `endIndex` is that of `BatchSendMsg`.
  `cacheFile` is the file's number, 0 for none or an empty one. Locals are reset
  when they go out of scope. `imposed` is a history variable: the highest start
  that came from the operator, from the scan or from a file of another bridger.
* The file lies in `$HOME/.tronBridge`, whoever and whatever contract it is for:
  at first it may hold any number of `ForeignCaches`.
* A tick that ends because `GetOracleByBridgerAddr` fails or because of `Online`
  changes nothing: it is a stutter. Every other failing call is `CallFails`.
* `SendUnanswered` is a broadcast that returns an error though the transaction
  is under way; `FxCore!DeliverLate` and `DropLate` settle what becomes of it.
* `SaveOutcomes` is `os.WriteFile` with its error ignored: the old number, the
  new one, nothing, or the first digits of the new one.
* `Crash` happens anywhere. It also stands for the panic and for `NewSinger`
  failing, which `Bridge` tells apart.

An event is its block's height and its kind; its nonce is its position in the
history. Two histories that agree so far agree in all the code looks at. Forks
keep the nonces dense, because the contract counts them.

### From the code to the other modules

`Singer`: `at` says what `confirm` is doing. `oracleSets` and `batch` are the two
queries, each with the signing that follows it; `sendOracleSets` and `sendBatch`
are `BatchSendMsg`. After the oracle sets, in success or failure, comes the
batch (`After`). A signature is the pair of the request and the cached
`gravityId`; f(x)Core accepts it if the id is the one in force, the key is the
registered one and the request is live and unconfirmed. A batch transaction is
accepted or refused as a whole.

`Bridge`: `turn` is the place in `Run`. `RelayTick` and `SignTick` are steps of
the two modules; the turn passes when `pc`, or `at`, is back at `idle`.
`RelaySkips` and `SignSkips` are the ticks that end at the first call.
`ConfirmPanics` takes both parts down. `online` is one variable for both: that is
why `Oracle` and `Singer` are extended, with the names of one part distinct from
those of the other, and not instantiated.

`Startup` and `Launch`: one action per call of the loop in `WaitNewBlock`; the
node of either chain may answer with a height that is one block old.
`tronAnswers` and `fxAnswers` are history variables, the heights given so far.
`stage` is the next step of `main`, or `exited` or `panicked`. A key is given as
a text (the path of a file, hexadecimal digits with or without `0x`, anything
else) with the password of its file and the value of the password flag; the two
`Decrypt` functions say which they take, and decide whether `main` goes on or the
process exits. No property is about the keys: the repository does not say which
forms were meant. `server` is the goroutine of `StartBridgePrometheus`; another
daemon on the host may have its port.

`BlockEvents`: one action per turn of the inner loop. A log has a topic, an
address and whether `UnpackLog` can decode it; `tx` and `log` are the places of
the loops, and `found` the places of what is decoded. The two queries have a
filter each, `SkippedByBlockEvent` and `SkippedByOracleSetUpdated`, as they have
in the code. `Oracle` takes the answer for a set of events or an error; this
module is what that rests on. The filter takes a log if the contract is the one
that is called or the one that has emitted it (`client/tron_bridge.go:45`): an
event that the contract emits in a call of another one is not lost, and a log
with a topic of the bridge that another contract emits in a call of the bridge
(a *stranger*) is taken for an event of the bridge. The properties name the two
sets, `Emitted` and `Strangers`, by who has emitted the log, not by the filter.

`UnpackLog` also accepts a log without data. The event then has no nonce, its
`*big.Int` fields being nil, and `GetEventNonce` panics. The contract's events all
have data, so that takes a stranger too, and is not in the model.

`ContractQueries`: an answer is a sequence of words, or of bytes for the id.
`ReturnCounter` takes all its words for one number and keeps the low bits,
`ReturnAllowance` keeps the whole; `ReturnStatus` unpacks three booleans, each of
which must be 0 or 1, and further words do not matter; `ReturnList` unpacks a list,
whose tokens are one value here; the id is measured and trimmed byte by byte.
What cannot be unpacked is an error (`QueryFails`). Nothing looks at whether the
constant call was executed, so a contract that is not the bridge may answer with
anything, or with nothing.

`TronTx`: one action per method. Integers are `uint64` and `int64` of the width
`I64`. A transaction is its fee limit and the id that the client keeps next to
it; the chain knows it by the hash of what it really contains. `now` is the time
since `WithMint` was called. A poll takes time on its way (`Travel`, at most
`Latency` in all, unless the node hangs, `Hang`); somewhere on it the node looks
for the transaction (`Look`); and only when its answer is there does the pause
begin, which does not know of the deadline. The error path of `EstimateGas` reads
`ConstantResult[0]` without a look at whether there is one
(`client/tron_client.go:85`): `EstimatePanics`.

The daemon makes none of the calls of the last two modules. They are exported
methods of the client, called by the repository's tests and by tools.

## 3. Properties

Safety of the relay:

* `ClaimsAreSettled`: the n-th claim is the n-th event of the contract, in a
  block that can no longer be replaced.
* `OnlySplitBlockSkipped`: an event that is behind the daemon and not claimed
  lies below an imposed start, or in the very block of the last claim. The
  second case is real: `NewOracle` takes `LastEventBlockHeight` for a block that
  is done, but a crash between two chunks may leave a block claimed in part. Its
  remaining events are never read again, since a lower `--start-block-number` is
  ignored (`bridge/oracle.go:37`), and later claims leave a gap. The property
  says that this is the only way to lose an event. A foreign cache file counts
  as an imposed start: what lies below it is lost without a word.
* `SplitForGood` (action): what such a restart has lost stays lost. From then on
  no tick, no crash and no restart, with whatever start block and cache file,
  leads out of it, and nothing is claimed any more: f(x)Core waits for an event
  that the daemon takes for done.
* `CacheIsBehindClaims`: the same of the number in the file, once it is this
  bridger's own.
* `AdvanceSkipsNothing` (action): while it runs, the daemon passes no unclaimed event.
* `ClaimsLeaveNoGap`: the messages of a tick have consecutive nonces.
* `RewindBounded`: an error costs at most a batch of blocks. The bound is
  `BatchBlockLimit + 2`: the counter starts at 0 after `ReadHead` and at 1 after
  a flush, and the test is "greater than".
* `GiveUpMeansAbsent`: the scan of a fresh start reports that there is no oracle
  set update only if there is none in the settled part of its window.
* `ImplementsEventRelay`: refinement of `EventRelay` with `history` the settled
  part of the contract's history, `relayed` the claims, `MaxStep` the chunk size.

Liveness of the relay: `EventuallyRelayed`. If from some time on the process
stays up, the node is not behind what is settled, `Online` is down and no gap
was left by an earlier start (`Healthy`), every settled event is claimed.

Signer: `OldestSetFirst` (no oracle set waits while a newer one has the
signature); `ImplementsSigningDuty` (refinement of `SigningDuty`: confirmed are
live requests only, at most a chunk at a time, the oldest sets first, and never
taken back); `ConfirmsAreCurrent` (action: a chunk is taken only while the
`gravityId` that the process read at its start is the one in force, and no chunk
is empty); `BatchesEventuallyConfirmed` (with nothing assumed of the calls for
the oracle sets), `SetsEventuallyConfirmed`.

Bridge: `ImplementsOracle` and `ImplementsSinger` (the composition refines each
part, so what holds of a part holds in the daemon), `HalvesAlternate` (never do
both parts have messages to send for the one account, whose transactions are
numbered, and the signer never works or panics in the middle of the relay's
tick), `SigningNotHeldBack` and
`RelayNotHeldBack` (neither half starves the other).

Launch: `RunsAfterProgress` (Run begins, and the server listens, only after the
f(x)Core node has given a height and a higher one, and the Tron node two heights,
in this launch), `WaitEnds`, `OneDaemonStays` (a daemon that runs gets the port or
ends).

Block events:

* `AnswersComplete`: an answer without an error has every event that the contract
  has emitted, whoever called it, each once and in order; what else it has is a
  stranger. With the filter narrowed to calls of the bridge it fails.
* `QueriesAgree`: a block that the relay has read never stops the scan, and the
  scan finds in it the oracle set updates that the relay will claim, no others and
  in the same order. It fails when one copy of the filter is changed alone.
* `ReadIffDecodable`: one log that cannot be decoded, the contract's or a
  stranger's, and no other log of the block, keeps a reader there for ever.

Client calls: `BridgeIdRoundTrip` (which ids `StateFxBridgeId` gives back: all that
leave the last byte of the word free; that byte is always dropped; only the answer
of another contract makes it panic), `LimitCoversPriceRise` (below 2^62 the fee
limit covers the energy at a price that has risen by a fifth, and no more),
`NoMintMissed` (a wait that times out has missed only what was minted in the last
pause and the time of two polls before the deadline: the poll that came too early
for it, and the one that the deadline cut off), `WaitBounded`. Nothing is said of
the other getters: they hand on what they were answered.

## 4. Runs

| Run | Configuration | Question |
|---|---|---|
| `relay` | 3 new blocks, 2 kinds, up to 2 events, 2 per block, chunks of 1, a foreign cache file or none | all safety properties of the relay, fresh starts included |
| `chunks` | 3 events in a block, chunks of 2, batches of several blocks, a history of 2 events in one block that may be claimed in part | flushes of several transactions, restarts from what f(x)Core and the file say, within a split block too; the inductive invariant |
| `live` | 2 events, 2 new blocks, chunks of 1 | progress of the relay |
| `offline` | as `live` | violation, see section 6 |
| `young_chain` | window of 4 on a chain of 2 blocks | violation, see section 6 |
| `sign` | 2 oracle sets, 2 batches, 2 ids, chunks of 1 (295 000 states) | order of confirmations, the abstract signer, the inductive invariant |
| `sign_live` | 2 oracle sets, 2 batches, chunks of 2 | progress of batches and of oracle sets |
| `launch` | heights to 4, word of 8, all sorts of key (70 000 states) | the wait, the port, launch after launch |
| `block_events` | blocks of up to 2 transactions and 3 logs, 6 sorts of log (49 000 states) | what the readers of a block answer, and when they never do |
| `tron_calls` | words of 4 bytes and ids of 0 to 5 bytes; 6-bit integers, a deadline of 10, a pause of 3 and a latency of 2 (37 000 states) | the contract queries and a transaction |
| `loop` | 1 event, 1 request of each kind, 2 ids | both refinements of the composition, and that its halves take turns |
| `loop_live` | 1 event, 1 request of each kind | progress of either half while the other fails |

`PROJECT.json` gives for every property of a passing run a mutation of the
model, in the way of a plausible slip in the code, that violates it. The mutated
operators stand next to the originals.

### Bounds

`MaxHead`, `MaxEvents`, `MaxPerBlock`, `MaxPending`, `MaxNonce`, `MaxUnanswered`
and `MaxHeight` bound the environment, not the daemon. The constants of the code
are scaled down (`TronBlockDelay` 25, `TronRestartDelayBlock` 28800,
`BatchSendMsgCount` 100, the batch limit 100, the scan depth 1000, a timeout and
a pause of 3 seconds in `WithMint`): what counts is that an instance has events on
both sides of each limit. One event more than a chunk in one block gives split
blocks; two blocks more than the batch limit give several flushes in a tick; three
blocks beyond the delay give forks that reach into a read range, a cache file above
the restart delay, and a tick that starts over. The word size is the smallest one
above all heights, for a wrapped difference to be as visible as it is with 2^64.
In `tron_calls` the products of prices and energies lie below, at and beyond the
width of an integer, ids end before, at and behind the end of a word, and the
bound of `NoMintMissed` is reached: a pause and two slow polls fit in front of the
deadline. Other contracts answer with no word, with words that are no booleans, and
with more words than were asked for. In `block_events` a log of each sort that the
filter tells apart meets a log of each other sort, in one transaction and in two.
The safety theorems hold for all values, so the bounds matter for liveness and for
what section 7 lists as only checked.

### Fairness

`Run` loops on a ticker, so what needs no remote call is done: weak fairness of
`CheckOracle`, `Advance`, of giving up a send. A remote call that is repeated on
every tick is assumed not to fail for ever (strong fairness), for each block on
its own in the case of `QueryBlock`: without that, one block that cannot be read
stops the relay for good, which is what the code does. There is no fairness of
the chains, of restarts or of late transactions.

Where a run asks two questions under different assumptions the assumption is part
of the property: `BatchFairness` (nothing of the calls for the oracle sets but
that they end), `OracleSetFairness`, and in `Bridge` `SigningFairness` and
`RelayFairness`. `BridgeFairSpec` itself has `LoopFairness` only: every call
returns at some time, with an answer or an error. The code gives its calls no
deadline, so this is an assumption on the nodes.

`Launch`: `main` goes on by itself, the poll of the wait is repeated after its
pause, the goroutine of the server is scheduled. Nothing is assumed of the chains
(`WaitEnds` asks for chains that have moved), of the other daemon or of the
operator. `BlockEvents`: the loops go on (weak fairness), and each query is made
again and does not fail for ever to fetch the block (strong fairness of `Fetch`).

## 5. Assumptions

* `ChainOldEnough`: the chain is older than two delays when the daemon is
  deployed, and its history is settled. Below that, `latestBlockNumber - 25`
  wraps (`bridge/oracle.go:103`).
* A block that is `TronBlockDelay` deep in the longest chain seen is never
  replaced, and the node never answers from below a settled block. That is what
  the constant is for; a node that lags further could show a block as empty.
* f(x)Core records claims in nonce order without gaps, one transaction as a
  whole, and `LastEventNonceByAddr` is the last of them. The code relies on it.
* A block, once it can be queried, has the same transactions and logs in every
  answer (`BlockEvents`); blocks that are replaced are the subject of `Oracle`.
* No other contract emits a log with a topic of the bridge in a call of the bridge:
  `TronChain!EventsIn` has the contract's own events only. `BlockEvents` does not
  make this assumption and shows what depends on it.
* A node is at most one block behind in `WaitNewBlock`, which matters for `WaitEnds`
  only.
* A Tron node that answers a poll of `WithMint` at all does so within `Latency`.
* The bridge contract answers a getter with words of its type.

## 6. Disagreements found

* `Online` (`bridge/oracle.go:88`, `bridge/singer.go:40`): the branch taken when
  `Online` is true logs that the "oracle status is not active". The daemon works
  exactly while `Online` is false. Run `offline`: an oracle that stays online
  claims nothing. `Oracle` and `Singer` model the test as it is written, and the
  liveness properties are stated for a flag that is down.
* Scan window (`bridge/oracle.go:67`): on a chain of fewer than 1000 blocks the
  lower end wraps, no block is read, and the error says that the events do not
  exist. Run `young_chain`.

Of interest, though no text of the repository says otherwise: `StateFxBridgeId`
drops the last byte of a full word, which `hexByte32ToTargetIbc` would keep; the
hexadecimal form of the f(x)Core key needs `0x` and that of the Tron key must not
have it, and 62 digits after `0x` are decoded into a key of 31 bytes; a
`--start-block-number` that is no number is read as 0.

## 7. Proofs

All for every value of the constants, under the assumptions named in the
modules.

**Relay (`OracleProofs`).** `IndInv` is inductive (`Inductive`); from it follow
`TypeCorrect`, `ClaimsSound`, `LossBounded`, `CacheSafe`, `NothingPassed`,
`LoopAdvances` and `Refinement`. None of the properties is inductive alone. `ClaimsAreSettled` needs
to know that what a tick holds in `msgs`, and what is still under way, is genuine
(`CoreInv`, `TickInv`): a claim in a settled block that says what the history
says; forks leave settled blocks alone, hence genuine stays genuine, and f(x)Core
adds a genuine claim at the end of a genuine log. That a tick reads settled
blocks only comes from `limit <= settled` and `head - TronBlockDelay <= settled`.
`OnlySplitBlockSkipped` needs that `msgs` has every unclaimed event of the blocks
read since `startBlockNumber`, and that the first `endIndex` of them are claimed;
then at `Advance` nothing is left behind. A restart from f(x)Core's height needs
that the height is that of the last claim (`CoreInv`); a restart from the file
needs `CacheIsBehindClaims`, and a torn write leaves a smaller number, for which
the property holds all the more; a foreign file counts as imposed. The refinement
maps `SendOk` and `DeliverLate` to `Relay`, a growing `settled` to `Settle`,
everything else to stutters.

Some properties have an invariant of their own next to `IndInv`:

* `RewindSmall`: `CounterInv`, the block counter is the number of blocks read
  since the last flush, or one more.
* `NoGap`: `MsgsInv`, the messages are sorted, newer than the nonce read, and from
  blocks after `startBlockNumber`. With the completeness of `msgs` (`TickInv`) an
  event between two neighbours would lie in the blocks read, heights being
  ordered, and so be one of the messages, which are sorted: there is none.
* `GiveUpSound`: `ScanInv`, no settled oracle set update lies above the block the
  scan is at. It has the hypothesis that the chain is older than the scan window
  and the delay together, without which run `young_chain` violates the property.
* `YoungChainGivesUp`: `YoungInv`, the scan is below the head it read, or that head
  is below `ScanDepth` and the window, which has wrapped, ends above it. So what
  `young_chain` shows on one instance holds for every window.
* `SplitIsForGood`: `BlockSplit` is kept by every step (`SplitKept`). The next event
  to claim is settled (`SplitFacts`), so it stays; no message of a later tick is for
  it, since messages come from blocks after `startBlockNumber` (`MsgsInv`) and the
  event is not in one; so nothing that is sent, or still under way, can be executed
  (`NothingExecutes`), and the height that a restart begins from does not move.

`LoopAdvances` is the safety half of progress: each step of the loop of a tick goes
to the next block, from reading to sending, or a chunk further, and the end of the
loop and the messages stay as they are meanwhile.

**Sorting (`SequenceFacts`).** The models choose a sorted list out of a set of
lists. `SortExists` and `SortUnique` say that a finite set of numbers has one, and
only one: an element's place is the number of those up to it (`Rank`), which is a
bijection. Hence `ClaimsOfBlockDetermined` and `SignaturesDetermined`: what is sent
is a function of the chains' state, whatever the order of the answers, and the
steps that sort are never blocked by the choice.

**Signer (`SingerProofs`).** `OldestSetFirst` is strengthened by `OrderInv`: in
each transaction, sent or not, an oracle set comes after all live unconfirmed
ones below it. That holds of `Signed` by the sort, of a later chunk because the
chunks before it are confirmed, and it is stable because requests are numbered as
they come (`RequestsGrow`). So any prefix of chunks, in any mixture with late
transactions, leaves no older set behind. `DutyImplemented` is the refinement of
`SigningDuty`: a transaction, in time or late, is one `Confirm`, in order by
`OrderInv` and short because chunks are (`UnansweredShort`). `SigningInv` is the
whole invariant. `StaleIdConfirmsNothing` has `ChunksInv`: all messages are signed
for the id that this process read, and there is one left to send while it sends.

**Daemon (`BridgeProofs`).** Every step of `Bridge` is a step of `Oracle` or
leaves its variables alone, and likewise for `Singer` (`RelayImplemented`,
`SignerImplemented`). So what is proved of the parts holds of the daemon:
`BridgeTypeCorrect`, `DaemonSafe` for the invariants, `DaemonSteps` for the action
properties, `DaemonRefines` for both abstract specifications at once.
`HalvesApart` is about the two together and has an invariant of its own, `TurnInv`:
what each part is at while the other one has its turn.

**Launch (`LaunchProofs`).** `RunSound`: `Run` begins only after the nodes of both
chains have given two heights, for every word size and height. `NotedInv` says that
the heights noted are heights that were given, from which a wrapped difference that
is positive means two heights that differ; `StageInv` ties the stages of `main` to
the wait.

**Block events (`BlockEventsProofs`).** `AnswersSound`, `QueriesConsistent` and
`PoisonStops` (the safety half of `ReadIffDecodable`), for every block. The first
step is that each copy of the filter skips exactly the logs that are not in
`Wanted`, the events of the contract and the strangers, which are defined without
it. `IndInv` (`Inductive`, and checked in run `block_events`) has the loop
invariant: what is found lists, in order, what is wanted of the part of the block
passed, all of it was decodable, and whatever has failed had a log that was not.
`QueriesConsistent` then follows because what the scan wants is the part with the
topic of oracle set updates of what the relay wants.

**Client calls (`TronCallsProofs`).** `IdSound` for every width of a word and every
string; `LimitSound` for every width of the integers (below 2^62 nothing wraps, and
a fifth, rounded down, of what is a multiple of the energy covers every risen
price); `MintSeen` and `WaitEndsInTime` for every timeout, pause and latency: a
poll that has looked in vain has missed only what was minted after it was made
(`PollInv`), the pause after it begins at most `Latency` later and ends less than a
pause after the deadline (`SleepInv`), and the poll that the deadline cuts off was
made at most `Latency` before.

**Only model-checked.** The liveness properties: `EventuallyRelayed`,
`BatchesEventuallyConfirmed`, `SetsEventuallyConfirmed`, `SigningNotHeldBack`,
`RelayNotHeldBack`, `WaitEnds`, `OneDaemonStays`, and that a block without a bad log
is read (`ReadIffDecodable`). They rest on fairness and ENABLED, which the prover
does not handle. Every invariant and every action property of a passing run is
proved.

## 8. Not modelled

* The generated binding: of it the daemon uses the ABI and the event types.
* The address prefix, which the process sets once from an environment variable;
  the version; log lines.
* Gauges and counters of the metrics, the balance queried after each tick with
  them, and the 3000-block warning: they change no state.
* Wrappers in `fxchain` that nobody here calls: each forwards one query.
* `AddressToString`, the hashing and the signing: third-party cryptography and
  base58. Hashes are what they are over, signatures what they sign.
* A call that never returns: the code has no deadline for most of its calls, and
  one that hangs stops the loop. The liveness properties assume that calls end.

## 9. Plan

1. Done: chains, `Oracle`, `EventRelay`, `Singer`, `SigningDuty`, `Bridge`,
   `Launch` with the wait, `BlockEvents`, `ContractQueries`, `TronTx`, and the
   theorems above.
2. Next: the safety halves of the other liveness properties, as `LoopAdvances` and
   `PoisonStops` are: the steps of `confirm`, of the wait and of the readers of a
   block that bring an end nearer; and a theorem for the daemon that stays down
   (`Online`), of which run `offline` shows an instance.
