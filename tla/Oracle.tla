------------------------------- MODULE Oracle -------------------------------
(***************************************************************************)
(* The event relay of the bridge daemon (bridge/oracle.go): NewOracle      *)
(* picks the block to start from, and on every tick bridgeEvent reads the  *)
(* settled blocks of the Tron chain one by one and sends their events to   *)
(* f(x)Core as claims, in chunks.  Each remote call is a step of its own,  *)
(* so the two chains move between any two of them; each may fail; and the  *)
(* process may die and be restarted at any point, keeping nothing but the  *)
(* file lastBlockNumber.info.                                              *)
(*                                                                         *)
(* Modules TronChain and FxCore hold the two chains.                       *)
(***************************************************************************)
EXTENDS TronChain, FxCore

CONSTANTS
  TronRestartDelayBlock,  \* 28800 in common.go
  BatchSendMsgCount,      \* 100 in common.go: claims in one transaction
  BatchBlockLimit,        \* the 100 of "batchBlockNumber > 100"
  ScanDepth,              \* the 1000 of "latestBlockNumber - 1000"
  Radix,                  \* 10: the base the cache file is written in
  StartFlags,             \* values of --start-block-number to try
  ForeignCaches           \* numbers the file may hold at first: 0, or another bridger's

ASSUME OracleAssumption ==
  /\ TronRestartDelayBlock \in Nat /\ BatchBlockLimit \in Nat
  /\ ScanDepth \in Nat /\ ScanDepth < U64
  /\ BatchSendMsgCount \in Nat \ {0}
  /\ StartFlags \subseteq Nat /\ ForeignCaches \subseteq Nat
  /\ ClaimKinds = EventKinds

VARIABLES
  pc,                 \* where the daemon is; "down" while it is not running
  startBlockNumber,   \* Oracle.startBlockNumber: all blocks up to it are done
  lastEventNonce,     \* as read at the start of this tick
  blockNumber,        \* the block a loop is at
  limit,              \* minBlockNumber or endBlockNumber, where the loop ends
  batchBlockNumber,   \* blocks read since the last flush
  msgs,               \* claims collected since the last flush
  endIndex,           \* how many of them BatchSendMsg has sent
  cacheFile,          \* number in lastBlockNumber.info, 0 if none or empty
  imposed             \* history: highest start from the operator, the scan or a foreign file

daemonVars == <<pc, startBlockNumber, lastEventNonce, blockNumber, limit,
                batchBlockNumber, msgs, endIndex, cacheFile, imposed>>
vars == <<chainVars, coreVars, daemonVars>>

Ticking == {"nonce", "head", "query", "send"}   \* inside bridgeEvent
Running == Ticking \cup {"idle"}
Starting == {"scanHead", "scan"}                \* inside getLastBlockNumber

OracleTypeOK ==
  /\ pc \in Running \cup Starting \cup {"down"}
  /\ startBlockNumber \in Nat /\ lastEventNonce \in Nat
  /\ blockNumber \in Nat /\ limit \in Nat /\ batchBlockNumber \in Nat
  /\ msgs \in Seq(Msgs)
  /\ endIndex \in 0..Len(msgs)
  /\ cacheFile \in Nat /\ imposed \in Nat

TypeOK == ChainTypeOK /\ CoreTypeOK /\ OracleTypeOK

Larger(a, b) == IF a < b THEN b ELSE a

OracleInit ==
  /\ pc = "down"
  /\ startBlockNumber = 0 /\ lastEventNonce = 0
  /\ blockNumber = 0 /\ limit = 0 /\ batchBlockNumber = 0
  /\ msgs = <<>> /\ endIndex = 0
  /\ cacheFile \in ForeignCaches /\ imposed = 0

\* f(x)Core already has the claims of the first n events; the height on
\* record is that of the last one, or none if other bridgers made them.
CoreInit ==
  /\ \E n \in 0..Len(InitEvents) :
       /\ claimed = SubSeq(InitEvents, 1, n)
       /\ coreHeight \in {0} \cup {InitEvents[m].height : m \in {n} \cap 1..n}
  /\ online \in BOOLEAN
  /\ pending = {}

Init == ChainInit /\ CoreInit /\ OracleInit

\* The locals of bridgeEvent and of getLastBlockNumber go out of scope.
DropLocals ==
  /\ lastEventNonce' = 0 /\ blockNumber' = 0 /\ limit' = 0
  /\ batchBlockNumber' = 0 /\ msgs' = <<>> /\ endIndex' = 0

-----------------------------------------------------------------------------
(***************************************************************************)
(* Starting: Run, NewOracle, getLastBlockNumber.                           *)
(***************************************************************************)

\* Run makes the operator's start block inclusive.
FlaggedStart(flag) == IF flag > 0 THEN flag - 1 ELSE 0

\* The cached height, rewound; it counts only beyond the height we have.
CachedStart(last) ==
  IF cacheFile > TronRestartDelayBlock
    THEN Larger(last, cacheFile - TronRestartDelayBlock) ELSE last

\* Mutant: the operator's start block always counts.
LastBlockNumberFlagged(flag) == IF flag > 0 THEN FlaggedStart(flag) ELSE LastEventBlockHeight
LastBlockNumber(flag) == Larger(LastEventBlockHeight, FlaggedStart(flag))

\* The start comes from a file that this bridger has not written since it was
\* deployed: it lies in $HOME/.tronBridge, whoever and whatever contract it is for.
ForeignStart(last) == cacheFile \in ForeignCaches /\ CachedStart(last) > last

\* A start that neither f(x)Core nor this bridger's own file vouches for.
ImposedBy(flag) ==
  LET last == LastBlockNumber(flag)
  IN  IF ForeignStart(last) THEN CachedStart(last)
      ELSE IF FlaggedStart(flag) > LastEventBlockHeight THEN FlaggedStart(flag) ELSE 0

\* NewOracle, when the flag or f(x)Core gives a height.
Boot(flag) ==
  /\ pc = "down"
  /\ LastBlockNumber(flag) > 0
  /\ pc' = "idle"
  /\ startBlockNumber' = CachedStart(LastBlockNumber(flag))
  /\ imposed' = Larger(imposed, ImposedBy(flag))
  /\ UNCHANGED <<chainVars, coreVars, lastEventNonce, blockNumber, limit,
                 batchBlockNumber, msgs, endIndex, cacheFile>>

\* NewOracle, when neither does.
BootFresh(flag) ==
  /\ pc = "down"
  /\ LastBlockNumber(flag) = 0
  /\ pc' = "scanHead"
  /\ UNCHANGED <<chainVars, coreVars, startBlockNumber, lastEventNonce, blockNumber, limit,
                 batchBlockNumber, msgs, endIndex, cacheFile, imposed>>

\* The condition of the scanning loop, which counts down.
\* Mutants: one block short; one block too far.
InWindowShort == blockNumber > limit + 1
InWindowLong == blockNumber >= limit
InWindow == blockNumber > limit

\* getLastBlockNumber reads the head and fixes the window to scan downwards.
ScanHead ==
  /\ pc = "scanHead"
  /\ pc' = "scan"
  /\ blockNumber' = head
  /\ limit' = Minus(head, ScanDepth)
  /\ UNCHANGED <<chainVars, coreVars, startBlockNumber, lastEventNonce,
                 batchBlockNumber, msgs, endIndex, cacheFile, imposed>>

\* QueryOracleSetUpdatedEvent.
OracleSetUpdatedIn(b) == {n \in EventsIn(b) : events[n].kind = OracleSetUpdated}

\* No oracle set update in this block: go one block down.
ScanDown ==
  /\ pc = "scan" /\ InWindow
  /\ OracleSetUpdatedIn(blockNumber) = {}
  /\ blockNumber' = blockNumber - 1
  /\ UNCHANGED <<chainVars, coreVars, pc, startBlockNumber, lastEventNonce, limit,
                 batchBlockNumber, msgs, endIndex, cacheFile, imposed>>

\* Found: start below the block, so that the block itself is read.
ScanFound ==
  /\ pc = "scan" /\ InWindow
  /\ OracleSetUpdatedIn(blockNumber) # {}
  /\ pc' = "idle"
  /\ startBlockNumber' = blockNumber - 1
  /\ imposed' = Larger(imposed, blockNumber - 1)
  /\ DropLocals
  /\ UNCHANGED <<chainVars, coreVars, cacheFile>>

\* Not found in the window: NewOracle returns an error, the process exits.
ScanExhausted ==
  /\ pc = "scan" /\ ~InWindow
  /\ pc' = "down"
  /\ DropLocals
  /\ UNCHANGED <<chainVars, coreVars, startBlockNumber, cacheFile, imposed>>

-----------------------------------------------------------------------------
(***************************************************************************)
(* A tick: bridgeEvent.                                                    *)
(***************************************************************************)

\* GetOracleByBridgerAddr.  While the status flag is set, or when the call
\* fails, the tick ends here and nothing changes.
CheckOracle ==
  /\ pc = "idle"
  /\ ~online
  /\ pc' = "nonce"
  /\ UNCHANGED <<chainVars, coreVars, startBlockNumber, lastEventNonce, blockNumber, limit,
                 batchBlockNumber, msgs, endIndex, cacheFile, imposed>>

ReadNonce ==
  /\ pc = "nonce"
  /\ pc' = "head"
  /\ lastEventNonce' = LastEventNonce
  /\ UNCHANGED <<chainVars, coreVars, startBlockNumber, blockNumber, limit,
                 batchBlockNumber, msgs, endIndex, cacheFile, imposed>>

\* The newest block that counts as settled.
\* Mutant: no delay.
EndBlockNumberAtHead(latest) == latest
EndBlockNumber(latest) == Minus(latest, TronBlockDelay)

\* BlockNumber, and nothing new to read.
NothingNew ==
  /\ pc = "head"
  /\ startBlockNumber >= EndBlockNumber(head)
  /\ pc' = "idle"
  /\ DropLocals
  /\ UNCHANGED <<chainVars, coreVars, startBlockNumber, cacheFile, imposed>>

\* BlockNumber, and the loop over the new blocks begins.
ReadHead ==
  /\ pc = "head"
  /\ startBlockNumber < EndBlockNumber(head)
  /\ pc' = "query"
  /\ limit' = EndBlockNumber(head)
  /\ blockNumber' = startBlockNumber + 1
  /\ batchBlockNumber' = 0 /\ msgs' = <<>> /\ endIndex' = 0
  /\ UNCHANGED <<chainVars, coreVars, startBlockNumber, lastEventNonce, cacheFile, imposed>>

\* The claim for event n, which was found in block b.
ToMsg(n, b) == [nonce |-> n, height |-> b, kind |-> events[n].kind]

\* The claims for a set of events of block b, each once, sorted by nonce,
\* whatever the order in which the node lists the events.
\* Mutant: in any order.
UnsortedMsgs(nonces, b) ==
  {s \in [1..Cardinality(nonces) -> {ToMsg(n, b) : n \in nonces}] :
     \A n \in nonces : \E i \in 1..Cardinality(nonces) : s[i] = ToMsg(n, b)}
SortedMsgs(nonces, b) ==
  {s \in [1..Cardinality(nonces) -> {ToMsg(n, b) : n \in nonces}] :
     /\ \A n \in nonces : \E i \in 1..Cardinality(nonces) : s[i] = ToMsg(n, b)
     /\ \A i, j \in 1..Cardinality(nonces) : i < j => s[i].nonce < s[j].nonce}

\* The events of block b that are not claimed yet, going by this tick's nonce.
\* Mutant: the last claimed event is taken for a new one.
NewEventsFrom(b) == {n \in EventsIn(b) : n >= lastEventNonce}
NewEventsIn(b) == {n \in EventsIn(b) : n > lastEventNonce}

\* BatchSendMsg is called: many claims, many blocks, or the last block.
\* Mutant: the blocks are not counted.
FlushDueUncounted(count) == count > BatchSendMsgCount \/ blockNumber = limit
FlushDue(count) ==
  \/ count > BatchSendMsgCount
  \/ batchBlockNumber > BatchBlockLimit
  \/ blockNumber = limit

\* QueryBlockEvent, and the claims of the block are appended.
QueryBlock ==
  /\ pc = "query"
  /\ \E s \in SortedMsgs(NewEventsIn(blockNumber), blockNumber) : msgs' = msgs \o s
  /\ IF FlushDue(Len(msgs'))
       THEN pc' = "send" /\ UNCHANGED <<blockNumber, batchBlockNumber>>
       ELSE /\ blockNumber' = blockNumber + 1
            /\ batchBlockNumber' = batchBlockNumber + 1
            /\ UNCHANGED pc
  /\ UNCHANGED <<chainVars, coreVars, startBlockNumber, lastEventNonce, limit,
                 endIndex, cacheFile, imposed>>

\* BatchSendMsg cuts a full chunk as long as there is one, then the rest.
\* Mutant: no cutting.
ChunkEndAll == Len(msgs)
ChunkEnd ==
  IF endIndex + BatchSendMsgCount <= Len(msgs) THEN endIndex + BatchSendMsgCount ELSE Len(msgs)
NextChunk == SubSeq(msgs, endIndex + 1, ChunkEnd)

Sending == pc = "send" /\ endIndex < Len(msgs)

\* BatchSendMsg has sent the last chunk.
\* Mutant: it forgets what is left after the full chunks.
FullChunksSent == endIndex + BatchSendMsgCount > Len(msgs)
AllSent == endIndex = Len(msgs)

\* sendMsg: the transaction is in a block with code 0.
SendOk ==
  /\ Sending
  /\ Execute(NextChunk)
  /\ endIndex' = ChunkEnd
  /\ UNCHANGED <<chainVars, online, pending, pc, startBlockNumber, lastEventNonce, blockNumber,
                 limit, batchBlockNumber, msgs, cacheFile, imposed>>

\* sendMsg: the broadcast returns an error, but the transaction is under way.
SendUnanswered ==
  /\ Sending
  /\ Cardinality(pending) < MaxPending
  /\ pending' = pending \cup {NextChunk}
  /\ pc' = "idle"
  /\ DropLocals
  /\ UNCHANGED <<chainVars, claimed, coreHeight, online, startBlockNumber, cacheFile, imposed>>

\* A call fails (sendMsg: also BuildTx, or an answer with a code other than
\* 0): bridgeEvent returns the error, Run logs it and waits for the tick.
CallFails ==
  /\ pc \in {"nonce", "head", "query"} \/ Sending
  /\ pc' = "idle"
  /\ DropLocals
  /\ UNCHANGED <<chainVars, coreVars, startBlockNumber, cacheFile, imposed>>

\* What a write of v that is cut short leaves in the file: nothing, or the
\* first digits of v.
TornWrites(v) == {p \in 0..v : \E k \in 0..v : p = v \div (Radix ^ k)}

\* saveLastBlockNumber, whose error is ignored.
\* Mutant: saves the end of the loop instead of the block it is at.
SaveOutcomesOfLimit(v) == {cacheFile, Larger(v, limit)}
SaveOutcomes(v) == {cacheFile, v} \cup TornWrites(v)

\* BatchSendMsg returned nil: the blocks read so far are done.
Advance ==
  /\ pc = "send" /\ AllSent
  /\ startBlockNumber' = blockNumber
  /\ cacheFile' \in SaveOutcomes(blockNumber)
  /\ IF blockNumber = limit
       THEN pc' = "idle" /\ DropLocals
       ELSE /\ pc' = "query"
            /\ blockNumber' = blockNumber + 1
            /\ batchBlockNumber' = 1
            /\ msgs' = <<>> /\ endIndex' = 0
            /\ UNCHANGED <<lastEventNonce, limit>>
  /\ UNCHANGED <<chainVars, coreVars, imposed>>

-----------------------------------------------------------------------------

\* The process dies: killed, a panic in the signer, or (while starting) an
\* error that Run returns.
Crash ==
  /\ pc # "down"
  /\ pc' = "down"
  /\ startBlockNumber' = 0
  /\ DropLocals
  /\ UNCHANGED <<chainVars, coreVars, cacheFile, imposed>>

Tick == CheckOracle \/ ReadNonce \/ NothingNew \/ ReadHead \/ QueryBlock
          \/ SendOk \/ SendUnanswered \/ CallFails \/ Advance

Start == \/ \E flag \in StartFlags : Boot(flag) \/ BootFresh(flag)
         \/ ScanHead \/ ScanDown \/ ScanFound \/ ScanExhausted

Environment == \/ ChainNext /\ UNCHANGED <<coreVars, daemonVars>>
               \/ CoreNext /\ UNCHANGED <<chainVars, daemonVars>>

Next == Tick \/ Start \/ Crash \/ Environment

Spec == Init /\ [][Next]_vars

(* What the relay counts on for progress: a remote call that is tried      *)
(* again on every tick does not fail for ever, for any one block; the loop *)
(* of Run goes on; what needs no call is done.                             *)
Fairness ==
  /\ WF_vars(CheckOracle)
  /\ SF_vars(ReadNonce)
  /\ SF_vars(NothingNew \/ ReadHead)
  /\ \A b \in 0..MaxHead : SF_vars(QueryBlock /\ blockNumber = b)
  /\ SF_vars(SendOk)
  /\ WF_vars(Sending /\ CallFails)
  /\ WF_vars(Advance)

FairSpec == Spec /\ Fairness

-----------------------------------------------------------------------------
(***************************************************************************)
(* Properties.                                                             *)
(***************************************************************************)

\* The events that a daemon whose blocks up to b are done will not look at
\* again, though they are not claimed.
Skipped(b) == {n \in EventsUpTo(b) : n > LastEventNonce}

\* What f(x)Core records is the contract's history: the n-th claim is the
\* n-th event, and its block can no longer be replaced.  This is what the
\* delay of TronBlockDelay blocks is for (oracle.go, endBlockNumber), and it
\* must survive late transactions, retries, forks and restarts.
ClaimsAreSettled ==
  \A n \in 1..Len(claimed) : n \in SettledEvents /\ claimed[n] = events[n]

\* Restarting and advancing lose no event but for one case: an event is
\* behind the daemon and not claimed only if it lies below a start that the
\* operator, the scan or a file left by another bridger imposed, or in the
\* very block of the last claim, whose claims did not fit in one transaction.
\* (NewOracle takes the height on f(x)Core for that of a block that is done.)
OnlySplitBlockSkipped ==
  \A n \in Skipped(startBlockNumber) :
    events[n].height <= imposed \/ events[n].height = LastEventBlockHeight

\* The same of the height in the cache file, once it is this bridger's own:
\* whatever the crash, the torn write and the order of sending and saving,
\* every event up to the cached block is claimed or was excluded at start.
CacheIsBehindClaims ==
  cacheFile \notin ForeignCaches => \A n \in Skipped(cacheFile) :
    events[n].height <= imposed \/ events[n].height = LastEventBlockHeight

\* As long as it runs, the daemon passes no event that is not claimed: when
\* startBlockNumber moves up after sending, it leaves nothing more behind.
AdvanceSkipsNothing ==
  [][pc = "send" /\ pc' # "down" => Skipped(startBlockNumber)' \subseteq Skipped(startBlockNumber)]_vars

\* The claim for event n is collected, or still on its way.
Underway(n) ==
  \/ \E i \in 1..Len(msgs) : msgs[i].nonce = n
  \/ \E tx \in pending : \E i \in 1..Len(tx) : tx[i].nonce = n

\* The block of the last claim was claimed in part, and the daemon is down or
\* started after that: the next event to claim is in the block it starts behind.
BlockSplit ==
  /\ LastEventBlockHeight > 0
  /\ LastEventNonce + 1 \in EventsUpTo(LastEventBlockHeight)
  /\ ~Underway(LastEventNonce + 1)
  /\ pc = "down" \/ (pc \in Running /\ startBlockNumber >= LastEventBlockHeight)

\* What such a restart has lost stays lost: neither a tick nor another restart,
\* with whatever start block and cache file, leads out of it, and this bridger
\* never claims another event.  (The height of the last claim counts as that of
\* a block that is done, and the start block only beyond it: NewOracle.)
SplitForGood == [][BlockSplit => BlockSplit' /\ UNCHANGED claimed]_vars

\* The collected claims have consecutive nonces, which f(x)Core demands, and
\* carry on from the nonce read in this tick unless the next one was skipped
\* before the tick began.  (Sorting within a block, in block order.)
ClaimsLeaveNoGap ==
  /\ \A i \in 1..(Len(msgs) - 1) : msgs[i + 1].nonce = msgs[i].nonce + 1
  /\ msgs # <<>> => \/ msgs[1].nonce = lastEventNonce + 1
                    \/ lastEventNonce + 1 \in EventsUpTo(startBlockNumber)

\* A tick that fails makes the next one read again at most as many blocks as
\* a batch has: BatchBlockLimit, and the two that the counter lets pass.
RewindBounded ==
  pc \in {"query", "send"} => blockNumber - startBlockNumber <= BatchBlockLimit + 2

\* The inductive form of it: the counter starts at 0 in the first batch of a
\* tick and at 1 in the others, so it is the number of blocks read, or one more.
CounterInv ==
  pc \in {"query", "send"} =>
    /\ startBlockNumber + batchBlockNumber \in {blockNumber - 1, blockNumber}
    /\ batchBlockNumber <= BatchBlockLimit + 1

\* getLastBlockNumber says "does not exist oracle set updated events" only if
\* none was emitted in the settled part of the ScanDepth blocks below the
\* head it read, which is limit + ScanDepth.
GiveUpMeansAbsent ==
  LET top == (limit + ScanDepth) % U64
  IN  pc = "scan" /\ ~InWindow =>
        \A n \in 1..Len(events) :
          events[n].kind = OracleSetUpdated /\ events[n].height <= top - TronBlockDelay
            => events[n].height <= top - ScanDepth

-----------------------------------------------------------------------------
(* The inductive invariant behind the safety properties.                   *)

\* The chain: what is buried deep enough is settled; nonces follow heights.
HistoryInv ==
  /\ head - TronBlockDelay <= settled
  /\ Ordered(events)
  /\ \A n \in 1..Len(events) : events[n].height \in 1..head

\* A claim that says what the contract's settled history says.
Genuine(m) == m.nonce \in SettledEvents /\ m = ToMsg(m.nonce, events[m.nonce].height)

\* f(x)Core: what is recorded and what is still on its way is genuine.
CoreInv ==
  /\ ClaimsAreSettled
  /\ coreHeight = 0 \/ (claimed # <<>> /\ coreHeight = events[Len(claimed)].height)
  /\ \A tx \in pending : Len(tx) <= BatchSendMsgCount /\ \A i \in 1..Len(tx) : Genuine(tx[i])

\* The last block whose events are in msgs.
BlocksRead == IF pc = "send" THEN blockNumber ELSE blockNumber - 1

\* A tick: msgs holds genuine claims only, all the claims it should hold,
\* and those that BatchSendMsg has passed are recorded.
TickInv ==
  /\ lastEventNonce <= LastEventNonce
  /\ pc \in {"query", "send"} =>
       /\ startBlockNumber <= BlocksRead /\ blockNumber <= limit /\ limit <= settled
       /\ \A i \in 1..Len(msgs) : Genuine(msgs[i])
       /\ \A n \in EventsUpTo(BlocksRead) :
            n > lastEventNonce /\ events[n].height > startBlockNumber
              => \E i \in 1..Len(msgs) : msgs[i].nonce = n
       /\ \A i \in 1..endIndex : msgs[i].nonce <= LastEventNonce

\* What a restart relies on: no start lies above the settled blocks unless
\* it was imposed, and no event below it is lost.
RestartInv ==
  /\ startBlockNumber <= settled \/ startBlockNumber <= imposed
  /\ cacheFile <= settled \/ cacheFile <= imposed \/ cacheFile \in ForeignCaches
  /\ OnlySplitBlockSkipped
  /\ CacheIsBehindClaims

IndInv == TypeOK /\ HistoryInv /\ CoreInv /\ TickInv /\ RestartInv

-----------------------------------------------------------------------------
(* Progress, and the abstract specification.                               *)

\* The circumstances in which the relay owes progress: the process stays up,
\* its answers come from an up-to-date node, and there is no gap that an
\* earlier start left.
Healthy == Running \cap {pc} # {} /\ head >= settled + TronBlockDelay
             /\ Skipped(startBlockNumber) = {}

\* Every settled event is claimed eventually, whatever fails on the way,
\* while the status flag that bridgeEvent tests stays down.
EventuallyRelayed ==
  <>[](Healthy /\ ~online) =>
    \A n \in 1..MaxEvents : n \in SettledEvents ~> n <= LastEventNonce

\* What the message of bridgeEvent's early return says ("get oracle status is
\* not active", oracle.go:89): only an oracle that is not active is held
\* back, so the events are relayed while it is online.
ActiveOracleRelays ==
  <>[](Healthy /\ online) =>
    \A n \in 1..MaxEvents : n \in SettledEvents ~> n <= LastEventNonce

\* The event relay as its users see it: module EventRelay, with the settled
\* part of the contract's history and the claims on f(x)Core.
SettledHistory == SubSeq(events, 1, Cardinality(SettledEvents))
Abstract == INSTANCE EventRelay WITH
  history <- SettledHistory, relayed <- claimed, MaxStep <- BatchSendMsgCount

\* Every step of the relay, of a fork, of a late transaction or of a crash
\* is a step of the abstract relay: claims are added in order, from settled
\* blocks only, at most BatchSendMsgCount at a time, and never taken back.
ImplementsEventRelay == Abstract!Spec
=============================================================================
