------------------------------- MODULE TronTx -------------------------------
(***************************************************************************)
(* Sending a transaction to the Tron chain (client/tron_client.go), in the *)
(* order of the calls that the methods are made for: the energy price and  *)
(* the energy of the call (SuggestGasPrice, EstimateGas), the fee limit    *)
(* from both (GetLimit), the transaction with it (TriggerContract), its    *)
(* broadcast (BroadcastTx) and the wait until it is minted (WithMint).     *)
(* The daemon sends none: the tools around it and the tests call these     *)
(* methods, and stop at the first error.                                   *)
(***************************************************************************)
EXTENDS Naturals, Integers

CONSTANTS
  I64,          \* 2^63: the numbers are uint64 and int64
  Prices,       \* values of the chain parameter getEnergyFee
  Energies,     \* energy that a call may take
  TimeOut,      \* of WithMint
  Pause,        \* WithMint sleeps that long between two polls, 3 seconds
  Latency       \* a node that answers a poll at all does so in that time

ASSUME TxAssumption ==
  /\ I64 \in Nat \ {0}
  /\ Prices \subseteq 0..I64-1 /\ Energies \subseteq 0..I64-1
  /\ TimeOut \in Nat /\ Pause \in Nat \ {0} /\ Latency \in Nat

VARIABLES
  at,           \* the method that is called next, or how the last one ended
  gasPrice, energy,     \* what the node has answered
  tx,           \* the transaction: its fee limit, and the id kept next to it
  pending,      \* ids of the transactions the chain has and may still mint
  minted,       \* ids of those that it has minted
  now,          \* time, since WithMint was called
  wakeAt,       \* the end of its sleep
  askedAt,      \* when the poll under way was made
  seen,         \* what the node has found for it
  mintedAt      \* history: when the transaction was minted

answerVars == <<gasPrice, energy>>
chainVars == <<pending, minted, mintedAt>>
pollVars == <<askedAt, seen>>
timeVars == <<now, wakeAt, pollVars>>
txVars == <<at, answerVars, tx, chainVars, timeVars>>

Ends == {"minted", "timedOut", "failed", "panicked"}
Polling == at \in {"asking", "answering"}
TxTypeOK ==
  /\ at \in {"price", "energy", "trigger", "broadcast", "mint", "asking", "answering", "sleeping"}
            \cup Ends
  /\ gasPrice \in Prices \cup {0} /\ energy \in Energies \cup {0}
  /\ tx \in [feeLimit : 0..I64-1, id : 0..I64-1]
  /\ pending \subseteq 0..I64-1 /\ minted \subseteq 0..I64-1
  /\ now \in 0..TimeOut+Pause /\ wakeAt \in 0..TimeOut+Pause /\ mintedAt \in 0..TimeOut+Pause
  /\ askedAt \in 0..TimeOut+Pause /\ seen \in BOOLEAN

TxInit ==
  /\ at = "price" /\ gasPrice = 0 /\ energy = 0 /\ tx = [feeLimit |-> 0, id |-> 0]
  /\ pending = {} /\ minted = {}
  /\ now = 0 /\ wakeAt = 0 /\ mintedAt = 0 /\ askedAt = 0 /\ seen = FALSE

\* The value of the first parameter with the key; there is one.
SuggestGasPrice ==
  /\ at = "price" /\ at' = "energy"
  /\ gasPrice' \in Prices
  /\ UNCHANGED <<energy, tx, chainVars, timeVars>>

\* Every result is a success.
EstimateGas ==
  /\ at = "energy" /\ at' = "trigger"
  /\ energy' \in Energies
  /\ UNCHANGED <<gasPrice, tx, chainVars, timeVars>>

\* A result is no success, and there is no ConstantResult[0] to describe it.
EstimatePanics ==
  /\ at = "energy" /\ at' = "panicked"
  /\ UNCHANGED <<answerVars, tx, chainVars, timeVars>>

\* int64(n), and what is left of an int64 sum or product.
Int64(n) == LET low == n % (2 * I64) IN IF low < I64 THEN low ELSE low - 2 * I64

\* Division by a positive number rounds towards zero.
Quotient(n, d) == IF n >= 0 THEN n \div d ELSE -((-n) \div d)

\* The product of two uint64, as int64, and a fifth of it.
\* Mutant: a tenth.
GetLimitTenth(price, units) ==
  LET limit == Int64(units * price) IN Int64(Quotient(limit, 10) + limit)
GetLimit(price, units) ==
  LET limit == Int64(units * price) IN Int64(Quotient(Int64(limit * 2), 10) + limit)

\* The hash over a transaction: those of one call differ in the limit only.
Hash(feeLimit) == feeLimit

\* The node's transaction has no limit; one that is not positive is not set.
\* Mutants: any limit is set; the hash is not computed again.
LimitedAlways(limit) == [feeLimit |-> limit, id |-> Hash(limit)]
LimitedOldHash(limit) ==
  IF limit > 0 THEN [feeLimit |-> limit, id |-> Hash(0)]
  ELSE [feeLimit |-> 0, id |-> Hash(0)]
Limited(limit) ==
  IF limit > 0 THEN [feeLimit |-> limit, id |-> Hash(limit)]
  ELSE [feeLimit |-> 0, id |-> Hash(0)]

TriggerContract ==
  /\ at = "trigger" /\ at' = "broadcast"
  /\ tx' = Limited(GetLimit(gasPrice, energy))
  /\ UNCHANGED <<answerVars, chainVars, timeVars>>

\* An error of the node, no price, a result that is not a success, a code.
NodeFails ==
  /\ at \in {"price", "energy", "trigger"} \/ Polling
  /\ at' = "failed"
  /\ UNCHANGED <<answerVars, tx, chainVars, timeVars>>

BroadcastTx ==
  /\ at = "broadcast" /\ at' = "mint"
  /\ pending' = {Hash(tx.feeLimit)}
  /\ UNCHANGED <<answerVars, tx, minted, mintedAt, timeVars>>

\* The node refuses the transaction, or its answer is lost.
BroadcastFails ==
  /\ at = "broadcast" /\ at' = "failed"
  /\ pending' \in {{}, {Hash(tx.feeLimit)}}
  /\ UNCHANGED <<answerVars, tx, minted, mintedAt, timeVars>>

Mint ==
  /\ pending # {}
  /\ minted' = pending /\ pending' = {} /\ mintedAt' = now
  /\ UNCHANGED <<at, answerVars, tx, timeVars>>

WithMint ==
  /\ at = "mint" /\ at' = "asking"
  /\ UNCHANGED <<answerVars, tx, chainVars, timeVars>>

\* The poll has got to the node.
Look ==
  /\ at = "asking" /\ now < TimeOut
  /\ at' = "answering" /\ seen' = (tx.id \in minted)
  /\ UNCHANGED <<answerVars, tx, chainVars, now, wakeAt, askedAt>>

\* Time passes while the poll or its answer is on the way.
Travel ==
  /\ Polling /\ now < TimeOut /\ now < askedAt + Latency
  /\ now' = now + 1
  /\ UNCHANGED <<at, answerVars, tx, chainVars, wakeAt, pollVars>>

PollFinds ==
  /\ at = "answering" /\ now < TimeOut /\ seen
  /\ at' = "minted"
  /\ UNCHANGED <<answerVars, tx, chainVars, timeVars>>

\* Mutant: the pause grows.
WakeTimeDouble == now + 2 * Pause
WakeTime == now + Pause

PollFindsNothing ==
  /\ at = "answering" /\ now < TimeOut /\ ~seen
  /\ at' = "sleeping" /\ wakeAt' = WakeTime
  /\ UNCHANGED <<answerVars, tx, chainVars, now, pollVars>>

\* The context has ended, before the call is made or while it is under way.
Expire ==
  /\ Polling /\ now >= TimeOut
  /\ at' = "timedOut"
  /\ UNCHANGED <<answerVars, tx, chainVars, timeVars>>

\* The node does not answer at all, and the context ends the call.
Hang ==
  /\ Polling /\ now < TimeOut
  /\ at' = "failed" /\ now' = TimeOut
  /\ UNCHANGED <<answerVars, tx, chainVars, wakeAt, pollVars>>

\* time.Sleep does not know of the context.
Sleep ==
  /\ at = "sleeping"
  /\ now' = now + 1
  /\ IF now' = wakeAt THEN at' = "asking" /\ askedAt' = now' ELSE UNCHANGED <<at, askedAt>>
  /\ UNCHANGED <<answerVars, tx, chainVars, wakeAt, seen>>

\* The caller is done with the transaction.
NextTx ==
  /\ at \in Ends
  /\ at' = "price" /\ gasPrice' = 0 /\ energy' = 0 /\ tx' = [feeLimit |-> 0, id |-> 0]
  /\ pending' = {} /\ minted' = {}
  /\ now' = 0 /\ wakeAt' = 0 /\ mintedAt' = 0 /\ askedAt' = 0 /\ seen' = FALSE

TxNext ==
  \/ SuggestGasPrice \/ EstimateGas \/ EstimatePanics \/ TriggerContract \/ NodeFails
  \/ BroadcastTx \/ BroadcastFails \/ Mint
  \/ WithMint \/ Look \/ Travel \/ PollFinds \/ PollFindsNothing \/ Expire \/ Hang \/ Sleep
  \/ NextTx

-----------------------------------------------------------------------------
(***************************************************************************)
(* Properties.                                                             *)
(***************************************************************************)

Triggered == at \notin {"price", "energy", "trigger"} \cup Ends

\* GetLimit: while the product is below 2^62 the limit pays for the energy,
\* even when the price has gone up by a fifth before the transaction is
\* executed, and it is never more than that.  (Beyond, it wraps, and a limit
\* that is not positive is silently left out of the transaction.)
LimitCoversPriceRise ==
  Triggered /\ 2 * energy * gasPrice < I64 =>
    /\ \A price \in Prices : 5 * price <= 6 * gasPrice => energy * price <= tx.feeLimit
    /\ 5 * tx.feeLimit <= 6 * energy * gasPrice

\* WithMint, with a node that answers each poll within Latency, times out only
\* if the transaction was minted, if at all, at most a pause and the time of
\* two polls before the deadline: it looks for the transaction that was
\* broadcast, limit and all.  A poll sees only what was minted before the node
\* has looked, the sleep begins only when its answer is there, and the next
\* poll may be cut off by the deadline although the node has seen it.
NoMintMissed ==
  at = "timedOut" /\ Hash(tx.feeLimit) \in minted => mintedAt + Pause + 2 * Latency >= TimeOut

\* What WithMint returns is the transaction that the caller has signed, and a
\* wait is over less than one pause after its deadline.
WaitBounded ==
  /\ at = "minted" => Hash(tx.feeLimit) \in minted
  /\ Polling \/ at \in {"sleeping"} \cup Ends => now < TimeOut + Pause
=============================================================================
