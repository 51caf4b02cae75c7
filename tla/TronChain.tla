------------------------------ MODULE TronChain ------------------------------
(***************************************************************************)
(* The Tron chain as the bridge daemon sees it through TronClient.  The    *)
(* chain itself is external: this module fixes what the code relies on.    *)
(*                                                                         *)
(* The bridge contract numbers its events, so the n-th event is the one    *)
(* with event nonce n and the chain's history is a sequence of events.     *)
(* An event is the height of its block and its kind (which of the four     *)
(* ABI events it is); the rest of its payload is never looked at.          *)
(*                                                                         *)
(* The tip of the chain may be replaced by a fork, or answered by a node   *)
(* that is a little behind: only blocks buried TronBlockDelay deep are     *)
(* settled, which is what the constant TronBlockDelay is there for.        *)
(***************************************************************************)
EXTENDS Integers, Sequences

CONSTANTS
  EventKinds,         \* the ABI events of the contract
  OracleSetUpdated,   \* the kind getLastBlockNumber looks for
  TronBlockDelay,     \* 25 in common.go
  U64,                \* 2^64: block numbers are uint64 and wrap
  InitHead,           \* the height of the chain when the daemon is deployed
  InitEvents,         \* the contract's history at that time
  MaxHead,            \* bound: the chain stops growing at this height
  MaxEvents,          \* bound: the contract emits this many events
  MaxPerBlock         \* bound: events in one block

Events == [height : Nat, kind : EventKinds]

\* Heights never decrease along a history: nonces are given out in order.
Ordered(history) ==
  \A i, j \in 1..Len(history) : i <= j => history[i].height <= history[j].height

ASSUME ChainAssumption ==
  /\ OracleSetUpdated \in EventKinds
  /\ TronBlockDelay \in Nat /\ MaxPerBlock \in Nat /\ MaxEvents \in Nat
  /\ InitHead \in Nat /\ MaxHead \in Nat /\ U64 \in Nat
  /\ InitHead <= MaxHead /\ MaxHead < U64
  /\ InitEvents \in Seq(Events)
  /\ Ordered(InitEvents)

\* The deployed chain is older than two delays, so a node's answer never
\* makes "latest - TronBlockDelay" wrap around.
ASSUME ChainOldEnough ==
  /\ InitHead >= 2 * TronBlockDelay
  /\ \A n \in 1..Len(InitEvents) : InitEvents[n].height \in 1..(InitHead - TronBlockDelay)

VARIABLES
  head,       \* number of the latest block of the node that answers
  settled,    \* the highest block that can no longer be replaced
  events      \* the history of the contract on the current fork

chainVars == <<head, settled, events>>

ChainTypeOK ==
  /\ head \in Nat /\ settled \in Nat
  /\ TronBlockDelay <= settled /\ settled <= head /\ head <= MaxHead
  /\ events \in Seq(Events)

\* uint64 subtraction, which wraps below zero.
Minus(a, b) == IF b <= a THEN a - b ELSE a - b + U64

\* The nonces of the events in block b (none in a block the node lacks), which
\* are the contract's own: no other contract uses its topics in a call of the
\* bridge (see AnswersComplete in module BlockEvents).
EventsIn(b) == {n \in 1..Len(events) : events[n].height = b}

\* The nonces of the events in blocks up to b.
EventsUpTo(b) == {n \in 1..Len(events) : events[n].height <= b}

\* The events on the settled part of the chain.
SettledEvents == EventsUpTo(settled)

ChainInit ==
  /\ head = InitHead
  /\ settled = InitHead - TronBlockDelay
  /\ events = InitEvents

\* A block is added; the contract emits the events "kinds" in it.
NewBlock(kinds) ==
  /\ head < MaxHead
  /\ Len(events) + Len(kinds) <= MaxEvents
  /\ head' = head + 1
  /\ settled' = IF settled < head + 1 - TronBlockDelay
                  THEN head + 1 - TronBlockDelay ELSE settled
  /\ events' = events \o [i \in 1..Len(kinds) |-> [height |-> head + 1, kind |-> kinds[i]]]

\* The node's view falls back to an unsettled block b, dropping what is above.
Fork(b) ==
  /\ settled <= b /\ b < head
  /\ head' = b
  /\ \E n \in 0..Len(events) :
       /\ \A i \in 1..Len(events) : i <= n <=> events[i].height <= b
       /\ events' = SubSeq(events, 1, n)
  /\ UNCHANGED settled

BlockContents == UNION {[1..n -> EventKinds] : n \in 0..MaxPerBlock}

ChainNext ==
  \/ \E kinds \in BlockContents : NewBlock(kinds)
  \/ \E b \in settled..head : Fork(b)
=============================================================================
