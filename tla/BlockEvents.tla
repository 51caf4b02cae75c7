----------------------------- MODULE BlockEvents -----------------------------
(***************************************************************************)
(* How TronClient reads the events of one block (client/tron_bridge.go):   *)
(* QueryBlockEvent, for the relay's tick, and QueryOracleSetUpdatedEvent,  *)
(* for the scan of a fresh start, go through the transactions of the block *)
(* and through the logs of each, and decode the logs that are the bridge   *)
(* contract's.  Each has its own copy of the filter.  Module Oracle takes  *)
(* the answer for the set of the events of the block, all of them or an    *)
(* error; here that answer is put together log by log, by calls that are   *)
(* made again whenever they fail.                                          *)
(***************************************************************************)
EXTENDS Naturals, Sequences

CONSTANTS
  Contract,           \* --bridge-addr
  Addresses,          \* it, and the other contracts
  Kinds,              \* topics of the four events of QueryBlockEvent
  OracleSetUpdated,   \* the one QueryOracleSetUpdatedEvent looks for
  NoTopic, Unknown,   \* no topic at all; the topic of some other event
  Blocks              \* the blocks to read

\* What a log holds of interest; UnpackLog fails if it is not decodable.
Logs == [topic : Kinds \cup {NoTopic, Unknown}, address : Addresses, decodable : BOOLEAN]
Transactions == [success : BOOLEAN, contract : Addresses, logs : Seq(Logs)]

ASSUME BlocksAssumption ==
  /\ Contract \in Addresses /\ OracleSetUpdated \in Kinds
  /\ NoTopic \notin Kinds /\ Unknown \notin Kinds
  /\ Blocks \subseteq Seq(Transactions)

VARIABLES
  block,      \* BlockInfo.TransactionInfo of the block, the same in every answer
  call,       \* the query that is running, "none" between two queries
  tx, log,    \* the loops' place in the block
  found,      \* the events decoded so far, by their places
  answered,   \* history: the queries that have returned without an error
  answer,     \* history: what they returned
  failed      \* history: the queries that have failed to decode a log

histories == <<answered, answer, failed>>
vars == <<block, call, tx, log, found, histories>>

Queries == {"QueryBlockEvent", "QueryOracleSetUpdatedEvent"}
Places == [tx : Nat, log : Nat]

TypeOK ==
  /\ block \in Blocks
  /\ call \in Queries \cup {"none"}
  /\ tx \in Nat /\ log \in Nat
  /\ found \in Seq(Places)
  /\ answered \subseteq Queries /\ failed \subseteq Queries
  /\ answer \in [Queries -> Seq(Places)]

Init ==
  /\ block \in Blocks
  /\ call = "none" /\ tx = 0 /\ log = 0 /\ found = <<>>
  /\ answered = {} /\ answer = [q \in Queries |-> <<>>] /\ failed = {}

\* The slice that the query collects in is made anew.
\* Mutant: it is kept from one call to the next.
KeptSlice(query) == answer[query]
NewSlice(query) == <<>>

\* GetBlockInfoByNum succeeds.  (If it fails the query returns the error.)
Fetch(query) ==
  /\ call = "none"
  /\ call' = query
  /\ tx' = 1 /\ log' = 1 /\ found' = NewSlice(query)
  /\ UNCHANGED <<block, histories>>

InBlock == call # "none" /\ tx <= Len(block)
AtLog == InBlock /\ log <= Len(block[tx].logs)
TheLog == block[tx].logs[log]

\* The topics for which the query has a case.
Topics(query) == IF query = "QueryBlockEvent" THEN Kinds ELSE {OracleSetUpdated}

\* The conditions for which the loop of QueryBlockEvent goes on with the next
\* log, and its switch without a default.
\* Mutant: only what happens in calls of the contract counts.
SkippedByCallsOnly ==
  \/ ~block[tx].success \/ TheLog.topic = NoTopic
  \/ Contract # block[tx].contract
  \/ TheLog.topic \notin Topics("QueryBlockEvent")
SkippedByBlockEvent ==
  \/ ~block[tx].success \/ TheLog.topic = NoTopic
  \/ Contract # block[tx].contract /\ Contract # TheLog.address
  \/ TheLog.topic \notin Topics("QueryBlockEvent")

\* The copy of them in QueryOracleSetUpdatedEvent.
\* Mutant: the receipt is not looked at.
SkippedAnyReceipt ==
  \/ TheLog.topic = NoTopic
  \/ Contract # block[tx].contract /\ Contract # TheLog.address
  \/ TheLog.topic # OracleSetUpdated
SkippedByOracleSetUpdated ==
  \/ ~block[tx].success \/ TheLog.topic = NoTopic
  \/ Contract # block[tx].contract /\ Contract # TheLog.address
  \/ TheLog.topic # OracleSetUpdated

PassedOver ==
  IF call = "QueryBlockEvent" THEN SkippedByBlockEvent ELSE SkippedByOracleSetUpdated

PassOver ==
  /\ AtLog /\ PassedOver
  /\ log' = log + 1
  /\ UNCHANGED <<block, call, tx, found, histories>>

\* UnpackLog, and the event is appended.
Unpack ==
  /\ AtLog /\ ~PassedOver /\ TheLog.decodable
  /\ found' = Append(found, [tx |-> tx, log |-> log])
  /\ log' = log + 1
  /\ UNCHANGED <<block, call, tx, histories>>

\* The locals of the query go out of scope.
Leave == call' = "none" /\ tx' = 0 /\ log' = 0 /\ found' = <<>>

\* UnpackLog fails, and with it the query.
\* Mutant: the log is passed over.
UnpackFailsQuietly ==
  /\ AtLog /\ ~PassedOver /\ ~TheLog.decodable
  /\ log' = log + 1
  /\ UNCHANGED <<block, call, tx, found, histories>>
UnpackFails ==
  /\ AtLog /\ ~PassedOver /\ ~TheLog.decodable
  /\ failed' = failed \cup {call}
  /\ Leave
  /\ UNCHANGED <<block, answered, answer>>

NextTransaction ==
  /\ InBlock /\ ~AtLog
  /\ tx' = tx + 1 /\ log' = 1
  /\ UNCHANGED <<block, call, found, histories>>

Return ==
  /\ call # "none" /\ ~InBlock
  /\ answered' = answered \cup {call}
  /\ answer' = [answer EXCEPT ![call] = found]
  /\ Leave
  /\ UNCHANGED <<block, failed>>

Step == PassOver \/ Unpack \/ UnpackFails \/ NextTransaction \/ Return

Next == (\E query \in Queries : Fetch(query)) \/ Step

Spec == Init /\ [][Next]_vars

\* The loops go on; each query is made again (by the next tick, or by the
\* operator's restart) and the node does not refuse the block for ever.
FairSpec == Spec /\ WF_vars(Step) /\ \A query \in Queries : SF_vars(Fetch(query))

-----------------------------------------------------------------------------
(***************************************************************************)
(* Properties.                                                             *)
(***************************************************************************)

PlacesIn(t) == {[tx |-> t, log |-> l] : l \in 1..Len(block[t].logs)}

\* The logs of transactions that succeeded, with a topic of the query.
Executed(query) ==
  {p \in UNION {PlacesIn(t) : t \in 1..Len(block)} :
     block[p.tx].success /\ block[p.tx].logs[p.log].topic \in Topics(query)}

\* The contract's own events: it has emitted them, whoever called it.
Emitted(query) == {p \in Executed(query) : block[p.tx].logs[p.log].address = Contract}

\* Events that some other contract has emitted, with a topic of the bridge, in
\* a transaction that calls the bridge.
Strangers(query) ==
  {p \in Executed(query) :
     block[p.tx].logs[p.log].address # Contract /\ block[p.tx].contract = Contract}

Before(p, q) == p.tx < q.tx \/ (p.tx = q.tx /\ p.log < q.log)

\* Each place in the sequence comes once, in the order of the block.
InOrder(s) == \A i, j \in 1..Len(s) : i < j => Before(s[i], s[j])

\* The sequence s holds the places in P, in order.
Lists(s, P) ==
  /\ \A i \in 1..Len(s) : s[i] \in P
  /\ \A p \in P : \E i \in 1..Len(s) : s[i] = p
  /\ InOrder(s)

\* A query that returns without an error returns every event that the contract
\* has emitted on its topics, also in calls of other contracts, each once and in
\* the order of the block, and none of a transaction that failed; whatever else
\* it returns is a stranger in a call of the bridge.  (The filter compares two
\* addresses and takes either for enough: that no stranger has a topic of the
\* bridge is up to the contracts that the bridge calls.)
AnswersComplete ==
  \A query \in answered :
    /\ InOrder(answer[query])
    /\ \A p \in Emitted(query) : \E i \in 1..Len(answer[query]) : answer[query][i] = p
    /\ \A i \in 1..Len(answer[query]) : answer[query][i] \in Emitted(query) \cup Strangers(query)

\* The two copies of the filter agree, though neither looks at the other.  A
\* block that the relay has read never stops the scan, and the scan finds in it
\* the oracle set updates that the relay will claim, no others and in the same
\* order.
QueriesAgree ==
  /\ "QueryBlockEvent" \in answered => "QueryOracleSetUpdatedEvent" \notin failed
  /\ answered = Queries =>
       LET claimed == answer["QueryBlockEvent"]
       IN  Lists(answer["QueryOracleSetUpdatedEvent"],
                 {p \in {claimed[i] : i \in 1..Len(claimed)} :
                    block[p.tx].logs[p.log].topic = OracleSetUpdated})

\* What a query has to decode.
Wanted(query) == Emitted(query) \cup Strangers(query)
Decodable(query) == \A p \in Wanted(query) : block[p.tx].logs[p.log].decodable

\* One log that cannot be decoded, the contract's or a stranger's, keeps the
\* relay at its block for ever, on every tick anew; no other log of the block
\* does.
ReadIffDecodable ==
  \A query \in Queries :
    /\ Decodable(query) => <>(query \in answered)
    /\ ~Decodable(query) => [](query \notin answered)

\* The inductive invariant behind the three.  On its way through the block a
\* query has found, in order, what it has to decode of the part behind it, and
\* could decode all of that; what has been answered, or failed, is as it should.
Passed(query) == {p \in Wanted(query) : Before(p, [tx |-> tx, log |-> log])}

LoopInv ==
  call # "none" =>
    /\ tx \in 1..(Len(block) + 1)
    /\ tx <= Len(block) => log \in 1..(Len(block[tx].logs) + 1)
    /\ Lists(found, Passed(call))
    /\ \A p \in Passed(call) : block[p.tx].logs[p.log].decodable

AnswerInv ==
  /\ \A query \in answered : Lists(answer[query], Wanted(query)) /\ Decodable(query)
  /\ \A query \in failed : ~Decodable(query)

IndInv == TypeOK /\ LoopInv /\ AnswerInv
=============================================================================
