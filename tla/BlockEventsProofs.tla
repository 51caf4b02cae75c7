------------------------- MODULE BlockEventsProofs -------------------------
(***************************************************************************)
(* Proofs about module BlockEvents, for every block: a query that returns  *)
(* without an error has every event of the contract, in order, it can      *)
(* return so only if each of them can be decoded, and the two queries      *)
(* agree, each with its own copy of the filter.                            *)
(***************************************************************************)
EXTENDS BlockEvents, TLAPS

USE DEF histories

\* What a place is made of.
LEMMA WantedPlaces ==
  ASSUME TypeOK, NEW query, NEW p \in Wanted(query)
  PROVE  /\ p \in Places /\ p = [tx |-> p.tx, log |-> p.log]
         /\ p.tx \in 1..Len(block) /\ p.log \in 1..Len(block[p.tx].logs)
<1>1. PICK t \in 1..Len(block) : p \in PlacesIn(t)
  BY DEF Wanted, Emitted, Strangers, Executed
<1>2. PICK l \in 1..Len(block[t].logs) : p = [tx |-> t, log |-> l]
  BY <1>1 DEF PlacesIn
<1>3. t \in Nat /\ l \in Nat
  OBVIOUS
<1> QED
  BY <1>1, <1>2, <1>3 DEF Places

\* What a query has to decode depends on the block only.
LEMMA WantedOfBlock ==
  ASSUME block' = block, NEW query
  PROVE  Wanted(query)' = Wanted(query) /\ Decodable(query)' = Decodable(query)
<1>1. Wanted(query)' = Wanted(query)
  BY DEF Wanted, Emitted, Strangers, Executed, PlacesIn, Topics
<1> QED
  BY <1>1 DEF Decodable

\* A query has to decode what has one of its topics and either of two addresses.
LEMMA WantedIs ==
  ASSUME NEW query
  PROVE  Wanted(query) =
           {p \in UNION {PlacesIn(t) : t \in 1..Len(block)} :
              /\ block[p.tx].success /\ block[p.tx].logs[p.log].topic \in Topics(query)
              /\ block[p.tx].contract = Contract \/ block[p.tx].logs[p.log].address = Contract}
BY DEF Wanted, Emitted, Strangers, Executed

\* Either copy of the filter lets through what its query has to decode.
LEMMA FilterIsRight ==
  ASSUME TypeOK, AtLog, tx \in 1..Len(block), log \in 1..Len(block[tx].logs)
  PROVE  [tx |-> tx, log |-> log] \in Wanted(call) <=> ~PassedOver
<1> DEFINE here == [tx |-> tx, log |-> log]
<1>1. Topics(call) \subseteq Kinds
  BY BlocksAssumption DEF Topics
<1>2. here \in UNION {PlacesIn(t) : t \in 1..Len(block)}
  BY DEF PlacesIn
<1>3. TheLog.topic \in Topics(call) => TheLog.topic # NoTopic
  BY <1>1, BlocksAssumption
<1>4. here \in Wanted(call)
        <=> /\ block[tx].success /\ TheLog.topic \in Topics(call)
            /\ block[tx].contract = Contract \/ TheLog.address = Contract
  BY <1>2, WantedIs DEF TheLog
<1>5. CASE call = "QueryBlockEvent"
  BY <1>3, <1>4, <1>5 DEF PassedOver, SkippedByBlockEvent, Topics
<1>6. CASE call # "QueryBlockEvent"
  BY <1>3, <1>4, <1>6 DEF PassedOver, SkippedByOracleSetUpdated, Topics
<1> QED
  BY <1>5, <1>6

\* One log further, one more place is passed.
LEMMA OneLogFurther ==
  ASSUME TypeOK, AtLog, tx \in 1..Len(block), log \in 1..Len(block[tx].logs),
         log' = log + 1, tx' = tx, call' = call, block' = block
  PROVE  Passed(call)' = Passed(call) \cup (Wanted(call) \cap {[tx |-> tx, log |-> log]})
<1>1. Wanted(call)' = Wanted(call)
  BY WantedOfBlock
<1>2. ASSUME NEW p \in Wanted(call)
      PROVE  Before(p, [tx |-> tx, log |-> log + 1])
               <=> Before(p, [tx |-> tx, log |-> log]) \/ p = [tx |-> tx, log |-> log]
  BY <1>2, WantedPlaces DEF Before, TypeOK
<1>3. Passed(call)' = {p \in Wanted(call) : Before(p, [tx |-> tx, log |-> log + 1])}
  BY <1>1 DEF Passed, Before
<1> QED
  BY <1>2, <1>3 DEF Passed

\* A step along the loops keeps the loop invariant.
LEMMA LoopKeepsInv ==
  ASSUME IndInv, PassOver \/ Unpack \/ NextTransaction, TypeOK'
  PROVE  LoopInv'
<1> USE DEF IndInv
<1>1. /\ call # "none" /\ call' = call /\ block' = block /\ InBlock
      /\ tx \in 1..Len(block) /\ log \in 1..(Len(block[tx].logs) + 1) /\ Len(block) \in Nat
      /\ Len(block[tx].logs) \in Nat /\ found \in Seq(Places)
  <2>1. call # "none" /\ call' = call /\ block' = block /\ InBlock
    BY DEF PassOver, Unpack, NextTransaction, AtLog, InBlock
  <2>2. block \in Seq(Transactions)
    BY BlocksAssumption DEF TypeOK
  <2>3. tx \in 1..Len(block) /\ log \in 1..(Len(block[tx].logs) + 1) /\ Len(block) \in Nat
    BY <2>1, <2>2 DEF LoopInv, InBlock
  <2>4. block[tx] \in Transactions
    BY <2>2, <2>3
  <2>5. Len(block[tx].logs) \in Nat
    BY <2>4 DEF Transactions
  <2> QED
    BY <2>1, <2>3, <2>5 DEF TypeOK
<1>2. CASE PassOver \/ Unpack
  <2> DEFINE here == [tx |-> tx, log |-> log]
  <2>1. /\ AtLog /\ log \in 1..Len(block[tx].logs) /\ log' = log + 1 /\ tx' = tx
    BY <1>1, <1>2 DEF PassOver, Unpack, AtLog
  <2>2. Passed(call)' = Passed(call) \cup (Wanted(call) \cap {here})
    BY <1>1, <2>1, OneLogFurther
  <2>3. here \in Wanted(call) <=> ~PassedOver
    BY <1>1, <2>1, FilterIsRight
  <2>4. CASE PassOver
    <3>1. Passed(call)' = Passed(call) /\ found' = found
      BY <2>2, <2>3, <2>4 DEF PassOver
    <3> QED
      BY <1>1, <2>1, <3>1 DEF LoopInv, Lists, InOrder
  <2>5. CASE Unpack
    <3>1. Passed(call)' = Passed(call) \cup {here} /\ found' = Append(found, here) /\ TheLog.decodable
      BY <2>2, <2>3, <2>5 DEF Unpack
    <3>2. ASSUME NEW p \in Passed(call) PROVE Before(p, here)
      BY <3>2 DEF Passed
    <3>3. /\ Len(found') = Len(found) + 1 /\ Len(found) \in Nat /\ found'[Len(found) + 1] = here
          /\ \A i \in 1..Len(found) : found'[i] = found[i]
      BY <1>1, <3>1
    <3>4. Lists(found, Passed(call))
      BY <1>1 DEF LoopInv
    <3>5. \A i \in 1..Len(found') : found'[i] \in Passed(call)'
      BY <3>1, <3>3, <3>4 DEF Lists, InOrder
    <3>6. \A p \in Passed(call)' : \E i \in 1..Len(found') : found'[i] = p
      BY <3>1, <3>3, <3>4 DEF Lists, InOrder
    <3>7. ASSUME NEW i \in 1..Len(found'), NEW j \in 1..Len(found'), i < j
          PROVE  Before(found'[i], found'[j])
      <4>1. CASE j = Len(found) + 1
        <5>1. i \in 1..Len(found) /\ found[i] \in Passed(call)
          BY <3>3, <3>4, <3>7, <4>1 DEF Lists, InOrder
        <5> QED
          BY <3>2, <3>3, <4>1, <5>1
      <4>2. CASE j # Len(found) + 1
        <5>1. i \in 1..Len(found) /\ j \in 1..Len(found)
          BY <3>3, <3>7, <4>2
        <5> QED
          BY <3>3, <3>4, <3>7, <5>1 DEF Lists, InOrder
      <4> QED
        BY <4>1, <4>2
    <3>8. Lists(found', Passed(call)')
      BY <3>5, <3>6, <3>7 DEF Lists, InOrder
    <3>9. \A p \in Passed(call)' : block[p.tx].logs[p.log].decodable
      BY <1>1, <3>1 DEF LoopInv, TheLog
    <3> QED
      BY <1>1, <2>1, <3>8, <3>9 DEF LoopInv
  <2> QED
    BY <1>2, <2>4, <2>5
<1>3. CASE NextTransaction
  <2>1. /\ log = Len(block[tx].logs) + 1 /\ tx' = tx + 1 /\ log' = 1 /\ found' = found
    BY <1>1, <1>3 DEF NextTransaction, AtLog, TypeOK
  <2>2. Wanted(call)' = Wanted(call)
    BY <1>1, WantedOfBlock
  <2>3. ASSUME NEW p \in Wanted(call)
        PROVE  Before(p, [tx |-> tx + 1, log |-> 1]) <=> Before(p, [tx |-> tx, log |-> log])
    <3>1. /\ p.tx \in 1..Len(block) /\ p.log \in 1..Len(block[p.tx].logs)
      BY <2>3, WantedPlaces
    <3>2. p.tx = tx => p.log < log
      BY <1>1, <2>1, <3>1
    <3> QED
      BY <1>1, <2>1, <3>1, <3>2 DEF Before
  <2>4. Passed(call)' = Passed(call)
    BY <2>1, <2>2, <2>3 DEF Passed, Before
  <2>5. tx' \in 1..(Len(block) + 1) /\ (tx' <= Len(block) => log' \in 1..(Len(block[tx'].logs) + 1))
    <3>1. ASSUME tx' <= Len(block) PROVE Len(block[tx'].logs) \in Nat
      <4>1. block \in Seq(Transactions) /\ tx' \in 1..Len(block)
        BY <1>1, <2>1, <3>1, BlocksAssumption DEF TypeOK
      <4>2. block[tx'] \in Transactions
        BY <4>1
      <4> QED
        BY <4>2 DEF Transactions
    <3> QED
      BY <1>1, <2>1, <3>1
  <2> QED
    BY <1>1, <2>1, <2>4, <2>5 DEF LoopInv, Lists, InOrder
<1> QED
  BY <1>2, <1>3

\* A query begins with nothing passed.
LEMMA FetchKeepsInv ==
  ASSUME IndInv, NEW query \in Queries, Fetch(query)
  PROVE  LoopInv'
<1>1. /\ call' = query /\ tx' = 1 /\ log' = 1 /\ found' = <<>> /\ block' = block
      /\ block \in Seq(Transactions)
  BY BlocksAssumption DEF Fetch, NewSlice, IndInv, TypeOK
<1>2. Passed(call)' = {}
  <2>1. Wanted(call)' = Wanted(query)
    BY <1>1, WantedOfBlock
  <2>2. \A p \in Wanted(query) : p.tx \in 1..Len(block) /\ p.log \in 1..Len(block[p.tx].logs)
    BY WantedPlaces DEF IndInv
  <2>3. \A p \in Wanted(query) : ~Before(p, [tx |-> 1, log |-> 1])
    BY <1>1, <2>2 DEF Before
  <2> QED
    BY <1>1, <2>1, <2>3 DEF Passed, Before
<1>3. Lists(found', Passed(call)')
  BY <1>1, <1>2 DEF Lists, InOrder
<1>4. 1 <= Len(block) => Len(block[1].logs) \in Nat
  <2>1. ASSUME 1 <= Len(block) PROVE block[1] \in Transactions
    BY <1>1, <2>1
  <2> QED
    BY <2>1 DEF Transactions
<1> QED
  BY <1>1, <1>2, <1>3, <1>4 DEF LoopInv

\* A query that returns has passed the whole block.
LEMMA ReturnKeepsInv ==
  ASSUME IndInv, Return
  PROVE  AnswerInv'
<1>1. /\ call \in Queries /\ ~(tx <= Len(block)) /\ block' = block /\ tx \in Nat
      /\ answered' = answered \cup {call}
      /\ answer' = [answer EXCEPT ![call] = found] /\ answer \in [Queries -> Seq(Places)]
      /\ failed' = failed /\ failed \subseteq Queries
  BY DEF IndInv, TypeOK, Return, InBlock
<1>2. Passed(call) = Wanted(call)
  <2>1. \A p \in Wanted(call) : p.tx \in 1..Len(block)
    BY WantedPlaces DEF IndInv
  <2>2. \A p \in Wanted(call) : Before(p, [tx |-> tx, log |-> log])
    <3>1. Len(block) \in Nat
      BY BlocksAssumption DEF IndInv, TypeOK
    <3> QED
      BY <1>1, <2>1, <3>1 DEF Before
  <2> QED
    BY <2>2 DEF Passed
<1>3. Lists(found, Wanted(call)) /\ Decodable(call)
  BY <1>1, <1>2 DEF IndInv, LoopInv, Decodable, Queries
<1>4. \A q \in Queries : Wanted(q)' = Wanted(q) /\ Decodable(q)' = Decodable(q)
  BY <1>1, WantedOfBlock
<1>5. ASSUME NEW q \in answered'
      PROVE  Lists(answer'[q], Wanted(q)') /\ Decodable(q)'
  <2>1. CASE q = call
    BY <1>1, <1>3, <1>4, <2>1
  <2>2. CASE q # call
    <3>1. q \in answered /\ q \in Queries /\ answer'[q] = answer[q]
      BY <1>1, <1>5, <2>2 DEF IndInv, TypeOK
    <3> QED
      BY <1>4, <3>1 DEF IndInv, AnswerInv
  <2> QED
    BY <2>1, <2>2
<1>6. ASSUME NEW q \in failed' PROVE ~Decodable(q)'
  BY <1>1, <1>4, <1>6 DEF IndInv, AnswerInv
<1>7. ASSUME NEW q \in answered' PROVE Lists(answer[q], Wanted(q))' /\ Decodable(q)'
  BY <1>5, <1>7 DEF Lists, InOrder
<1> QED
  BY <1>6, <1>7 DEF AnswerInv

\* The types.
LEMMA NextKeepsType ==
  ASSUME TypeOK, [Next]_vars
  PROVE  TypeOK'
<1> USE DEF TypeOK
<1>1. ASSUME NEW query \in Queries, Fetch(query) PROVE TypeOK'
  BY <1>1 DEF Fetch, NewSlice
<1>2. CASE PassOver \/ NextTransaction
  BY <1>2 DEF PassOver, NextTransaction
<1>3. CASE Unpack
  <2>1. [tx |-> tx, log |-> log] \in Places
    BY DEF Places
  <2> QED
    BY <1>3, <2>1 DEF Unpack
<1>4. CASE UnpackFails
  BY <1>4 DEF UnpackFails, Leave, AtLog, InBlock
<1>5. CASE Return
  BY <1>5 DEF Return, Leave, Queries
<1>6. CASE UNCHANGED vars
  BY <1>6 DEF vars
<1> QED
  BY <1>1, <1>2, <1>3, <1>4, <1>5, <1>6 DEF Next, Step

\* What has been answered, and what has failed, are left alone by the others.
LEMMA AnswersUntouched ==
  ASSUME AnswerInv, UNCHANGED <<block, answered, answer, failed>>
  PROVE  AnswerInv'
<1>1. \A query : Wanted(query)' = Wanted(query)
  BY WantedOfBlock
<1>2. \A query : Decodable(query)' = Decodable(query)
  BY WantedOfBlock
<1>3. answered' = answered /\ answer' = answer /\ failed' = failed
  OBVIOUS
<1>4. ASSUME NEW query \in answered'
      PROVE  Lists(answer[query], Wanted(query))' /\ Decodable(query)'
  <2>1. Lists(answer[query], Wanted(query)) /\ Decodable(query)
    BY <1>3, <1>4 DEF AnswerInv
  <2> QED
    BY <1>1, <1>2, <1>3, <2>1 DEF Lists, InOrder
<1>5. ASSUME NEW query \in failed' PROVE ~Decodable(query)'
  BY <1>2, <1>3, <1>5 DEF AnswerInv
<1> QED
  BY <1>4, <1>5 DEF AnswerInv

\* A query fails at a log that it has to decode and cannot.
LEMMA FailureKeepsInv ==
  ASSUME IndInv, UnpackFails
  PROVE  AnswerInv'
<1>1. /\ call \in Queries /\ InBlock /\ AtLog /\ ~PassedOver /\ ~TheLog.decodable
      /\ failed' = failed \cup {call} /\ UNCHANGED <<block, answered, answer>>
  BY DEF IndInv, TypeOK, UnpackFails, AtLog, InBlock
<1>2. ~Decodable(call)
  <2>1. tx \in 1..Len(block) /\ log \in 1..Len(block[tx].logs)
    <3>1. block \in Seq(Transactions) /\ call # "none"
      BY <1>1, BlocksAssumption DEF IndInv, TypeOK, InBlock
    <3>2. tx \in 1..Len(block) /\ log \in 1..(Len(block[tx].logs) + 1)
      BY <1>1, <3>1 DEF IndInv, LoopInv, InBlock
    <3>3. block[tx] \in Transactions
      BY <3>1, <3>2
    <3>4. Len(block[tx].logs) \in Nat
      BY <3>3 DEF Transactions
    <3> QED
      BY <1>1, <3>2, <3>4 DEF AtLog
  <2>2. [tx |-> tx, log |-> log] \in Wanted(call)
    BY <1>1, <2>1, FilterIsRight DEF IndInv
  <2> QED
    BY <1>1, <2>2 DEF Decodable, TheLog
<1>3. \A query : Wanted(query)' = Wanted(query)
  BY <1>1, WantedOfBlock
<1>4. \A query : Decodable(query)' = Decodable(query)
  BY <1>1, WantedOfBlock
<1>5. ASSUME NEW query \in answered'
      PROVE  Lists(answer[query], Wanted(query))' /\ Decodable(query)'
  <2>1. Lists(answer[query], Wanted(query)) /\ Decodable(query)
    BY <1>1, <1>5 DEF IndInv, AnswerInv
  <2> QED
    BY <1>1, <1>3, <1>4, <2>1 DEF Lists, InOrder
<1>6. ASSUME NEW query \in failed' PROVE ~Decodable(query)'
  BY <1>1, <1>2, <1>4, <1>6 DEF IndInv, AnswerInv
<1> QED
  BY <1>5, <1>6 DEF AnswerInv

\* Every step keeps the invariant.
LEMMA NextKeepsInv ==
  ASSUME IndInv, [Next]_vars
  PROVE  IndInv'
<1>1. TypeOK'
  BY NextKeepsType DEF IndInv
<1>2. CASE \E query \in Queries : Fetch(query)
  <2>1. UNCHANGED <<block, answered, answer, failed>>
    BY <1>2 DEF Fetch
  <2> QED
    BY <1>1, <1>2, <2>1, FetchKeepsInv, AnswersUntouched DEF IndInv
<1>3. CASE PassOver \/ Unpack \/ NextTransaction
  <2>1. UNCHANGED <<block, answered, answer, failed>>
    BY <1>3 DEF PassOver, Unpack, NextTransaction
  <2> QED
    BY <1>1, <1>3, <2>1, LoopKeepsInv, AnswersUntouched DEF IndInv
<1>4. CASE UnpackFails
  <2>1. call' = "none"
    BY <1>4 DEF UnpackFails, Leave
  <2> QED
    BY <1>1, <1>4, <2>1, FailureKeepsInv DEF IndInv, LoopInv
<1>5. CASE Return
  <2>1. call' = "none"
    BY <1>5 DEF Return, Leave
  <2> QED
    BY <1>1, <1>5, <2>1, ReturnKeepsInv DEF IndInv, LoopInv
<1>6. CASE UNCHANGED vars
  <2>1. /\ block' = block /\ call' = call /\ tx' = tx /\ log' = log /\ found' = found
        /\ UNCHANGED <<block, answered, answer, failed>>
    BY <1>6 DEF vars
  <2>2. Passed(call)' = Passed(call)
    BY <2>1, WantedOfBlock DEF Passed, Before
  <2>3. LoopInv'
    BY <2>1, <2>2 DEF IndInv, LoopInv, Lists
  <2> QED
    BY <1>1, <2>1, <2>3, AnswersUntouched DEF IndInv
<1> QED
  BY <1>2, <1>3, <1>4, <1>5, <1>6 DEF Next, Step

\* The inductive invariant holds.
THEOREM Inductive == Spec => []IndInv
<1>1. Init => IndInv
  BY DEF Init, IndInv, TypeOK, LoopInv, AnswerInv
<1>2. IndInv /\ [Next]_vars => IndInv'
  BY NextKeepsInv
<1> QED
  BY <1>1, <1>2, PTL DEF Spec

\* Whatever the block and however often it is asked for, what the readers hold
\* and what they answer are lists of places of logs.
THEOREM TypeCorrect == Spec => []TypeOK
<1>1. IndInv => TypeOK
  BY DEF IndInv
<1> QED
  BY <1>1, Inductive, PTL

\* A query that returns has every event that the contract has emitted, in order,
\* and besides those at most strangers in calls of the contract.
THEOREM AnswersSound == Spec => []AnswersComplete
<1>1. IndInv => AnswersComplete
  <2> SUFFICES ASSUME IndInv, NEW query \in answered
               PROVE  /\ InOrder(answer[query])
                      /\ \A p \in Emitted(query) :
                           \E i \in 1..Len(answer[query]) : answer[query][i] = p
                      /\ \A i \in 1..Len(answer[query]) :
                           answer[query][i] \in Emitted(query) \cup Strangers(query)
    BY DEF AnswersComplete
  <2>1. Lists(answer[query], Emitted(query) \cup Strangers(query))
    BY DEF IndInv, AnswerInv, Wanted
  <2> QED
    BY <2>1 DEF Lists
<1> QED
  BY <1>1, Inductive, PTL

\* The relay's query and the scan's agree, whatever the block, though each has
\* a filter of its own.
THEOREM QueriesConsistent == Spec => []QueriesAgree
<1>1. ASSUME IndInv PROVE QueriesAgree
  <2> DEFINE all == "QueryBlockEvent"
             sets == "QueryOracleSetUpdatedEvent"
  <2>1. Wanted(sets) = {p \in Wanted(all) : block[p.tx].logs[p.log].topic = OracleSetUpdated}
    BY WantedIs, BlocksAssumption DEF Topics
  <2>2. all \in answered => sets \notin failed
    BY <1>1, <2>1 DEF IndInv, AnswerInv, Decodable
  <2>3. ASSUME answered = Queries
        PROVE  Lists(answer[sets], {p \in {answer[all][i] : i \in 1..Len(answer[all])} :
                                      block[p.tx].logs[p.log].topic = OracleSetUpdated})
    <3>1. Lists(answer[sets], Wanted(sets)) /\ Lists(answer[all], Wanted(all))
      BY <1>1, <2>3 DEF IndInv, AnswerInv, Queries
    <3>2. Wanted(all) = {answer[all][i] : i \in 1..Len(answer[all])}
      BY <3>1 DEF Lists
    <3> QED
      BY <2>1, <3>1, <3>2
  <2> QED
    BY <2>2, <2>3 DEF QueriesAgree
<1> QED
  BY <1>1, Inductive, PTL

\* A block with a log that a query has to decode and cannot is never read by
\* it, by no number of retries: the safety half of ReadIffDecodable.
THEOREM PoisonStops == Spec => [](\A query \in answered : Decodable(query))
<1>1. IndInv => \A query \in answered : Decodable(query)
  BY DEF IndInv, AnswerInv
<1> QED
  BY <1>1, Inductive, PTL
=============================================================================
