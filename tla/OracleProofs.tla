---------------------------- MODULE OracleProofs ----------------------------
(***************************************************************************)
(* Proofs about the event relay, for every length of the chains, every     *)
(* delay, chunk and batch size.                                            *)
(***************************************************************************)
EXTENDS Oracle, TLAPS, FiniteSetTheorems, SequenceTheorems, SequenceFacts

-----------------------------------------------------------------------------
(* Block numbers, and the claims of a block.                               *)

\* uint64 subtraction stays in the naturals when the subtrahend fits.
LEMMA MinusNat ==
  ASSUME NEW a \in Nat, NEW b \in Nat, b <= U64
  PROVE  Minus(a, b) \in Nat
BY ChainAssumption DEF Minus

\* TronBlockDelay and ScanDepth fit.
LEMMA DepthsFit == TronBlockDelay <= U64 /\ ScanDepth <= U64
BY ChainAssumption, ChainOldEnough, OracleAssumption

\* The claims collected from one block are a sequence of claims.
LEMMA SortedMsgsType ==
  ASSUME events \in Seq(Events), NEW b \in Nat, NEW s \in SortedMsgs(NewEventsIn(b), b)
  PROVE  s \in Seq(Msgs) /\ Len(s) = Cardinality(NewEventsIn(b))
<1> DEFINE N == NewEventsIn(b)
<1>1. Len(events) \in Nat /\ N \in SUBSET (1..Len(events))
  BY LenProperties DEF NewEventsIn, EventsIn
<1>2. IsFiniteSet(1..Len(events))
  BY <1>1, FS_Interval
<1>3. Cardinality(N) \in Nat
  <2>1. IsFiniteSet(N)
    BY <1>1, <1>2, FS_Subset
  <2> QED
    BY <2>1, FS_CardinalityType
<1>4. {ToMsg(n, b) : n \in N} \subseteq Msgs
  <2> SUFFICES ASSUME NEW n \in N PROVE ToMsg(n, b) \in Msgs
    OBVIOUS
  <2>1. events[n] \in Events /\ n \in Nat
    BY <1>1, ElementOfSeq
  <2> QED
    BY <2>1, OracleAssumption DEF ToMsg, Msgs, Events
<1>5. s \in [1..Cardinality(N) -> Msgs]
  BY <1>4 DEF SortedMsgs
<1> QED
  BY <1>3, <1>5, SegmentIsSeq

-----------------------------------------------------------------------------
(* Type correctness.                                                       *)

\* The environment's and the daemon's steps, one by one.
LEMMA ChainKeepsType ==
  ASSUME TypeOK, ChainNext, UNCHANGED <<coreVars, daemonVars>>
  PROVE  TypeOK'
<1>1. ChainTypeOK'
  <2>1. ASSUME NEW kinds \in BlockContents, NewBlock(kinds)
        PROVE  ChainTypeOK'
    <3> DEFINE new == [i \in 1..Len(kinds) |-> [height |-> head + 1, kind |-> kinds[i]]]
    <3>1. kinds \in Seq(EventKinds) /\ Len(kinds) \in Nat
      <4>1. PICK n \in 0..MaxPerBlock : kinds \in [1..n -> EventKinds]
        BY <2>1 DEF BlockContents
      <4> QED
        BY <4>1, SegmentIsSeq, ChainAssumption
    <3>2. new \in [1..Len(kinds) -> Events]
      BY <3>1, ElementOfSeq DEF TypeOK, ChainTypeOK, Events
    <3>3. new \in Seq(Events)
      BY <3>1, <3>2, SegmentIsSeq
    <3>4. events' \in Seq(Events)
      BY <2>1, <3>3, JoinedSeq DEF TypeOK, ChainTypeOK, NewBlock
    <3>5. /\ head' \in Nat /\ settled' \in Nat
          /\ TronBlockDelay <= settled' /\ settled' <= head' /\ head' <= MaxHead
      BY <2>1, ChainAssumption DEF TypeOK, ChainTypeOK, NewBlock
    <3> QED
      BY <3>4, <3>5 DEF ChainTypeOK
  <2>2. ASSUME NEW b \in settled..head, Fork(b)
        PROVE  ChainTypeOK'
    <3>1. PICK n \in 0..Len(events) : events' = SubSeq(events, 1, n)
      BY <2>2 DEF Fork
    <3>2. Len(events) \in Nat
      BY LenProperties DEF TypeOK, ChainTypeOK
    <3>3. events' \in Seq(Events)
      BY <3>1, <3>2, PartOfSeq DEF TypeOK, ChainTypeOK
    <3> QED
      BY <2>2, <3>3, ChainAssumption DEF Fork, TypeOK, ChainTypeOK
  <2> QED
    BY <2>1, <2>2 DEF ChainNext
<1>2. CoreTypeOK' /\ OracleTypeOK'
  BY DEF TypeOK, CoreTypeOK, OracleTypeOK, coreVars, daemonVars,
         Running, Ticking, Starting
<1> QED
  BY <1>1, <1>2 DEF TypeOK

\* Executing a transaction: the claims and their height keep their types.
LEMMA ExecuteType ==
  ASSUME CoreTypeOK, NEW tx \in Seq(Msgs), Execute(tx)
  PROVE  /\ claimed' \in Seq(Claims)
         /\ Len(claimed') = Len(claimed) + Len(tx)
         /\ coreHeight' \in Nat
         /\ Len(tx) \in Nat \ {0}
         /\ \A i \in 1..Len(claimed) : claimed'[i] = claimed[i]
         /\ \A i \in 1..Len(tx) :
              claimed'[Len(claimed) + i] = [height |-> tx[i].height, kind |-> tx[i].kind]
<1> DEFINE new == [i \in 1..Len(tx) |-> [height |-> tx[i].height, kind |-> tx[i].kind]]
<1>1. Len(tx) \in Nat \ {0}
  BY EmptySeq DEF Execute, Continues
<1>2. new \in [1..Len(tx) -> Claims]
  <2>1. ASSUME NEW i \in 1..Len(tx)
        PROVE  [height |-> tx[i].height, kind |-> tx[i].kind] \in Claims
    <3>1. tx[i] \in Msgs
      BY ElementOfSeq
    <3> QED
      BY <3>1 DEF Msgs, Claims
  <2> QED
    BY <2>1
<1>3. new \in Seq(Claims) /\ Len(new) = Len(tx)
  BY <1>1, <1>2, SegmentIsSeq
<1>4. tx[Len(tx)] \in Msgs
  BY <1>1, ElementOfSeq
<1>5. claimed' = claimed \o new /\ coreHeight' = tx[Len(tx)].height
  BY DEF Execute
<1>6. /\ claimed' \in Seq(Claims) /\ Len(claimed') = Len(claimed) + Len(tx)
      /\ \A i \in 1..Len(claimed) : claimed'[i] = claimed[i]
      /\ \A i \in 1..Len(tx) : claimed'[Len(claimed) + i] = new[i]
  BY <1>3, <1>5, JoinedSeq DEF CoreTypeOK
<1> QED
  BY <1>1, <1>4, <1>5, <1>6 DEF Msgs

\* A step of fxCore (a claim executed or refused, an offline oracle) keeps
\* every variable in its type.
LEMMA CoreKeepsType ==
  ASSUME TypeOK, CoreNext, UNCHANGED <<chainVars, daemonVars>>
  PROVE  TypeOK'
<1>1. CoreTypeOK'
  <2>1. ASSUME NEW tx \in pending, DeliverLate(tx)
        PROVE  CoreTypeOK'
    <3>1. tx \in Seq(Msgs)
      BY DEF TypeOK, CoreTypeOK
    <3> QED
      BY <2>1, <3>1, ExecuteType DEF DeliverLate, TypeOK, CoreTypeOK
  <2>2. ASSUME NEW tx \in pending, DropLate(tx)
        PROVE  CoreTypeOK'
    BY <2>2 DEF DropLate, TypeOK, CoreTypeOK
  <2>3. ASSUME SetOnline
        PROVE  CoreTypeOK'
    BY <2>3 DEF SetOnline, TypeOK, CoreTypeOK
  <2> QED
    BY <2>1, <2>2, <2>3 DEF CoreNext
<1>2. ChainTypeOK' /\ OracleTypeOK'
  BY DEF TypeOK, ChainTypeOK, OracleTypeOK, chainVars, daemonVars,
         Running, Ticking, Starting
<1> QED
  BY <1>1, <1>2 DEF TypeOK

\* A step that leaves both chains alone keeps their types.
LEMMA ChainsUntouched ==
  ASSUME TypeOK, UNCHANGED <<chainVars, coreVars>>
  PROVE  ChainTypeOK' /\ CoreTypeOK'
BY DEF TypeOK, ChainTypeOK, CoreTypeOK, chainVars, coreVars

\* NewOracle keeps every variable in its type, each way it can end.
LEMMA StartKeepsType ==
  ASSUME TypeOK, Start
  PROVE  TypeOK'
<1> USE DEF Running, Ticking, Starting
<1>1. ChainTypeOK' /\ CoreTypeOK'
  <2>1. UNCHANGED <<chainVars, coreVars>>
    BY DEF Start, Boot, BootFresh, ScanHead, ScanDown, ScanFound, ScanExhausted
  <2> QED
    BY <2>1, ChainsUntouched
<1>2. OracleTypeOK'
  <2>1. ASSUME NEW flag \in StartFlags, Boot(flag)
        PROVE  OracleTypeOK'
    <3>1. flag \in Nat
      BY OracleAssumption
    <3>2. FlaggedStart(flag) \in Nat /\ LastBlockNumber(flag) \in Nat
      BY <3>1 DEF FlaggedStart, LastBlockNumber, LastEventBlockHeight, Larger, TypeOK, CoreTypeOK
    <3>3. CachedStart(LastBlockNumber(flag)) \in Nat
      BY <3>2, OracleAssumption DEF CachedStart, Larger, TypeOK, OracleTypeOK
    <3>4. ImposedBy(flag) \in Nat
      BY <3>2, <3>3 DEF ImposedBy
    <3>5. startBlockNumber' \in Nat /\ imposed' \in Nat
      BY <2>1, <3>3, <3>4 DEF Boot, Larger, TypeOK, OracleTypeOK
    <3> QED
      BY <2>1, <3>5 DEF Boot, TypeOK, OracleTypeOK
  <2>2. ASSUME NEW flag \in StartFlags, BootFresh(flag)
        PROVE  OracleTypeOK'
    BY <2>2 DEF BootFresh, TypeOK, OracleTypeOK
  <2>3. ASSUME ScanHead
        PROVE  OracleTypeOK'
    <3>1. Minus(head, ScanDepth) \in Nat
      BY MinusNat, DepthsFit, OracleAssumption DEF TypeOK, ChainTypeOK
    <3> QED
      BY <2>3, <3>1 DEF ScanHead, TypeOK, ChainTypeOK, OracleTypeOK
  <2>4. ASSUME ScanDown
        PROVE  OracleTypeOK'
    BY <2>4 DEF ScanDown, InWindow, TypeOK, OracleTypeOK
  <2>5. ASSUME ScanFound
        PROVE  OracleTypeOK'
    <3>1. startBlockNumber' \in Nat /\ imposed' \in Nat
      BY <2>5 DEF ScanFound, InWindow, Larger, TypeOK, OracleTypeOK
    <3> QED
      BY <2>5, <3>1, EmptySeq DEF ScanFound, DropLocals, TypeOK, OracleTypeOK
  <2>6. ASSUME ScanExhausted
        PROVE  OracleTypeOK'
    BY <2>6, EmptySeq DEF ScanExhausted, DropLocals, TypeOK, OracleTypeOK
  <2> QED
    BY <2>1, <2>2, <2>3, <2>4, <2>5, <2>6 DEF Start
<1> QED
  BY <1>1, <1>2 DEF TypeOK

\* The chunk that BatchSendMsg cuts next.
LEMMA NextChunkType ==
  ASSUME OracleTypeOK, endIndex < Len(msgs)
  PROVE  /\ ChunkEnd \in endIndex + 1..Len(msgs)
         /\ NextChunk \in Seq(Msgs)
         /\ Len(NextChunk) = ChunkEnd - endIndex
         /\ Len(NextChunk) <= BatchSendMsgCount
         /\ \A i \in 1..Len(NextChunk) : NextChunk[i] = msgs[endIndex + i]
<1>1. Len(msgs) \in Nat /\ endIndex \in Nat
  BY LenProperties DEF OracleTypeOK
<1>2. ChunkEnd \in endIndex + 1..Len(msgs) /\ ChunkEnd - endIndex <= BatchSendMsgCount
  BY <1>1, OracleAssumption DEF ChunkEnd
<1>3. /\ NextChunk \in Seq(Msgs)
      /\ Len(NextChunk) = IF endIndex + 1 <= ChunkEnd THEN ChunkEnd - (endIndex + 1) + 1 ELSE 0
      /\ \A i \in 1..(ChunkEnd - (endIndex + 1) + 1) : NextChunk[i] = msgs[endIndex + 1 + i - 1]
  <2>1. endIndex + 1 \in 1..(Len(msgs) + 1) /\ ChunkEnd \in 0..Len(msgs)
    BY <1>1, <1>2
  <2> QED
    BY <2>1, PartOfSeq DEF NextChunk, OracleTypeOK
<1> QED
  BY <1>1, <1>2, <1>3

\* So does each part of bridgeEvent.
LEMMA TickKeepsType ==
  ASSUME TypeOK, Tick
  PROVE  TypeOK'
<1> USE DEF Running, Ticking, Starting
<1>1. CASE CheckOracle
  BY <1>1, ChainsUntouched DEF CheckOracle, TypeOK, OracleTypeOK
<1>2. CASE ReadNonce
  <2>1. lastEventNonce' \in Nat
    BY <1>2, LenProperties DEF ReadNonce, LastEventNonce, TypeOK, CoreTypeOK
  <2> QED
    BY <1>2, <2>1, ChainsUntouched DEF ReadNonce, TypeOK, OracleTypeOK
<1>3. CASE NothingNew
  BY <1>3, EmptySeq, ChainsUntouched DEF NothingNew, DropLocals, TypeOK, OracleTypeOK
<1>4. CASE ReadHead
  <2>1. EndBlockNumber(head) \in Nat
    BY MinusNat, DepthsFit, ChainAssumption DEF EndBlockNumber, TypeOK, ChainTypeOK
  <2> QED
    BY <1>4, <2>1, EmptySeq, ChainsUntouched DEF ReadHead, TypeOK, OracleTypeOK
<1>5. CASE QueryBlock
  <2>1. PICK s \in SortedMsgs(NewEventsIn(blockNumber), blockNumber) : msgs' = msgs \o s
    BY <1>5 DEF QueryBlock
  <2>2. s \in Seq(Msgs)
    BY SortedMsgsType DEF TypeOK, ChainTypeOK, OracleTypeOK
  <2>3. msgs' \in Seq(Msgs) /\ Len(msgs') = Len(msgs) + Len(s)
    BY <2>1, <2>2, JoinedSeq DEF TypeOK, OracleTypeOK
  <2>4. Len(msgs) \in Nat /\ Len(s) \in Nat
    BY <2>2, LenProperties DEF TypeOK, OracleTypeOK
  <2>5. endIndex' \in 0..Len(msgs')
    BY <1>5, <2>3, <2>4 DEF QueryBlock, TypeOK, OracleTypeOK
  <2>6. pc' \in Running /\ blockNumber' \in Nat /\ batchBlockNumber' \in Nat
    BY <1>5 DEF QueryBlock, TypeOK, OracleTypeOK
  <2> QED
    BY <1>5, <2>3, <2>5, <2>6, ChainsUntouched DEF QueryBlock, TypeOK, OracleTypeOK
<1>6. CASE SendOk
  <2>1. /\ NextChunk \in Seq(Msgs)
        /\ ChunkEnd \in 0..Len(msgs)
    <3>1. endIndex < Len(msgs) /\ endIndex \in Nat
      BY <1>6 DEF SendOk, Sending, TypeOK, OracleTypeOK
    <3> QED
      BY <3>1, NextChunkType DEF TypeOK
  <2>2. claimed' \in Seq(Claims) /\ coreHeight' \in Nat
    BY <1>6, <2>1, ExecuteType DEF SendOk, TypeOK
  <2>3. ChainTypeOK'
    BY <1>6 DEF SendOk, chainVars, TypeOK, ChainTypeOK
  <2>4. CoreTypeOK'
    BY <1>6, <2>2 DEF SendOk, TypeOK, CoreTypeOK
  <2>5. OracleTypeOK'
    BY <1>6, <2>1 DEF SendOk, Sending, TypeOK, OracleTypeOK
  <2> QED
    BY <2>3, <2>4, <2>5 DEF TypeOK
<1>7. CASE SendUnanswered
  <2>1. NextChunk \in Seq(Msgs)
    BY <1>7, NextChunkType DEF SendUnanswered, Sending, TypeOK, OracleTypeOK
  <2>2. ChainTypeOK'
    BY <1>7 DEF SendUnanswered, chainVars, TypeOK, ChainTypeOK
  <2>3. CoreTypeOK'
    BY <1>7, <2>1 DEF SendUnanswered, TypeOK, CoreTypeOK
  <2>4. OracleTypeOK'
    BY <1>7, EmptySeq DEF SendUnanswered, DropLocals, TypeOK, OracleTypeOK
  <2> QED
    BY <2>2, <2>3, <2>4 DEF TypeOK
<1>8. CASE CallFails
  BY <1>8, EmptySeq, ChainsUntouched DEF CallFails, DropLocals, TypeOK, OracleTypeOK
<1>9. CASE Advance
  <2>1. cacheFile' \in Nat
    BY <1>9 DEF Advance, SaveOutcomes, TornWrites, TypeOK, OracleTypeOK
  <2>2. startBlockNumber' \in Nat /\ imposed' \in Nat
    BY <1>9 DEF Advance, TypeOK, OracleTypeOK
  <2>3. CASE blockNumber = limit
    BY <1>9, <2>1, <2>2, <2>3, EmptySeq, ChainsUntouched
       DEF Advance, DropLocals, TypeOK, OracleTypeOK
  <2>4. CASE blockNumber # limit
    BY <1>9, <2>1, <2>2, <2>4, EmptySeq, ChainsUntouched
       DEF Advance, TypeOK, OracleTypeOK
  <2> QED
    BY <2>3, <2>4
<1> QED
  BY <1>1, <1>2, <1>3, <1>4, <1>5, <1>6, <1>7, <1>8, <1>9 DEF Tick

\* And so does the death of the process at any line.
LEMMA CrashKeepsType ==
  ASSUME TypeOK, Crash
  PROVE  TypeOK'
BY EmptySeq, ChainsUntouched
   DEF Crash, DropLocals, Running, Ticking, Starting, TypeOK, OracleTypeOK

\* The first run of the daemon starts well typed.
LEMMA InitType == Init => TypeOK
<1> SUFFICES ASSUME Init PROVE TypeOK
  OBVIOUS
<1>1. ChainTypeOK
  BY ChainAssumption, ChainOldEnough DEF Init, ChainInit, ChainTypeOK
<1>2. CoreTypeOK
  <2>1. Len(InitEvents) \in Nat /\ InitEvents \in Seq(Claims)
    BY ChainAssumption, OracleAssumption, LenProperties DEF Events, Claims
  <2>2. PICK n \in 0..Len(InitEvents) :
          /\ claimed = SubSeq(InitEvents, 1, n)
          /\ coreHeight \in {0} \cup {InitEvents[m].height : m \in {n} \cap 1..n}
    BY DEF Init, CoreInit
  <2>3. claimed \in Seq(Claims)
    BY <2>1, <2>2, PartOfSeq
  <2>4. coreHeight \in Nat
    <3>1. ASSUME NEW m \in 1..Len(InitEvents)
          PROVE  InitEvents[m].height \in Nat
      <4>1. InitEvents[m] \in Claims
        BY <2>1, ElementOfSeq
      <4> QED
        BY <4>1 DEF Claims
    <3> QED
      BY <2>1, <2>2, <3>1
  <2> QED
    BY <2>3, <2>4 DEF Init, CoreInit, CoreTypeOK
<1>3. OracleTypeOK
  BY EmptySeq, OracleAssumption DEF Init, OracleInit, OracleTypeOK, Running, Ticking, Starting
<1> QED
  BY <1>1, <1>2, <1>3 DEF TypeOK

\* Every step keeps the types.
LEMMA NextKeepsType ==
  ASSUME TypeOK, [Next]_vars
  PROVE  TypeOK'
<1>1. CASE Tick
  BY <1>1, TickKeepsType
<1>2. CASE Start
  BY <1>2, StartKeepsType
<1>3. CASE Crash
  BY <1>3, CrashKeepsType
<1>4. CASE Environment
  BY <1>4, ChainKeepsType, CoreKeepsType DEF Environment
<1>5. CASE UNCHANGED vars
  BY <1>5 DEF vars, chainVars, coreVars, daemonVars, TypeOK, ChainTypeOK, CoreTypeOK,
              OracleTypeOK, Running, Ticking, Starting
<1> QED
  BY <1>1, <1>2, <1>3, <1>4, <1>5 DEF Next

\* The variables of the relay and of both chains have the types that the Go
\* code gives them: block numbers and nonces never leave the naturals.
THEOREM TypeCorrect == Spec => []TypeOK
<1>1. Init => TypeOK
  BY InitType
<1>2. TypeOK /\ [Next]_vars => TypeOK'
  BY NextKeepsType
<1> QED
  BY <1>1, <1>2, PTL DEF Spec

-----------------------------------------------------------------------------
(* The inductive invariant: the steps of the two chains.                   *)

\* Heights and lengths are numbers.
LEMMA HistoryType ==
  ASSUME TypeOK
  PROVE  /\ Len(events) \in Nat
         /\ \A n \in 1..Len(events) : events[n] \in Events /\ events[n].height \in Nat
         /\ Len(claimed) \in Nat
<1>1. Len(events) \in Nat /\ Len(claimed) \in Nat
  BY LenProperties DEF TypeOK, ChainTypeOK, CoreTypeOK
<1>2. ASSUME NEW n \in 1..Len(events)
      PROVE  events[n] \in Events /\ events[n].height \in Nat
  <2>1. events[n] \in Events
    BY ElementOfSeq DEF TypeOK, ChainTypeOK
  <2> QED
    BY <2>1 DEF Events
<1> QED
  BY <1>1, <1>2

\* What a step of the Tron chain does to its history: settled events stay as
\* they are, and what is new is not settled.
LEMMA SettledStays ==
  ASSUME TypeOK, HistoryInv, ChainNext
  PROVE  /\ settled <= settled' /\ settled' \in Nat
         /\ \A n \in SettledEvents : n \in SettledEvents' /\ events'[n] = events[n]
         /\ \A n \in 1..Len(events)' :
              \/ n \in 1..Len(events) /\ events'[n] = events[n]
              \/ events'[n].height > settled
         /\ HistoryInv'
<1> USE HistoryType
<1>1. ASSUME NEW kinds \in BlockContents, NewBlock(kinds)
      PROVE  /\ settled <= settled' /\ settled' \in Nat
             /\ \A n \in SettledEvents : n \in SettledEvents' /\ events'[n] = events[n]
             /\ \A n \in 1..Len(events)' :
                  \/ n \in 1..Len(events) /\ events'[n] = events[n]
                  \/ events'[n].height > settled
             /\ HistoryInv'
  <2> DEFINE new == [i \in 1..Len(kinds) |-> [height |-> head + 1, kind |-> kinds[i]]]
  <2>1. kinds \in Seq(EventKinds) /\ Len(kinds) \in Nat
    <3>1. PICK n \in 0..MaxPerBlock : kinds \in [1..n -> EventKinds]
      BY <1>1 DEF BlockContents
    <3> QED
      BY <3>1, SegmentIsSeq, ChainAssumption
  <2>2. new \in Seq(Events) /\ Len(new) = Len(kinds)
    <3>1. new \in [1..Len(kinds) -> Events]
      BY <2>1, ElementOfSeq DEF TypeOK, ChainTypeOK, Events
    <3> QED
      BY <2>1, <3>1, SegmentIsSeq
  <2>3. /\ Len(events') = Len(events) + Len(kinds)
        /\ \A i \in 1..Len(events) : events'[i] = events[i]
        /\ \A i \in 1..Len(kinds) : events'[Len(events) + i] = new[i]
    BY <1>1, <2>2, JoinedSeq DEF NewBlock, TypeOK, ChainTypeOK
  <2>4. \A n \in 1..Len(events') : n \notin 1..Len(events) => events'[n].height = head + 1
    <3> SUFFICES ASSUME NEW n \in 1..Len(events'), n \notin 1..Len(events)
                 PROVE  events'[n].height = head + 1
      OBVIOUS
    <3>1. n - Len(events) \in 1..Len(kinds) /\ n = Len(events) + (n - Len(events))
      BY <2>1, <2>3
    <3>2. events'[n] = new[n - Len(events)]
      BY <2>3, <3>1
    <3> QED
      BY <3>1, <3>2
  <2>5. /\ settled <= settled' /\ settled' \in Nat /\ head' = head + 1
        /\ head \in Nat /\ settled \in Nat /\ settled <= head
        /\ head' - TronBlockDelay <= settled'
    BY <1>1, ChainAssumption DEF NewBlock, TypeOK, ChainTypeOK, HistoryInv
  <2>6. \A n \in SettledEvents : n \in SettledEvents' /\ events'[n] = events[n]
    BY <2>1, <2>3, <2>5 DEF SettledEvents, EventsUpTo
  <2>7. ASSUME NEW n \in 1..Len(events')
        PROVE  events'[n].height \in 1..head'
    <3>1. CASE n \in 1..Len(events)
      BY <2>3, <2>5, <3>1 DEF HistoryInv
    <3>2. CASE n \notin 1..Len(events)
      BY <2>4, <2>5, <3>2
    <3> QED
      BY <3>1, <3>2
  <2>8. Ordered(events')
    <3> SUFFICES ASSUME NEW i \in 1..Len(events'), NEW j \in 1..Len(events'), i <= j
                 PROVE  events'[i].height <= events'[j].height
      BY DEF Ordered
    <3>1. CASE j \in 1..Len(events)
      BY <2>3, <3>1 DEF HistoryInv, Ordered
    <3>2. CASE j \notin 1..Len(events)
      BY <2>4, <2>5, <2>7, <3>2
    <3> QED
      BY <3>1, <3>2
  <2>9. ASSUME NEW n \in 1..Len(events')
        PROVE  \/ n \in 1..Len(events) /\ events'[n] = events[n]
               \/ events'[n].height > settled
    <3>1. CASE n \in 1..Len(events)
      BY <2>3, <3>1
    <3>2. CASE n \notin 1..Len(events)
      BY <2>4, <2>5, <3>2
    <3> QED
      BY <3>1, <3>2
  <2>10. HistoryInv'
    BY <2>5, <2>7, <2>8 DEF HistoryInv, Ordered
  <2> QED
    BY <2>5, <2>6, <2>9, <2>10
<1>2. ASSUME NEW b \in settled..head, Fork(b)
      PROVE  /\ settled <= settled' /\ settled' \in Nat
             /\ \A n \in SettledEvents : n \in SettledEvents' /\ events'[n] = events[n]
             /\ \A n \in 1..Len(events)' :
                  \/ n \in 1..Len(events) /\ events'[n] = events[n]
                  \/ events'[n].height > settled
             /\ HistoryInv'
  <2>1. PICK k \in 0..Len(events) :
          /\ \A i \in 1..Len(events) : i <= k <=> events[i].height <= b
          /\ events' = SubSeq(events, 1, k)
    BY <1>2 DEF Fork
  <2>2. Len(events') = k /\ \A i \in 1..k : events'[i] = events[i]
    BY <2>1, PartOfSeq DEF TypeOK, ChainTypeOK
  <2>3. settled' = settled /\ settled \in Nat /\ head' = b /\ b < head /\ settled <= b /\ head \in Nat
    BY <1>2 DEF Fork, TypeOK, ChainTypeOK
  <2>4. \A n \in SettledEvents : n \in SettledEvents' /\ events'[n] = events[n]
    BY <2>1, <2>2, <2>3 DEF SettledEvents, EventsUpTo
  <2>5. ASSUME NEW n \in 1..Len(events')
        PROVE  /\ n \in 1..Len(events) /\ events'[n] = events[n]
               /\ events'[n].height \in 1..head'
    <3>1. n \in 1..Len(events) /\ n \in 1..k /\ events'[n] = events[n]
      BY <2>1, <2>2
    <3>2. events[n].height <= b
      BY <2>1, <3>1
    <3>3. events[n].height \in 1..head
      BY <3>1 DEF HistoryInv
    <3> QED
      BY <2>3, <3>1, <3>2, <3>3
  <2>10. Ordered(events')
    <3> SUFFICES ASSUME NEW i \in 1..Len(events'), NEW j \in 1..Len(events'), i <= j
                 PROVE  events'[i].height <= events'[j].height
      BY DEF Ordered
    <3>1. i \in 1..Len(events) /\ events'[i] = events[i]
      BY <2>5
    <3>2. j \in 1..Len(events) /\ events'[j] = events[j]
      BY <2>5
    <3> QED
      BY <3>1, <3>2 DEF HistoryInv, Ordered
  <2>6. head' - TronBlockDelay <= settled'
    BY <2>3, ChainAssumption DEF HistoryInv
  <2>7. \A n \in 1..Len(events') : n \in 1..Len(events) /\ events'[n] = events[n]
    BY <2>5
  <2>8. HistoryInv'
    BY <2>5, <2>6, <2>10 DEF HistoryInv
  <2>9. settled <= settled' /\ settled' \in Nat
    BY <2>3
  <2> QED
    BY <2>4, <2>7, <2>8, <2>9
<1> QED
  BY <1>1, <1>2 DEF ChainNext

\* The Tron chain moves: nothing that the relay has seen changes.
LEMMA ChainKeepsInv ==
  ASSUME IndInv, ChainNext, UNCHANGED <<coreVars, daemonVars>>
  PROVE  HistoryInv' /\ CoreInv' /\ TickInv' /\ RestartInv'
<1> USE HistoryType DEF IndInv
<1>1. /\ settled <= settled' /\ settled' \in Nat /\ settled \in Nat
      /\ \A n \in SettledEvents : n \in SettledEvents' /\ events'[n] = events[n]
      /\ \A n \in 1..Len(events)' :
           \/ n \in 1..Len(events) /\ events'[n] = events[n]
           \/ events'[n].height > settled
      /\ HistoryInv'
  BY SettledStays DEF TypeOK, ChainTypeOK
<1>2. /\ claimed' = claimed /\ coreHeight' = coreHeight /\ pending' = pending
      /\ pc' = pc /\ startBlockNumber' = startBlockNumber
      /\ lastEventNonce' = lastEventNonce /\ blockNumber' = blockNumber
      /\ limit' = limit /\ msgs' = msgs /\ endIndex' = endIndex
      /\ cacheFile' = cacheFile /\ imposed' = imposed
  BY DEF coreVars, daemonVars
<1>3. \A m : Genuine(m) => Genuine(m)'
  BY <1>1 DEF Genuine, ToMsg
<1>4. CoreInv'
  <2>1. ClaimsAreSettled'
    BY <1>1, <1>2 DEF CoreInv, ClaimsAreSettled
  <2>2. claimed # <<>> => Len(claimed) \in SettledEvents
    BY EmptySeq DEF CoreInv, ClaimsAreSettled, TypeOK, CoreTypeOK
  <2>3. (coreHeight = 0 \/ (claimed # <<>> /\ coreHeight = events[Len(claimed)].height))'
    BY <1>1, <1>2, <2>2 DEF CoreInv
  <2>4. (\A tx \in pending : Len(tx) <= BatchSendMsgCount /\ \A i \in 1..Len(tx) : Genuine(tx[i]))'
    BY <1>2, <1>3 DEF CoreInv
  <2> QED
    BY <2>1, <2>3, <2>4 DEF CoreInv
<1>5. TickInv'
  <2>1. (lastEventNonce <= LastEventNonce)'
    BY <1>2 DEF TickInv, LastEventNonce
  <2>2. ASSUME pc \in {"query", "send"}
        PROVE  (/\ startBlockNumber <= BlocksRead /\ blockNumber <= limit /\ limit <= settled
                /\ \A i \in 1..Len(msgs) : Genuine(msgs[i])
                /\ \A n \in EventsUpTo(BlocksRead) :
                     n > lastEventNonce /\ events[n].height > startBlockNumber
                       => \E i \in 1..Len(msgs) : msgs[i].nonce = n
                /\ \A i \in 1..endIndex : msgs[i].nonce <= LastEventNonce)'
    <3>1. BlocksRead' = BlocksRead /\ BlocksRead <= settled
      BY <1>1, <1>2, <2>2 DEF BlocksRead, TickInv, TypeOK, OracleTypeOK
    <3>2. \A n \in EventsUpTo(BlocksRead)' : n \in EventsUpTo(BlocksRead) /\ events'[n] = events[n]
      <4> SUFFICES ASSUME NEW n \in EventsUpTo(BlocksRead)'
                   PROVE  n \in EventsUpTo(BlocksRead) /\ events'[n] = events[n]
        OBVIOUS
      <4>1. n \in 1..Len(events)' /\ events'[n].height <= BlocksRead
        BY <3>1 DEF EventsUpTo
      <4>2. BlocksRead \in Int /\ events'[n].height \in Nat
        <5>1. BlocksRead \in Int
          BY DEF BlocksRead, TypeOK, OracleTypeOK
        <5>2. events'[n].height \in 1..head'
          BY <1>1, <4>1 DEF HistoryInv
        <5> QED
          BY <5>1, <5>2
      <4>3. ~(events'[n].height > settled)
        BY <1>1, <3>1, <4>1, <4>2
      <4> QED
        BY <1>1, <4>1, <4>3 DEF EventsUpTo
    <3>3. (startBlockNumber <= BlocksRead /\ blockNumber <= limit /\ limit <= settled)'
      BY <1>1, <1>2, <2>2, <3>1 DEF TickInv, TypeOK, OracleTypeOK
    <3>4. (\A i \in 1..Len(msgs) : Genuine(msgs[i]))'
      BY <1>2, <1>3, <2>2 DEF TickInv
    <3>5. (\A i \in 1..endIndex : msgs[i].nonce <= LastEventNonce)'
      BY <1>2, <2>2 DEF TickInv, LastEventNonce
    <3>6. (\A n \in EventsUpTo(BlocksRead) :
             n > lastEventNonce /\ events[n].height > startBlockNumber
               => \E i \in 1..Len(msgs) : msgs[i].nonce = n)'
      BY <1>2, <2>2, <3>2 DEF TickInv
    <3> QED
      BY <3>3, <3>4, <3>5, <3>6
  <2> QED
    BY <1>2, <2>1, <2>2 DEF TickInv
<1>6. RestartInv'
  <2>1. (/\ startBlockNumber <= settled \/ startBlockNumber <= imposed
         /\ cacheFile <= settled \/ cacheFile <= imposed \/ cacheFile \in ForeignCaches)'
    BY <1>1, <1>2 DEF RestartInv, TypeOK, OracleTypeOK
  <2>2. ASSUME NEW b \in Nat, b <= settled \/ b <= imposed, NEW n \in 1..Len(events)',
               events'[n].height <= b
        PROVE  (n \in EventsUpTo(b) /\ events'[n] = events[n]) \/ events'[n].height <= imposed
    <3>1. events'[n].height \in Nat /\ settled \in Nat /\ imposed \in Nat
      <4>1. events'[n].height \in 1..head'
        BY <1>1, <2>2 DEF HistoryInv
      <4> QED
        BY <1>1, <4>1 DEF TypeOK, OracleTypeOK
    <3>2. CASE events'[n].height <= settled
      <4>1. n \in 1..Len(events) /\ events'[n] = events[n]
        BY <1>1, <2>2, <3>1, <3>2
      <4> QED
        BY <2>2, <4>1 DEF EventsUpTo
    <3>3. CASE ~(events'[n].height <= settled)
      BY <2>2, <3>1, <3>3
    <3> QED
      BY <3>2, <3>3
  <2>3. OnlySplitBlockSkipped'
    BY <1>2, <2>2 DEF RestartInv, OnlySplitBlockSkipped, Skipped, EventsUpTo,
                      LastEventNonce, LastEventBlockHeight, TypeOK, OracleTypeOK
  <2>4. CacheIsBehindClaims'
    BY <1>2, <2>2 DEF RestartInv, CacheIsBehindClaims, Skipped, EventsUpTo,
                      LastEventNonce, LastEventBlockHeight, TypeOK, OracleTypeOK
  <2> QED
    BY <2>1, <2>3, <2>4 DEF RestartInv
<1> QED
  BY <1>1, <1>4, <1>5, <1>6

\* A genuine transaction is executed: its claims agree with the history, and
\* no event is skipped that was not.  The height on record may move within a
\* block, or to a later one; it never leaves a block whose events are behind
\* the daemon and not all claimed.
LEMMA ExecuteGenuine ==
  ASSUME IndInv, UNCHANGED <<chainVars, imposed>>,
         NEW tx \in Seq(Msgs), Execute(tx), \A i \in 1..Len(tx) : Genuine(tx[i])
  PROVE  /\ ClaimsAreSettled'
         /\ Len(claimed') \in Nat /\ Len(claimed) < Len(claimed')
         /\ claimed' # <<>> /\ coreHeight' = events'[Len(claimed')].height
         /\ \A i \in 1..Len(tx) : tx[i].nonce <= Len(claimed')
         /\ startBlockNumber' = startBlockNumber => OnlySplitBlockSkipped'
         /\ cacheFile' = cacheFile => CacheIsBehindClaims'
<1> USE HistoryType DEF IndInv
<1>1. /\ claimed' \in Seq(Claims)
      /\ Len(claimed') = Len(claimed) + Len(tx)
      /\ Len(tx) \in Nat \ {0}
      /\ \A i \in 1..Len(claimed) : claimed'[i] = claimed[i]
  BY ExecuteType DEF TypeOK
<1>2. /\ coreHeight' = tx[Len(tx)].height
      /\ \A i \in 1..Len(tx) : tx[i].nonce = Len(claimed) + i
  BY DEF Execute, Continues
<1>3. ASSUME NEW i \in 1..Len(tx)
      PROVE  claimed'[Len(claimed) + i] = [height |-> tx[i].height, kind |-> tx[i].kind]
  BY ExecuteType DEF TypeOK
<1>4. ASSUME NEW i \in 1..Len(tx)
      PROVE  /\ Len(claimed) + i \in SettledEvents
             /\ tx[i].height = events[Len(claimed) + i].height
             /\ tx[i].kind = events[Len(claimed) + i].kind
  <2>1. Genuine(tx[i]) /\ tx[i].nonce = Len(claimed) + i
    BY <1>2
  <2> QED
    BY <2>1 DEF Genuine, ToMsg
<1>5. events' = events /\ SettledEvents' = SettledEvents
  BY DEF chainVars, SettledEvents, EventsUpTo
<1>6. ASSUME NEW n \in 1..Len(claimed')
      PROVE  n \in SettledEvents /\ claimed'[n] = events[n]
  <2>1. CASE n \in 1..Len(claimed)
    BY <1>1, <2>1 DEF CoreInv, ClaimsAreSettled
  <2>2. CASE n \notin 1..Len(claimed)
    <3> DEFINE i == n - Len(claimed)
    <3>1. i \in 1..Len(tx) /\ n = Len(claimed) + i
      BY <1>1, <2>2
    <3>2. n \in SettledEvents /\ n \in 1..Len(events)
      BY <1>4, <3>1 DEF SettledEvents, EventsUpTo
    <3>3. claimed'[n] = [height |-> events[n].height, kind |-> events[n].kind]
      BY <1>3, <1>4, <3>1
    <3>4. events[n] \in [height : Nat, kind : EventKinds]
      BY <3>2 DEF Events
    <3> QED
      BY <3>2, <3>3, <3>4
  <2> QED
    BY <2>1, <2>2
<1>7. claimed' # <<>> /\ coreHeight' = events[Len(claimed')].height /\ Len(claimed') \in 1..Len(events)
  <2>1. Len(tx) \in 1..Len(tx)
    BY <1>1
  <2>2. claimed' # <<>>
    BY <1>1, EmptySeq
  <2> QED
    BY <1>1, <1>2, <1>4, <2>1, <2>2 DEF SettledEvents, EventsUpTo
<1>8. ASSUME NEW n \in 1..Len(events), n > Len(claimed'), events[n].height = coreHeight
      PROVE  coreHeight' = coreHeight
  <2>1. coreHeight # 0
    BY <1>8 DEF HistoryInv
  <2>2. claimed # <<>> /\ coreHeight = events[Len(claimed)].height
    BY <2>1 DEF CoreInv
  <2>3. Len(claimed) \in 1..Len(events)
    BY <1>1, <1>7, <2>2, EmptySeq DEF TypeOK, CoreTypeOK
  <2>4. /\ events[Len(claimed)].height <= events[Len(claimed')].height
        /\ events[Len(claimed')].height <= events[n].height
    BY <1>1, <1>7, <1>8, <2>3 DEF HistoryInv, Ordered
  <2> QED
    BY <1>7, <1>8, <2>2, <2>3, <2>4
<1>9. ASSUME NEW n \in 1..Len(events), n > Len(claimed'),
             events[n].height <= imposed \/ events[n].height = coreHeight
      PROVE  events[n].height <= imposed \/ events[n].height = coreHeight'
  BY <1>8, <1>9
<1>10. startBlockNumber' = startBlockNumber => OnlySplitBlockSkipped'
  BY <1>1, <1>5, <1>9 DEF RestartInv, OnlySplitBlockSkipped, Skipped, EventsUpTo,
                          LastEventNonce, LastEventBlockHeight
<1>11. cacheFile' = cacheFile => CacheIsBehindClaims'
  BY <1>1, <1>5, <1>9 DEF RestartInv, CacheIsBehindClaims, Skipped, EventsUpTo,
                          LastEventNonce, LastEventBlockHeight
<1>12. ClaimsAreSettled'
  BY <1>5, <1>6 DEF ClaimsAreSettled
<1>13. Len(claimed') \in Nat /\ Len(claimed) < Len(claimed') /\ claimed' # <<>>
  BY <1>1, EmptySeq
<1>14. coreHeight' = events'[Len(claimed')].height
  <2>1. Len(tx) \in 1..Len(tx)
    BY <1>1
  <2>2. tx[Len(tx)].height = events[Len(claimed) + Len(tx)].height
    BY <1>4, <2>1
  <2> QED
    BY <1>1, <1>2, <1>5, <2>2
<1>15. \A i \in 1..Len(tx) : tx[i].nonce <= Len(claimed')
  BY <1>1, <1>2
<1> QED
  BY <1>10, <1>11, <1>12, <1>13, <1>14, <1>15

\* f(x)Core moves: a late transaction lands or is dropped, the status flips.
LEMMA CoreKeepsInv ==
  ASSUME IndInv, CoreNext, UNCHANGED <<chainVars, daemonVars>>
  PROVE  HistoryInv' /\ CoreInv' /\ TickInv' /\ RestartInv'
<1> USE HistoryType DEF IndInv
<1>1. /\ head' = head /\ settled' = settled /\ events' = events
      /\ pc' = pc /\ startBlockNumber' = startBlockNumber
      /\ lastEventNonce' = lastEventNonce /\ blockNumber' = blockNumber
      /\ limit' = limit /\ msgs' = msgs /\ endIndex' = endIndex
      /\ cacheFile' = cacheFile /\ imposed' = imposed
  BY DEF chainVars, daemonVars
<1>2. HistoryInv'
  BY <1>1 DEF HistoryInv, Ordered
<1>3. \A m : Genuine(m)' = Genuine(m)
  BY <1>1 DEF Genuine, ToMsg, SettledEvents, EventsUpTo
<1> DEFINE Goal == /\ Len(claimed') \in Nat /\ Len(claimed) <= Len(claimed')
                   /\ CoreInv' /\ OnlySplitBlockSkipped' /\ CacheIsBehindClaims'
<1>4. Goal
  <2>1. ASSUME NEW tx \in pending, DeliverLate(tx)
        PROVE  Goal
    <3>1. tx \in Seq(Msgs) /\ \A i \in 1..Len(tx) : Genuine(tx[i])
      BY DEF CoreInv, TypeOK, CoreTypeOK
    <3>2. /\ ClaimsAreSettled'
          /\ Len(claimed') \in Nat /\ Len(claimed) < Len(claimed')
          /\ claimed' # <<>> /\ coreHeight' = events'[Len(claimed')].height
          /\ OnlySplitBlockSkipped' /\ CacheIsBehindClaims'
      BY <1>1, <2>1, <3>1, ExecuteGenuine DEF DeliverLate
    <3>3. (\A x \in pending : Len(x) <= BatchSendMsgCount /\ \A i \in 1..Len(x) : Genuine(x[i]))'
      BY <1>3, <2>1 DEF DeliverLate, CoreInv
    <3> QED
      BY <3>2, <3>3 DEF CoreInv
  <2>2. ASSUME claimed' = claimed, coreHeight' = coreHeight, pending' \subseteq pending
        PROVE  Goal
    <3>1. CoreInv'
      BY <1>1, <1>3, <2>2 DEF CoreInv, ClaimsAreSettled, SettledEvents, EventsUpTo
    <3>2. OnlySplitBlockSkipped' /\ CacheIsBehindClaims'
      BY <1>1, <2>2 DEF RestartInv, OnlySplitBlockSkipped, CacheIsBehindClaims, Skipped,
                        EventsUpTo, LastEventNonce, LastEventBlockHeight
    <3> QED
      BY <2>2, <3>1, <3>2
  <2>3. ASSUME NEW tx \in pending, DropLate(tx)
        PROVE  Goal
    BY <2>2, <2>3 DEF DropLate
  <2>4. ASSUME SetOnline
        PROVE  Goal
    BY <2>2, <2>4 DEF SetOnline
  <2> QED
    BY <2>1, <2>3, <2>4 DEF CoreNext
<1>5. TickInv'
  <2>2. (lastEventNonce <= LastEventNonce)'
    BY <1>1, <1>4 DEF TickInv, LastEventNonce, TypeOK, OracleTypeOK
  <2>3. ASSUME pc \in {"query", "send"}
        PROVE  (/\ startBlockNumber <= BlocksRead /\ blockNumber <= limit /\ limit <= settled
                /\ \A i \in 1..Len(msgs) : Genuine(msgs[i])
                /\ \A n \in EventsUpTo(BlocksRead) :
                     n > lastEventNonce /\ events[n].height > startBlockNumber
                       => \E i \in 1..Len(msgs) : msgs[i].nonce = n)'
    BY <1>1, <1>3, <2>3 DEF TickInv, BlocksRead, EventsUpTo
  <2>4. ASSUME pc \in {"query", "send"}
        PROVE  (\A i \in 1..endIndex : msgs[i].nonce <= LastEventNonce)'
    <3> SUFFICES ASSUME NEW i \in 1..endIndex PROVE msgs[i].nonce <= Len(claimed')
      BY <1>1 DEF LastEventNonce
    <3>1. msgs[i] \in Msgs
      BY ElementOfSeq, LenProperties DEF TypeOK, OracleTypeOK
    <3> QED
      BY <1>4, <2>4, <3>1 DEF TickInv, LastEventNonce, Msgs
  <2> QED
    BY <1>1, <2>2, <2>3, <2>4 DEF TickInv
<1>6. RestartInv'
  BY <1>1, <1>4 DEF RestartInv
<1> QED
  BY <1>2, <1>4, <1>5, <1>6

-----------------------------------------------------------------------------
(* The inductive invariant: the daemon's steps.                            *)

\* The parts of the invariant that say nothing of the daemon.
LEMMA ChainsInvUntouched ==
  ASSUME HistoryInv, CoreInv, UNCHANGED <<chainVars, coreVars>>
  PROVE  HistoryInv' /\ CoreInv'
BY DEF HistoryInv, Ordered, CoreInv, ClaimsAreSettled, Genuine, ToMsg, SettledEvents,
       EventsUpTo, chainVars, coreVars

\* A step that moves neither the two heights nor the chains.
LEMMA RestartInvUntouched ==
  ASSUME RestartInv, UNCHANGED <<chainVars, coreVars, startBlockNumber, cacheFile, imposed>>
  PROVE  RestartInv'
BY DEF RestartInv, OnlySplitBlockSkipped, CacheIsBehindClaims, Skipped, EventsUpTo,
       LastEventNonce, LastEventBlockHeight, chainVars, coreVars

\* Outside the loop over the blocks TickInv only speaks of the nonce.
LEMMA TickInvOutside ==
  ASSUME TypeOK, UNCHANGED coreVars, pc' \notin {"query", "send"},
         lastEventNonce' = 0 \/ lastEventNonce' = Len(claimed)
           \/ (lastEventNonce' = lastEventNonce /\ TickInv)
  PROVE  TickInv'
<1>1. Len(claimed) \in Nat
  BY HistoryType
<1> QED
  BY <1>1 DEF TickInv, LastEventNonce, coreVars

\* Where a start may lie.
LEMMA BootStart ==
  ASSUME IndInv, NEW flag \in StartFlags, Boot(flag)
  PROVE  RestartInv'
<1> USE HistoryType DEF IndInv
<1>1. /\ settled' = settled /\ events' = events /\ claimed' = claimed
      /\ coreHeight' = coreHeight /\ cacheFile' = cacheFile
      /\ startBlockNumber' = CachedStart(LastBlockNumber(flag))
      /\ imposed' = Larger(imposed, ImposedBy(flag))
  BY DEF Boot, chainVars, coreVars, LastEventBlockHeight
<1>2. /\ settled \in Nat /\ coreHeight \in Nat /\ cacheFile \in Nat /\ imposed \in Nat
      /\ FlaggedStart(flag) \in Nat /\ TronRestartDelayBlock \in Nat
  BY OracleAssumption DEF TypeOK, ChainTypeOK, CoreTypeOK, OracleTypeOK, FlaggedStart
<1>3. imposed' \in Nat /\ imposed <= imposed'
  <2>1. ImposedBy(flag) \in Nat
    BY <1>2 DEF ImposedBy, ForeignStart, CachedStart, LastBlockNumber, LastEventBlockHeight, Larger
  <2> QED
    BY <1>1, <1>2, <2>1 DEF Larger
<1>4. \/ startBlockNumber' = coreHeight
      \/ startBlockNumber' <= imposed'
      \/ startBlockNumber' <= cacheFile /\ cacheFile \notin ForeignCaches
  <2> DEFINE last == LastBlockNumber(flag)
  <2>1. last \in Nat /\ (last = coreHeight \/ (last = FlaggedStart(flag) /\ last > coreHeight))
    BY <1>2 DEF LastBlockNumber, LastEventBlockHeight, Larger
  <2>2. CachedStart(last) = last \/ (CachedStart(last) > last /\ CachedStart(last) <= cacheFile)
    BY <1>2, <2>1 DEF CachedStart, Larger
  <2>3. CASE ForeignStart(last)
    <3>1. ImposedBy(flag) = CachedStart(last) /\ startBlockNumber' = CachedStart(last)
      BY <1>1, <2>3 DEF ImposedBy
    <3>2. CachedStart(last) \in Nat
      BY <1>2, <2>1 DEF CachedStart, Larger
    <3> QED
      BY <1>1, <1>2, <3>1, <3>2 DEF Larger
  <2>4. CASE ~ForeignStart(last) /\ CachedStart(last) = last
    BY <1>1, <1>2, <1>3, <2>1, <2>4 DEF ImposedBy, LastEventBlockHeight, Larger
  <2>5. CASE ~ForeignStart(last) /\ CachedStart(last) > last
    BY <1>1, <1>2, <2>1, <2>2, <2>5 DEF ForeignStart
  <2> QED
    BY <1>2, <2>1, <2>2, <2>3, <2>4, <2>5
<1>5. startBlockNumber' \in Nat
  BY <1>1, <1>2 DEF CachedStart, LastBlockNumber, LastEventBlockHeight, Larger
<1>6. coreHeight <= settled
  <2>1. CASE coreHeight = 0
    BY <1>2, <2>1
  <2>2. CASE claimed # <<>> /\ coreHeight = events[Len(claimed)].height
    <3>1. Len(claimed) \in SettledEvents
      BY <2>2, EmptySeq DEF CoreInv, ClaimsAreSettled, TypeOK, CoreTypeOK
    <3> QED
      BY <2>2, <3>1 DEF SettledEvents, EventsUpTo
  <2> QED
    BY <2>1, <2>2 DEF CoreInv
<1>7. ASSUME NEW n \in 1..Len(events), n > Len(claimed), events[n].height <= coreHeight
      PROVE  events[n].height = coreHeight
  <2>1. coreHeight # 0
    BY <1>7 DEF HistoryInv
  <2>2. claimed # <<>> /\ coreHeight = events[Len(claimed)].height
    BY <2>1 DEF CoreInv
  <2>3. Len(claimed) \in 1..Len(events)
    BY <2>2, EmptySeq DEF CoreInv, ClaimsAreSettled, SettledEvents, EventsUpTo, TypeOK, CoreTypeOK
  <2>4. events[Len(claimed)].height <= events[n].height
    BY <1>7, <2>3 DEF HistoryInv, Ordered
  <2> QED
    BY <1>2, <1>7, <2>2, <2>4
<1>8. ASSUME NEW n \in 1..Len(events), n > Len(claimed), events[n].height <= startBlockNumber'
      PROVE  events[n].height <= imposed' \/ events[n].height = coreHeight
  <2>1. events[n].height \in Nat
    OBVIOUS
  <2>2. CASE startBlockNumber' = coreHeight
    BY <1>7, <1>8, <2>2
  <2>3. CASE startBlockNumber' <= imposed'
    BY <1>3, <1>5, <1>8, <2>1, <2>3
  <2>4. CASE startBlockNumber' <= cacheFile /\ cacheFile \notin ForeignCaches
    <3>1. events[n].height <= cacheFile
      BY <1>2, <1>5, <1>8, <2>1, <2>4
    <3>2. events[n].height <= imposed \/ events[n].height = coreHeight
      BY <1>8, <2>4, <3>1 DEF RestartInv, CacheIsBehindClaims, Skipped, EventsUpTo,
                        LastEventNonce, LastEventBlockHeight
    <3> QED
      BY <1>2, <1>3, <2>1, <3>2
  <2> QED
    BY <1>4, <2>2, <2>3, <2>4
<1>9. OnlySplitBlockSkipped'
  BY <1>1, <1>8 DEF OnlySplitBlockSkipped, Skipped, EventsUpTo, LastEventNonce, LastEventBlockHeight
<1>10. CacheIsBehindClaims'
  <2> SUFFICES ASSUME cacheFile \notin ForeignCaches, NEW n \in Skipped(cacheFile)
               PROVE  events[n].height <= imposed' \/ events[n].height = coreHeight
    BY <1>1 DEF CacheIsBehindClaims, Skipped, EventsUpTo, LastEventNonce, LastEventBlockHeight
  <2>1. n \in 1..Len(events) /\ events[n].height \in Nat
    BY DEF Skipped, EventsUpTo
  <2>2. events[n].height <= imposed \/ events[n].height = coreHeight
    BY DEF RestartInv, CacheIsBehindClaims, LastEventBlockHeight
  <2> QED
    BY <1>2, <1>3, <2>1, <2>2
<1>11. (/\ startBlockNumber <= settled \/ startBlockNumber <= imposed
        /\ cacheFile <= settled \/ cacheFile <= imposed \/ cacheFile \in ForeignCaches)'
  <2>1. cacheFile <= settled \/ cacheFile <= imposed' \/ cacheFile \in ForeignCaches
    BY <1>2, <1>3 DEF RestartInv
  <2> QED
    BY <1>1, <1>2, <1>3, <1>4, <1>5, <1>6, <2>1
<1> QED
  BY <1>9, <1>10, <1>11 DEF RestartInv

\* The heights are raised by imposing a start.
LEMMA ImposedStart ==
  ASSUME IndInv, UNCHANGED <<chainVars, coreVars, cacheFile>>,
         startBlockNumber' \in Nat, imposed' \in Nat,
         startBlockNumber' <= imposed', imposed <= imposed'
  PROVE  RestartInv'
<1> USE HistoryType DEF IndInv
<1>1. /\ settled' = settled /\ events' = events /\ claimed' = claimed
      /\ coreHeight' = coreHeight /\ cacheFile' = cacheFile
      /\ settled \in Nat /\ cacheFile \in Nat /\ imposed \in Nat
  BY DEF chainVars, coreVars, TypeOK, ChainTypeOK, OracleTypeOK
<1>2. OnlySplitBlockSkipped'
  BY <1>1 DEF OnlySplitBlockSkipped, Skipped, EventsUpTo
<1>3. CacheIsBehindClaims'
  <2> SUFFICES ASSUME cacheFile \notin ForeignCaches, NEW n \in Skipped(cacheFile)
               PROVE  events[n].height <= imposed' \/ events[n].height = coreHeight
    BY <1>1 DEF CacheIsBehindClaims, Skipped, EventsUpTo, LastEventNonce, LastEventBlockHeight
  <2>1. n \in 1..Len(events) /\ events[n].height \in Nat
    BY DEF Skipped, EventsUpTo
  <2>2. events[n].height <= imposed \/ events[n].height = coreHeight
    BY DEF RestartInv, CacheIsBehindClaims, LastEventBlockHeight
  <2> QED
    BY <1>1, <2>1, <2>2
<1> QED
  BY <1>1, <1>2, <1>3 DEF RestartInv

\* NewOracle keeps the invariant: what it reads from the cache file or from
\* fxCore is a height behind which nothing new is skipped.
LEMMA StartKeepsInv ==
  ASSUME IndInv, Start
  PROVE  HistoryInv' /\ CoreInv' /\ TickInv' /\ RestartInv'
<1> USE DEF IndInv
<1>1. UNCHANGED <<chainVars, coreVars, cacheFile>> /\ pc' \notin {"query", "send"}
      /\ (lastEventNonce' = 0 \/ lastEventNonce' = lastEventNonce)
  BY DEF Start, Boot, BootFresh, ScanHead, ScanDown, ScanFound, ScanExhausted, DropLocals
<1>2. HistoryInv' /\ CoreInv'
  BY <1>1, ChainsInvUntouched
<1>3. TickInv'
  BY <1>1, TickInvOutside
<1>4. RestartInv'
  <2>1. ASSUME NEW flag \in StartFlags, Boot(flag)
        PROVE  RestartInv'
    BY <2>1, BootStart
  <2>2. CASE ScanFound
    <3>1. startBlockNumber' = blockNumber - 1 /\ imposed' = Larger(imposed, blockNumber - 1)
          /\ blockNumber - 1 \in Nat /\ imposed \in Nat
      BY <2>2 DEF ScanFound, InWindow, TypeOK, OracleTypeOK
    <3>2. imposed' \in Nat /\ startBlockNumber' \in Nat
          /\ startBlockNumber' <= imposed' /\ imposed <= imposed'
      BY <3>1 DEF Larger
    <3> QED
      BY <1>1, <3>2, ImposedStart
  <2>3. ASSUME NEW flag \in StartFlags, BootFresh(flag)
        PROVE  RestartInv'
    BY <2>3, RestartInvUntouched DEF BootFresh
  <2>4. CASE ScanHead \/ ScanDown \/ ScanExhausted
    BY <2>4, <1>1, RestartInvUntouched DEF ScanHead, ScanDown, ScanExhausted
  <2> QED
    BY <2>1, <2>2, <2>3, <2>4 DEF Start
<1> QED
  BY <1>2, <1>3, <1>4

\* A crash keeps the invariant: it only forgets.
LEMMA CrashKeepsInv ==
  ASSUME IndInv, Crash
  PROVE  HistoryInv' /\ CoreInv' /\ TickInv' /\ RestartInv'
<1> USE DEF IndInv
<1>1. /\ UNCHANGED <<chainVars, coreVars, cacheFile>> /\ pc' = "down"
      /\ startBlockNumber' = 0 /\ imposed' = imposed /\ lastEventNonce' = 0
  BY DEF Crash, DropLocals
<1>2. HistoryInv' /\ CoreInv'
  BY <1>1, ChainsInvUntouched
<1>3. TickInv'
  BY <1>1, TickInvOutside
<1>4. RestartInv'
  BY <1>1, ImposedStart DEF TypeOK, OracleTypeOK
<1> QED
  BY <1>2, <1>3, <1>4

\* What one block contributes: genuine claims, and all the new ones.
LEMMA SortedMsgsContent ==
  ASSUME TypeOK, NEW b \in Nat, b <= settled, NEW s \in SortedMsgs(NewEventsIn(b), b)
  PROVE  /\ \A i \in 1..Len(s) : Genuine(s[i])
         /\ \A n \in NewEventsIn(b) : \E i \in 1..Len(s) : s[i].nonce = n
<1> DEFINE N == NewEventsIn(b)
<1>1. Len(s) = Cardinality(N)
  BY SortedMsgsType DEF TypeOK, ChainTypeOK
<1>2. ASSUME NEW i \in 1..Len(s)
      PROVE  Genuine(s[i])
  <2>1. PICK n \in N : s[i] = ToMsg(n, b)
    BY <1>1 DEF SortedMsgs
  <2>2. n \in 1..Len(events) /\ events[n].height = b
    BY DEF NewEventsIn, EventsIn
  <2> QED
    BY <2>1, <2>2 DEF Genuine, ToMsg, SettledEvents, EventsUpTo
<1>3. ASSUME NEW n \in N
      PROVE  \E i \in 1..Len(s) : s[i].nonce = n
  <2>1. PICK i \in 1..Len(s) : s[i] = ToMsg(n, b)
    BY <1>1 DEF SortedMsgs
  <2> QED
    BY <2>1 DEF ToMsg
<1> QED
  BY <1>2, <1>3

\* The loop's invariant, before the block blockNumber is read.
LEMMA ReadHeadKeepsInv ==
  ASSUME IndInv, ReadHead
  PROVE  TickInv'
<1> USE HistoryType DEF IndInv
<1>1. EndBlockNumber(head) = head - TronBlockDelay /\ EndBlockNumber(head) <= settled
  BY ChainAssumption DEF EndBlockNumber, Minus, TypeOK, ChainTypeOK, HistoryInv
<1>2. /\ pc' = "query" /\ limit' = head - TronBlockDelay
      /\ blockNumber' = startBlockNumber + 1 /\ startBlockNumber' = startBlockNumber
      /\ startBlockNumber < head - TronBlockDelay
      /\ msgs' = <<>> /\ endIndex' = 0 /\ lastEventNonce' = lastEventNonce
      /\ settled' = settled /\ events' = events /\ claimed' = claimed
  BY <1>1 DEF ReadHead, chainVars, coreVars
<1>3. startBlockNumber \in Nat /\ head - TronBlockDelay \in Int
  BY ChainAssumption DEF TypeOK, ChainTypeOK, OracleTypeOK
<1>4. BlocksRead' = startBlockNumber
  BY <1>2, <1>3 DEF BlocksRead
<1>5. (/\ startBlockNumber <= BlocksRead /\ blockNumber <= limit /\ limit <= settled)'
  BY <1>1, <1>2, <1>3, <1>4
<1>6. (\A n \in EventsUpTo(BlocksRead) :
         n > lastEventNonce /\ events[n].height > startBlockNumber
           => \E i \in 1..Len(msgs) : msgs[i].nonce = n)'
  BY <1>2, <1>3, <1>4 DEF EventsUpTo
<1>7. (lastEventNonce <= LastEventNonce)'
  BY <1>2 DEF TickInv, LastEventNonce
<1>8. Len(msgs)' = 0
  BY <1>2, EmptySeq
<1> QED
  BY <1>2, <1>5, <1>6, <1>7, <1>8 DEF TickInv

\* Reading a block keeps msgs genuine and complete.
LEMMA QueryBlockKeepsInv ==
  ASSUME IndInv, QueryBlock
  PROVE  TickInv'
<1> USE HistoryType DEF IndInv
<1>1. PICK s \in SortedMsgs(NewEventsIn(blockNumber), blockNumber) : msgs' = msgs \o s
  BY DEF QueryBlock
<1>2. /\ pc = "query" /\ settled' = settled /\ events' = events /\ claimed' = claimed
      /\ startBlockNumber' = startBlockNumber /\ lastEventNonce' = lastEventNonce
      /\ limit' = limit /\ endIndex' = endIndex
  BY DEF QueryBlock, chainVars, coreVars
<1>3. /\ startBlockNumber \in Nat /\ blockNumber \in Nat /\ limit \in Nat /\ settled \in Nat
      /\ endIndex \in Nat /\ endIndex <= Len(msgs) /\ Len(msgs) \in Nat
  BY LenProperties DEF TypeOK, ChainTypeOK, OracleTypeOK
<1>4. /\ startBlockNumber <= blockNumber - 1 /\ blockNumber <= limit /\ limit <= settled
      /\ \A i \in 1..Len(msgs) : Genuine(msgs[i])
      /\ \A n \in EventsUpTo(blockNumber - 1) :
           n > lastEventNonce /\ events[n].height > startBlockNumber
             => \E i \in 1..Len(msgs) : msgs[i].nonce = n
      /\ \A i \in 1..endIndex : msgs[i].nonce <= Len(claimed)
  BY <1>2 DEF TickInv, BlocksRead, LastEventNonce
<1>5. s \in Seq(Msgs) /\ Len(s) \in Nat
  BY SortedMsgsType, LenProperties DEF TypeOK, ChainTypeOK, OracleTypeOK
<1>6. /\ Len(msgs') = Len(msgs) + Len(s)
      /\ \A i \in 1..Len(msgs) : msgs'[i] = msgs[i]
      /\ \A i \in 1..Len(s) : msgs'[Len(msgs) + i] = s[i]
  BY <1>1, <1>5, JoinedSeq DEF TypeOK, OracleTypeOK
<1>7. /\ \A i \in 1..Len(s) : Genuine(s[i])
      /\ \A n \in NewEventsIn(blockNumber) : \E i \in 1..Len(s) : s[i].nonce = n
  BY <1>3, <1>4, SortedMsgsContent
<1>8. blockNumber' <= limit /\ BlocksRead' = blockNumber /\ blockNumber' \in Nat
  <2>1. CASE FlushDue(Len(msgs'))
    BY <1>3, <1>4, <2>1 DEF QueryBlock, BlocksRead
  <2>2. CASE ~FlushDue(Len(msgs'))
    <3>1. blockNumber # limit
      BY <2>2 DEF FlushDue
    <3> QED
      BY <1>2, <1>3, <1>4, <2>2, <3>1 DEF QueryBlock, BlocksRead
  <2> QED
    BY <2>1, <2>2
<1>9. (\A i \in 1..Len(msgs) : Genuine(msgs[i]))'
  <2> SUFFICES ASSUME NEW i \in 1..Len(msgs') PROVE Genuine(msgs'[i])
    BY <1>2 DEF Genuine, ToMsg, SettledEvents, EventsUpTo
  <2>1. CASE i \in 1..Len(msgs)
    BY <1>4, <1>6, <2>1
  <2>2. CASE i \notin 1..Len(msgs)
    <3>1. i - Len(msgs) \in 1..Len(s) /\ i = Len(msgs) + (i - Len(msgs))
      BY <1>3, <1>5, <1>6, <2>2
    <3>2. msgs'[i] = s[i - Len(msgs)]
      BY <1>6, <3>1
    <3> QED
      BY <1>7, <3>1, <3>2
  <2> QED
    BY <2>1, <2>2
<1>10. ASSUME NEW n \in 1..Len(events), events[n].height <= blockNumber,
              n > lastEventNonce, events[n].height > startBlockNumber
       PROVE  \E i \in 1..Len(msgs') : msgs'[i].nonce = n
  <2>1. CASE events[n].height <= blockNumber - 1
    <3>1. PICK i \in 1..Len(msgs) : msgs[i].nonce = n
      BY <1>4, <1>10, <2>1 DEF EventsUpTo
    <3> QED
      BY <1>3, <1>5, <1>6, <3>1
  <2>2. CASE events[n].height = blockNumber
    <3>1. PICK i \in 1..Len(s) : s[i].nonce = n
      BY <1>7, <1>10, <2>2 DEF NewEventsIn, EventsIn
    <3>2. Len(msgs) + i \in 1..Len(msgs')
      BY <1>3, <1>5, <1>6
    <3> QED
      BY <1>6, <3>1, <3>2
  <2> QED
    BY <1>3, <1>10, <2>1, <2>2
<1>11. (\A n \in EventsUpTo(BlocksRead) :
          n > lastEventNonce /\ events[n].height > startBlockNumber
            => \E i \in 1..Len(msgs) : msgs[i].nonce = n)'
  BY <1>2, <1>8, <1>10 DEF EventsUpTo
<1>12. (\A i \in 1..endIndex : msgs[i].nonce <= LastEventNonce)'
  <2> SUFFICES ASSUME NEW i \in 1..endIndex PROVE msgs'[i].nonce <= Len(claimed)
    BY <1>2 DEF LastEventNonce
  <2>1. i \in 1..Len(msgs)
    BY <1>3
  <2> QED
    BY <1>4, <1>6, <2>1
<1>13. (/\ startBlockNumber <= BlocksRead /\ blockNumber <= limit /\ limit <= settled)'
  BY <1>2, <1>3, <1>4, <1>8
<1>14. (lastEventNonce <= LastEventNonce)'
  BY <1>2 DEF TickInv, LastEventNonce
<1> QED
  BY <1>9, <1>11, <1>12, <1>13, <1>14 DEF TickInv

\* A chunk is recorded.
LEMMA SendOkKeepsInv ==
  ASSUME IndInv, SendOk
  PROVE  CoreInv' /\ TickInv' /\ RestartInv'
<1> USE HistoryType DEF IndInv
<1>1. /\ pc = "send" /\ pc' = pc /\ settled' = settled /\ events' = events /\ pending' = pending
      /\ startBlockNumber' = startBlockNumber /\ lastEventNonce' = lastEventNonce
      /\ limit' = limit /\ blockNumber' = blockNumber /\ msgs' = msgs /\ endIndex' = ChunkEnd
      /\ cacheFile' = cacheFile /\ imposed' = imposed
  BY DEF SendOk, Sending, chainVars
<1>2. endIndex < Len(msgs) /\ endIndex \in Nat /\ Len(msgs) \in Nat /\ lastEventNonce \in Nat
  BY LenProperties DEF SendOk, Sending, TypeOK, OracleTypeOK
<1>3. /\ ChunkEnd \in endIndex + 1..Len(msgs)
      /\ NextChunk \in Seq(Msgs)
      /\ Len(NextChunk) = ChunkEnd - endIndex
      /\ \A i \in 1..Len(NextChunk) : NextChunk[i] = msgs[endIndex + i]
  BY <1>2, NextChunkType DEF TypeOK
<1>4. /\ startBlockNumber <= BlocksRead /\ blockNumber <= limit /\ limit <= settled
      /\ \A i \in 1..Len(msgs) : Genuine(msgs[i])
      /\ \A n \in EventsUpTo(BlocksRead) :
           n > lastEventNonce /\ events[n].height > startBlockNumber
             => \E i \in 1..Len(msgs) : msgs[i].nonce = n
      /\ \A i \in 1..endIndex : msgs[i].nonce <= Len(claimed)
      /\ lastEventNonce <= Len(claimed)
  BY <1>1 DEF TickInv, LastEventNonce
<1>5. \A i \in 1..Len(NextChunk) : Genuine(NextChunk[i])
  BY <1>2, <1>3, <1>4
<1>6. /\ ClaimsAreSettled'
      /\ Len(claimed') \in Nat /\ Len(claimed) < Len(claimed')
      /\ claimed' # <<>> /\ coreHeight' = events'[Len(claimed')].height
      /\ \A i \in 1..Len(NextChunk) : NextChunk[i].nonce <= Len(claimed')
      /\ OnlySplitBlockSkipped' /\ CacheIsBehindClaims'
  <2>1. UNCHANGED <<chainVars, imposed>> /\ Execute(NextChunk)
    BY DEF SendOk
  <2> QED
    BY <1>1, <1>3, <1>5, <2>1, ExecuteGenuine
<1>7. \A m : Genuine(m)' = Genuine(m)
  BY <1>1 DEF Genuine, ToMsg, SettledEvents, EventsUpTo
<1>8. CoreInv'
  BY <1>1, <1>6, <1>7 DEF CoreInv
<1>9. ASSUME NEW i \in 1..ChunkEnd
      PROVE  msgs[i].nonce <= Len(claimed')
  <2>1. i \in 1..Len(msgs)
    BY <1>2, <1>3
  <2>2. CASE i \in 1..endIndex
    <3>1. msgs[i] \in Msgs
      BY <2>1, ElementOfSeq DEF TypeOK, OracleTypeOK
    <3> QED
      BY <1>4, <1>6, <2>2, <3>1 DEF Msgs
  <2>3. CASE i \notin 1..endIndex
    <3>1. i - endIndex \in 1..Len(NextChunk) /\ i = endIndex + (i - endIndex)
      BY <1>2, <1>3, <2>3
    <3>2. NextChunk[i - endIndex] = msgs[i]
      BY <1>3, <3>1
    <3> QED
      BY <1>6, <3>1, <3>2
  <2> QED
    BY <2>2, <2>3
<1>10. TickInv'
  <2>1. (lastEventNonce <= LastEventNonce)'
    BY <1>1, <1>2, <1>4, <1>6 DEF LastEventNonce
  <2>2. BlocksRead' = BlocksRead
    BY <1>1 DEF BlocksRead
  <2>3. (\A n \in EventsUpTo(BlocksRead) :
           n > lastEventNonce /\ events[n].height > startBlockNumber
             => \E i \in 1..Len(msgs) : msgs[i].nonce = n)'
    BY <1>1, <1>4, <2>2 DEF EventsUpTo
  <2>4. (\A i \in 1..Len(msgs) : Genuine(msgs[i]))'
    BY <1>1, <1>4, <1>7
  <2>5. (\A i \in 1..endIndex : msgs[i].nonce <= LastEventNonce)'
    BY <1>1, <1>9 DEF LastEventNonce
  <2>6. (startBlockNumber <= BlocksRead /\ blockNumber <= limit /\ limit <= settled)'
    BY <1>1, <1>4, <2>2
  <2> QED
    BY <2>1, <2>3, <2>4, <2>5, <2>6 DEF TickInv
<1>11. RestartInv'
  BY <1>1, <1>6 DEF RestartInv
<1> QED
  BY <1>8, <1>10, <1>11

\* A chunk is on its way: it is as genuine as the claims it was cut from.
LEMMA SendUnansweredKeepsInv ==
  ASSUME IndInv, SendUnanswered
  PROVE  CoreInv' /\ TickInv' /\ RestartInv'
<1> USE HistoryType DEF IndInv
<1>1. /\ pc = "send" /\ pc' = "idle" /\ settled' = settled /\ events' = events
      /\ claimed' = claimed /\ coreHeight' = coreHeight /\ pending' = pending \cup {NextChunk}
      /\ startBlockNumber' = startBlockNumber /\ cacheFile' = cacheFile /\ imposed' = imposed
      /\ lastEventNonce' = 0
  BY DEF SendUnanswered, Sending, DropLocals, chainVars
<1>2. Len(NextChunk) <= BatchSendMsgCount /\ \A i \in 1..Len(NextChunk) : Genuine(NextChunk[i])
  <2>1. endIndex < Len(msgs) /\ endIndex \in Nat /\ Len(msgs) \in Nat
    BY LenProperties DEF SendUnanswered, Sending, TypeOK, OracleTypeOK
  <2>2. /\ ChunkEnd \in endIndex + 1..Len(msgs)
        /\ Len(NextChunk) = ChunkEnd - endIndex
        /\ Len(NextChunk) <= BatchSendMsgCount
        /\ \A i \in 1..Len(NextChunk) : NextChunk[i] = msgs[endIndex + i]
    BY <2>1, NextChunkType DEF TypeOK
  <2>3. \A i \in 1..Len(msgs) : Genuine(msgs[i])
    BY <1>1 DEF TickInv
  <2> QED
    BY <2>1, <2>2, <2>3
<1>3. \A m : Genuine(m)' = Genuine(m)
  BY <1>1 DEF Genuine, ToMsg, SettledEvents, EventsUpTo
<1>4. CoreInv'
  BY <1>1, <1>2, <1>3 DEF CoreInv, ClaimsAreSettled, SettledEvents, EventsUpTo
<1>5. TickInv'
  BY <1>1 DEF TickInv, LastEventNonce
<1>6. RestartInv'
  BY <1>1 DEF RestartInv, OnlySplitBlockSkipped, CacheIsBehindClaims, Skipped, EventsUpTo,
              LastEventNonce, LastEventBlockHeight
<1> QED
  BY <1>4, <1>5, <1>6

\* When the daemon advances, no unclaimed event is between the old start and
\* the new one.
LEMMA AllReadAreClaimed ==
  ASSUME IndInv, pc = "send", AllSent, NEW n \in 1..Len(events),
         events[n].height <= blockNumber, n > Len(claimed)
  PROVE  events[n].height <= startBlockNumber
<1> USE HistoryType DEF IndInv
<1>1. lastEventNonce <= Len(claimed) /\ lastEventNonce \in Nat
  BY DEF TickInv, LastEventNonce, TypeOK, OracleTypeOK
<1>2. startBlockNumber \in Nat /\ events[n].height \in Nat
  BY DEF TypeOK, OracleTypeOK
<1> SUFFICES ASSUME events[n].height > startBlockNumber PROVE FALSE
  BY <1>2
<1>3. PICK i \in 1..Len(msgs) : msgs[i].nonce = n
  BY <1>1 DEF TickInv, BlocksRead, EventsUpTo
<1>4. msgs[i].nonce <= Len(claimed)
  BY DEF AllSent, TickInv, LastEventNonce
<1> QED
  BY <1>3, <1>4

\* The start moves up, the height is saved, perhaps torn.
LEMMA AdvanceKeepsInv ==
  ASSUME IndInv, Advance
  PROVE  TickInv' /\ RestartInv'
<1> USE HistoryType DEF IndInv
<1>1. /\ pc = "send" /\ AllSent /\ settled' = settled /\ events' = events /\ claimed' = claimed
      /\ coreHeight' = coreHeight /\ imposed' = imposed /\ startBlockNumber' = blockNumber
  BY DEF Advance, chainVars, coreVars
<1>2. /\ blockNumber \in Nat /\ limit \in Nat /\ settled \in Nat /\ imposed \in Nat
      /\ cacheFile \in Nat /\ startBlockNumber \in Nat
      /\ startBlockNumber <= blockNumber /\ blockNumber <= limit /\ limit <= settled
  BY <1>1 DEF TickInv, BlocksRead, TypeOK, ChainTypeOK, OracleTypeOK
<1>3. cacheFile' \in Nat /\ (cacheFile' = cacheFile \/ cacheFile' <= blockNumber)
  BY <1>2 DEF Advance, SaveOutcomes, TornWrites
<1>4. \A n \in 1..Len(events) :
        events[n].height <= blockNumber /\ n > Len(claimed)
          => events[n].height <= imposed \/ events[n].height = coreHeight
  BY <1>1, AllReadAreClaimed DEF RestartInv, OnlySplitBlockSkipped, Skipped, EventsUpTo,
     LastEventNonce, LastEventBlockHeight
<1>5. OnlySplitBlockSkipped'
  BY <1>1, <1>4 DEF OnlySplitBlockSkipped, Skipped, EventsUpTo, LastEventNonce, LastEventBlockHeight
<1>6. CacheIsBehindClaims'
  <2>1. CASE cacheFile' = cacheFile
    BY <1>1, <2>1 DEF RestartInv, CacheIsBehindClaims, Skipped, EventsUpTo, LastEventNonce,
       LastEventBlockHeight
  <2>2. CASE cacheFile' <= blockNumber
    <3>1. \A n \in 1..Len(events) : events[n].height <= cacheFile' => events[n].height <= blockNumber
      BY <1>2, <1>3, <2>2
    <3> QED
      BY <1>1, <1>4, <3>1 DEF CacheIsBehindClaims, Skipped, EventsUpTo, LastEventNonce,
         LastEventBlockHeight
  <2> QED
    BY <1>3, <2>1, <2>2
<1>7. RestartInv'
  <2>1. (cacheFile <= settled \/ cacheFile <= imposed \/ cacheFile \in ForeignCaches)'
    BY <1>1, <1>2, <1>3 DEF RestartInv
  <2>2. (startBlockNumber <= settled)'
    BY <1>1, <1>2
  <2> QED
    BY <1>5, <1>6, <2>1, <2>2 DEF RestartInv
<1>8. TickInv'
  <2>1. CASE blockNumber = limit
    BY <1>1, <2>1 DEF Advance, DropLocals, TickInv, LastEventNonce
  <2>2. CASE blockNumber # limit
    <3>1. /\ pc' = "query" /\ blockNumber' = blockNumber + 1 /\ msgs' = <<>> /\ endIndex' = 0
          /\ lastEventNonce' = lastEventNonce /\ limit' = limit
      BY <2>2 DEF Advance
    <3>2. BlocksRead' = blockNumber /\ Len(msgs)' = 0
      BY <1>2, <3>1, EmptySeq DEF BlocksRead
    <3>3. (startBlockNumber <= BlocksRead /\ blockNumber <= limit /\ limit <= settled)'
      BY <1>1, <1>2, <2>2, <3>1, <3>2
    <3>4. (\A n \in EventsUpTo(BlocksRead) :
             n > lastEventNonce /\ events[n].height > startBlockNumber
               => \E i \in 1..Len(msgs) : msgs[i].nonce = n)'
      BY <1>1, <1>2, <3>2 DEF EventsUpTo
    <3>5. (lastEventNonce <= LastEventNonce)'
      BY <1>1, <3>1 DEF TickInv, LastEventNonce
    <3> QED
      BY <3>1, <3>2, <3>3, <3>4, <3>5 DEF TickInv
  <2> QED
    BY <2>1, <2>2
<1> QED
  BY <1>7, <1>8

\* Every part of bridgeEvent keeps the invariant.
LEMMA TickKeepsInv ==
  ASSUME IndInv, Tick
  PROVE  HistoryInv' /\ CoreInv' /\ TickInv' /\ RestartInv'
<1> USE DEF IndInv
<1>1. CASE CheckOracle \/ ReadNonce \/ NothingNew \/ CallFails
  <2>1. /\ UNCHANGED <<chainVars, coreVars, startBlockNumber, cacheFile, imposed>>
        /\ pc' \notin {"query", "send"}
        /\ \/ lastEventNonce' = 0 \/ lastEventNonce' = Len(claimed)
           \/ lastEventNonce' = lastEventNonce
    BY <1>1 DEF CheckOracle, ReadNonce, NothingNew, CallFails, DropLocals, LastEventNonce
  <2> QED
    BY <2>1, ChainsInvUntouched, RestartInvUntouched, TickInvOutside
<1>2. CASE ReadHead
  <2>1. UNCHANGED <<chainVars, coreVars, startBlockNumber, cacheFile, imposed>>
    BY <1>2 DEF ReadHead
  <2> QED
    BY <1>2, <2>1, ChainsInvUntouched, RestartInvUntouched, ReadHeadKeepsInv
<1>3. CASE QueryBlock
  <2>1. UNCHANGED <<chainVars, coreVars, startBlockNumber, cacheFile, imposed>>
    BY <1>3 DEF QueryBlock
  <2> QED
    BY <1>3, <2>1, ChainsInvUntouched, RestartInvUntouched, QueryBlockKeepsInv
<1>4. CASE SendOk \/ SendUnanswered
  <2>1. HistoryInv'
    BY <1>4 DEF SendOk, SendUnanswered, chainVars, HistoryInv, Ordered
  <2> QED
    BY <1>4, <2>1, SendOkKeepsInv, SendUnansweredKeepsInv
<1>5. CASE Advance
  <2>1. UNCHANGED <<chainVars, coreVars>>
    BY <1>5 DEF Advance
  <2> QED
    BY <1>5, <2>1, ChainsInvUntouched, AdvanceKeepsInv
<1> QED
  BY <1>1, <1>2, <1>3, <1>4, <1>5 DEF Tick

\* The first run of the daemon starts with the invariant true.
LEMMA InitInv == Init => IndInv
<1> SUFFICES ASSUME Init PROVE IndInv
  OBVIOUS
<1>1. TypeOK
  BY InitType
<1>2. /\ head = InitHead /\ settled = InitHead - TronBlockDelay /\ events = InitEvents
      /\ pending = {} /\ startBlockNumber = 0 /\ cacheFile \in ForeignCaches /\ pc = "down" /\ lastEventNonce = 0
  BY DEF Init, ChainInit, CoreInit, OracleInit
<1>3. Len(events) \in Nat /\ Len(claimed) \in Nat
  BY <1>1, HistoryType
<1>4. ASSUME NEW n \in 1..Len(events)
      PROVE  /\ n \in SettledEvents
             /\ events[n].height \in 1..head
  <2>1. events[n].height \in 1..(InitHead - TronBlockDelay)
    BY <1>2, ChainOldEnough
  <2> QED
    BY <1>2, <2>1, ChainAssumption DEF SettledEvents, EventsUpTo
<1>5. HistoryInv
  BY <1>2, <1>4, ChainAssumption DEF HistoryInv
<1>6. CoreInv
  <2>1. PICK n \in 0..Len(events) :
          /\ claimed = SubSeq(events, 1, n)
          /\ coreHeight \in {0} \cup {events[m].height : m \in {n} \cap 1..n}
    BY <1>2 DEF Init, CoreInit
  <2>2. Len(claimed) = n /\ \A i \in 1..n : claimed[i] = events[i]
    BY <1>1, <1>3, <2>1, PartOfSeq DEF TypeOK, ChainTypeOK
  <2>3. ClaimsAreSettled
    BY <1>3, <1>4, <2>2 DEF ClaimsAreSettled
  <2>4. coreHeight = 0 \/ (claimed # <<>> /\ coreHeight = events[Len(claimed)].height)
    BY <2>1, <2>2, EmptySeq
  <2> QED
    BY <1>2, <2>3, <2>4 DEF CoreInv
<1>7. TickInv
  BY <1>2, <1>3 DEF TickInv, LastEventNonce
<1>8. RestartInv
  <2>1. EventsUpTo(0) = {}
    BY <1>4 DEF EventsUpTo
  <2> QED
    BY <1>1, <1>2, <2>1 DEF RestartInv, OnlySplitBlockSkipped, CacheIsBehindClaims, Skipped,
       TypeOK, ChainTypeOK
<1> QED
  BY <1>1, <1>5, <1>6, <1>7, <1>8 DEF IndInv

\* Every step of the relay keeps the invariant.
LEMMA NextKeepsInv ==
  ASSUME IndInv, [Next]_vars
  PROVE  IndInv'
<1> USE DEF IndInv
<1>1. TypeOK'
  BY NextKeepsType
<1>2. HistoryInv' /\ CoreInv' /\ TickInv' /\ RestartInv'
  <2>1. CASE Tick
    BY <2>1, TickKeepsInv
  <2>2. CASE Start
    BY <2>2, StartKeepsInv
  <2>3. CASE Crash
    BY <2>3, CrashKeepsInv
  <2>4. CASE Environment
    BY <2>4, ChainKeepsInv, CoreKeepsInv DEF Environment
  <2>5. CASE UNCHANGED vars
    <3>1. UNCHANGED <<chainVars, coreVars, startBlockNumber, cacheFile, imposed>>
      BY <2>5 DEF vars, daemonVars
    <3>2. TickInv'
      BY <2>5 DEF vars, chainVars, coreVars, daemonVars, TickInv, BlocksRead, EventsUpTo,
                  Genuine, ToMsg, SettledEvents, LastEventNonce
    <3> QED
      BY <3>1, <3>2, ChainsInvUntouched, RestartInvUntouched
  <2> QED
    BY <2>1, <2>2, <2>3, <2>4, <2>5 DEF Next
<1> QED
  BY <1>1, <1>2

\* The inductive invariant holds.
THEOREM Inductive == Spec => []IndInv
<1>1. Init => IndInv
  BY InitInv
<1>2. IndInv /\ [Next]_vars => IndInv'
  BY NextKeepsInv
<1> QED
  BY <1>1, <1>2, PTL DEF Spec

-----------------------------------------------------------------------------
(* The safety properties.                                                  *)

\* f(x)Core never records anything but the settled history of the contract,
\* in order, whatever fails, crashes, lands late or is forked away.
THEOREM ClaimsSound == Spec => []ClaimsAreSettled
<1>1. IndInv => ClaimsAreSettled
  BY DEF IndInv, CoreInv
<1> QED
  BY <1>1, Inductive, PTL

\* Events are lost in two ways only: below an imposed start, or in the block
\* of the last claim when that block's claims were cut in two.
THEOREM LossBounded == Spec => []OnlySplitBlockSkipped
<1>1. IndInv => OnlySplitBlockSkipped
  BY DEF IndInv, RestartInv
<1> QED
  BY <1>1, Inductive, PTL

\* The cache file is never ahead of the claims, crash and torn write included.
THEOREM CacheSafe == Spec => []CacheIsBehindClaims
<1>1. IndInv => CacheIsBehindClaims
  BY DEF IndInv, RestartInv
<1> QED
  BY <1>1, Inductive, PTL

\* Every step keeps the counter of blocks in step with the loop.
LEMMA CounterKept ==
  ASSUME TypeOK, CounterInv, [Next]_vars
  PROVE  CounterInv'
<1> USE OracleAssumption DEF TypeOK, OracleTypeOK, CounterInv
<1>1. CASE Tick
  <2>1. CASE CheckOracle \/ ReadNonce \/ NothingNew \/ SendUnanswered \/ CallFails
    BY <2>1 DEF CheckOracle, ReadNonce, NothingNew, SendUnanswered, CallFails
  <2>2. CASE ReadHead
    BY <2>2 DEF ReadHead
  <2>3. CASE QueryBlock
    <3>1. CASE FlushDue(Len(msgs'))
      BY <2>3, <3>1 DEF QueryBlock
    <3>2. CASE ~FlushDue(Len(msgs'))
      <4>1. batchBlockNumber <= BatchBlockLimit
        BY <3>2 DEF FlushDue
      <4>2. /\ blockNumber' = blockNumber + 1 /\ batchBlockNumber' = batchBlockNumber + 1
            /\ startBlockNumber' = startBlockNumber /\ pc = "query"
        BY <2>3, <3>2 DEF QueryBlock
      <4> QED
        BY <4>1, <4>2
    <3> QED
      BY <3>1, <3>2
  <2>4. CASE SendOk
    BY <2>4 DEF SendOk, Sending
  <2>5. CASE Advance
    BY <2>5 DEF Advance
  <2> QED
    BY <1>1, <2>1, <2>2, <2>3, <2>4, <2>5 DEF Tick
<1>2. CASE Start
  BY <1>2 DEF Start, Boot, BootFresh, ScanHead, ScanDown, ScanFound, ScanExhausted
<1>3. CASE Crash
  BY <1>3 DEF Crash
<1>4. CASE Environment \/ UNCHANGED vars
  BY <1>4 DEF Environment, vars, daemonVars
<1> QED
  BY <1>1, <1>2, <1>3, <1>4 DEF Next

\* An error costs at most a batch of blocks, whatever the batch limit.
THEOREM RewindSmall == Spec => []RewindBounded
<1>1. Init => CounterInv
  BY DEF Init, OracleInit, CounterInv
<1>2. TypeOK /\ CounterInv /\ [Next]_vars => CounterInv'
  BY CounterKept
<1>3. TypeOK /\ CounterInv => RewindBounded
  BY OracleAssumption DEF TypeOK, OracleTypeOK, CounterInv, RewindBounded
<1> QED
  BY <1>1, <1>2, <1>3, TypeCorrect, PTL DEF Spec

-----------------------------------------------------------------------------
(* The messages of a tick.                                                 *)

\* They are sorted by nonce, newer than the nonce read in this tick, and from
\* the blocks after startBlockNumber; outside of the loop there are none.
MsgsSorted == \A i, j \in 1..Len(msgs) : i < j => msgs[i].nonce < msgs[j].nonce

MsgsFresh ==
  \A i \in 1..Len(msgs) :
    /\ lastEventNonce < msgs[i].nonce
    /\ startBlockNumber < msgs[i].height /\ msgs[i].height <= BlocksRead

MsgsInv == MsgsSorted /\ MsgsFresh /\ (pc \in {"query", "send"} \/ Len(msgs) = 0)

\* The claims of one block are sorted, from that block and new.
LEMMA SortedMsgsOrder ==
  ASSUME TypeOK, NEW b \in Nat, NEW s \in SortedMsgs(NewEventsIn(b), b)
  PROVE  /\ \A i, j \in 1..Len(s) : i < j => s[i].nonce < s[j].nonce
         /\ \A i \in 1..Len(s) : /\ s[i].nonce \in 1..Len(events) /\ events[s[i].nonce].height = b
                                 /\ s[i].nonce > lastEventNonce /\ s[i].height = b
<1>1. Len(s) = Cardinality(NewEventsIn(b))
  BY SortedMsgsType DEF TypeOK, ChainTypeOK
<1>2. ASSUME NEW i \in 1..Len(s)
      PROVE  /\ s[i].nonce \in 1..Len(events) /\ events[s[i].nonce].height = b
             /\ s[i].nonce > lastEventNonce /\ s[i].height = b
  <2>1. PICK n \in NewEventsIn(b) : s[i] = ToMsg(n, b)
    BY <1>1 DEF SortedMsgs
  <2> QED
    BY <2>1 DEF ToMsg, NewEventsIn, EventsIn
<1> QED
  BY <1>1, <1>2 DEF SortedMsgs

\* Reading a block keeps the messages sorted: its events come after those of
\* the blocks before it.
LEMMA QueryKeepsMsgs ==
  ASSUME IndInv, MsgsInv, QueryBlock
  PROVE  MsgsInv'
<1> USE HistoryType DEF IndInv
<1>1. PICK s \in SortedMsgs(NewEventsIn(blockNumber), blockNumber) : msgs' = msgs \o s
  BY DEF QueryBlock
<1>2. /\ pc = "query" /\ startBlockNumber' = startBlockNumber /\ lastEventNonce' = lastEventNonce
      /\ startBlockNumber \in Nat /\ blockNumber \in Nat /\ lastEventNonce \in Nat
      /\ Len(msgs) \in Nat /\ startBlockNumber <= blockNumber - 1
  BY LenProperties DEF QueryBlock, TypeOK, OracleTypeOK, TickInv, BlocksRead
<1>3. s \in Seq(Msgs) /\ Len(s) \in Nat
  BY <1>2, SortedMsgsType, LenProperties DEF TypeOK, ChainTypeOK
<1>4. /\ Len(msgs') = Len(msgs) + Len(s)
      /\ \A i \in 1..Len(msgs) : msgs'[i] = msgs[i]
      /\ \A i \in 1..Len(s) : msgs'[Len(msgs) + i] = s[i]
  BY <1>1, <1>3, JoinedSeq DEF TypeOK, OracleTypeOK
<1>5. pc' \in {"query", "send"} /\ BlocksRead' = blockNumber
  <2>1. CASE FlushDue(Len(msgs'))
    BY <1>2, <2>1 DEF QueryBlock, BlocksRead
  <2>2. CASE ~FlushDue(Len(msgs'))
    BY <1>2, <2>2 DEF QueryBlock, BlocksRead
  <2> QED
    BY <2>1, <2>2
<1>6. /\ \A i, j \in 1..Len(s) : i < j => s[i].nonce < s[j].nonce
      /\ \A i \in 1..Len(s) : /\ s[i].nonce \in 1..Len(events) /\ events[s[i].nonce].height = blockNumber
                              /\ s[i].nonce > lastEventNonce /\ s[i].height = blockNumber
  BY <1>2, SortedMsgsOrder
<1>7. \A i \in 1..Len(msgs) :
        /\ msgs[i].nonce \in 1..Len(events) /\ events[msgs[i].nonce].height = msgs[i].height
        /\ msgs[i].height \in Nat /\ msgs[i].height <= blockNumber - 1
        /\ startBlockNumber < msgs[i].height /\ lastEventNonce < msgs[i].nonce
  <2> SUFFICES ASSUME NEW i \in 1..Len(msgs)
               PROVE  /\ msgs[i].nonce \in 1..Len(events) /\ events[msgs[i].nonce].height = msgs[i].height
                      /\ msgs[i].height \in Nat /\ msgs[i].height <= blockNumber - 1
                      /\ startBlockNumber < msgs[i].height /\ lastEventNonce < msgs[i].nonce
    OBVIOUS
  <2>1. Genuine(msgs[i])
    BY <1>2 DEF TickInv
  <2>2. msgs[i].nonce \in 1..Len(events) /\ events[msgs[i].nonce].height = msgs[i].height
    <3> DEFINE n == msgs[i].nonce
    <3>1. n \in 1..Len(events) /\ msgs[i] = ToMsg(n, events[n].height)
      BY <2>1 DEF Genuine, SettledEvents, EventsUpTo
    <3>2. ToMsg(n, events[n].height).height = events[n].height
      BY DEF ToMsg
    <3> QED
      BY <3>1, <3>2
  <2> QED
    BY <1>2, <2>2 DEF MsgsInv, MsgsFresh, BlocksRead
<1>8. ASSUME NEW i \in 1..Len(msgs') PROVE i \in 1..Len(msgs) \/ \E k \in 1..Len(s) : i = Len(msgs) + k
  <2>1. CASE i > Len(msgs)
    <3>1. i - Len(msgs) \in 1..Len(s) /\ i = Len(msgs) + (i - Len(msgs))
      BY <1>2, <1>3, <1>4, <2>1
    <3> QED
      BY <3>1
  <2> QED
    BY <1>2, <2>1
<1>9. ASSUME NEW i \in 1..Len(msgs'), NEW j \in 1..Len(msgs'), i < j
      PROVE  msgs'[i].nonce < msgs'[j].nonce
  <2>1. CASE i \in 1..Len(msgs) /\ j \in 1..Len(msgs)
    BY <1>4, <1>9, <2>1 DEF MsgsInv, MsgsSorted
  <2>2. ASSUME i \in 1..Len(msgs), NEW k \in 1..Len(s), j = Len(msgs) + k
        PROVE  msgs'[i].nonce < msgs'[j].nonce
    <3> DEFINE m == msgs[i].nonce
               n == s[k].nonce
    <3>1. m \in 1..Len(events) /\ events[m].height <= blockNumber - 1
      BY <1>7, <2>2
    <3>2. n \in 1..Len(events) /\ events[n].height = blockNumber
      BY <1>6
    <3>3. ~(n <= m)
      <4> HIDE DEF m, n
      <4>1. \A a, b \in 1..Len(events) : a <= b => events[a].height <= events[b].height
        BY DEF HistoryInv, Ordered
      <4>2. n <= m => events[n].height <= events[m].height
        BY <3>1, <3>2, <4>1
      <4> QED
        BY <1>2, <3>1, <3>2, <4>2
    <3>4. m < n
      BY <3>1, <3>2, <3>3
    <3> QED
      BY <1>4, <2>2, <3>4
  <2>3. ASSUME NEW h \in 1..Len(s), NEW k \in 1..Len(s), i = Len(msgs) + h, j = Len(msgs) + k
        PROVE  msgs'[i].nonce < msgs'[j].nonce
    <3>1. h < k
      BY <1>2, <1>9, <2>3
    <3> QED
      BY <1>4, <1>6, <2>3, <3>1
  <2>4. ~(j \in 1..Len(msgs) /\ \E k \in 1..Len(s) : i = Len(msgs) + k)
    BY <1>2, <1>3, <1>9
  <2> QED
    BY <1>8, <2>1, <2>2, <2>3, <2>4
<1>10. ASSUME NEW i \in 1..Len(msgs')
       PROVE  /\ lastEventNonce < msgs'[i].nonce
              /\ startBlockNumber < msgs'[i].height /\ msgs'[i].height <= blockNumber
  <2>1. CASE i \in 1..Len(msgs)
    <3>1. /\ msgs'[i] = msgs[i] /\ lastEventNonce < msgs[i].nonce /\ startBlockNumber < msgs[i].height
          /\ msgs[i].height \in Nat /\ msgs[i].height <= blockNumber - 1
      BY <1>4, <1>7, <2>1
    <3> QED
      BY <1>2, <3>1
  <2>2. ASSUME NEW k \in 1..Len(s), i = Len(msgs) + k
        PROVE  /\ lastEventNonce < msgs'[i].nonce
               /\ startBlockNumber < msgs'[i].height /\ msgs'[i].height <= blockNumber
    <3>1. msgs'[i] = s[k]
      BY <1>4, <2>2
    <3>2. s[k].nonce > lastEventNonce /\ s[k].height = blockNumber
      BY <1>6
    <3>3. s[k].nonce \in Nat
      BY <1>6
    <3> QED
      BY <1>2, <3>1, <3>2, <3>3
  <2> QED
    BY <1>8, <2>1, <2>2
<1>11. MsgsSorted'
  BY <1>9 DEF MsgsSorted
<1>12. MsgsFresh'
  BY <1>2, <1>5, <1>10 DEF MsgsFresh
<1> QED
  BY <1>5, <1>11, <1>12 DEF MsgsInv

\* Every step keeps the messages sorted.
LEMMA MsgsKept ==
  ASSUME IndInv, MsgsInv, [Next]_vars
  PROVE  MsgsInv'
<1>1. ASSUME Len(msgs)' = 0 PROVE MsgsInv'
  BY <1>1 DEF MsgsInv, MsgsSorted, MsgsFresh
<1>2. ASSUME UNCHANGED <<pc, startBlockNumber, blockNumber, lastEventNonce, msgs>> PROVE MsgsInv'
  BY <1>2 DEF MsgsInv, MsgsSorted, MsgsFresh, BlocksRead
<1>3. CASE QueryBlock
  BY <1>3, QueryKeepsMsgs
<1>4. CASE SendOk \/ Environment \/ UNCHANGED vars
  BY <1>2, <1>4 DEF SendOk, Environment, vars, daemonVars
<1>5. CASE CheckOracle \/ ReadNonce
  <2>1. pc \notin {"query", "send"} /\ UNCHANGED msgs
    BY <1>5 DEF CheckOracle, ReadNonce
  <2> QED
    BY <1>1, <2>1 DEF MsgsInv
<1>6. CASE NothingNew \/ ReadHead \/ SendUnanswered \/ CallFails \/ Crash
  <2>1. msgs' = <<>>
    BY <1>6 DEF NothingNew, ReadHead, SendUnanswered, CallFails, Crash, DropLocals
  <2> QED
    BY <1>1, <2>1, EmptySeq
<1>7. CASE Advance
  <2>1. msgs' = <<>>
    BY <1>7 DEF Advance, DropLocals
  <2> QED
    BY <1>1, <2>1, EmptySeq
<1>8. CASE Start
  <2>1. pc \notin {"query", "send"} /\ (UNCHANGED msgs \/ msgs' = <<>>)
    BY <1>8 DEF Start, Boot, BootFresh, ScanHead, ScanDown, ScanFound, ScanExhausted, DropLocals
  <2> QED
    BY <1>1, <2>1, EmptySeq DEF MsgsInv
<1> QED
  BY <1>3, <1>4, <1>5, <1>6, <1>7, <1>8 DEF Next, Tick

\* So they are sorted always.
LEMMA MsgsAlways == Spec => []MsgsInv
<1>1. Init => MsgsInv
  BY EmptySeq DEF Init, OracleInit, MsgsInv, MsgsSorted, MsgsFresh
<1>2. IndInv /\ MsgsInv /\ [Next]_vars => MsgsInv'
  BY MsgsKept
<1> QED
  BY <1>1, <1>2, Inductive, PTL DEF Spec

\* Sorted messages that hold every new event of the blocks read have no gap.
LEMMA SortedHasNoGap ==
  ASSUME IndInv, MsgsInv
  PROVE  ClaimsLeaveNoGap
<1> USE HistoryType DEF IndInv
<1>1. CASE Len(msgs) = 0
  <2>1. msgs = <<>>
    BY <1>1, EmptySeq DEF TypeOK, OracleTypeOK
  <2> QED
    BY <1>1, <2>1 DEF ClaimsLeaveNoGap
<1>2. CASE Len(msgs) # 0
  <2>1. Len(msgs) \in Nat \ {0} /\ pc \in {"query", "send"}
    BY <1>2, LenProperties DEF MsgsInv, TypeOK, OracleTypeOK
  <2>2. /\ startBlockNumber \in Nat /\ BlocksRead \in Int /\ lastEventNonce \in Nat
        /\ settled \in Nat
    BY DEF TypeOK, OracleTypeOK, ChainTypeOK, BlocksRead
  <2>3. \A i \in 1..Len(msgs) :
          /\ msgs[i].nonce \in 1..Len(events) /\ events[msgs[i].nonce].height = msgs[i].height
          /\ msgs[i].height \in Nat /\ msgs[i].height <= BlocksRead
          /\ startBlockNumber < msgs[i].height /\ lastEventNonce < msgs[i].nonce
    <3> SUFFICES ASSUME NEW i \in 1..Len(msgs)
                 PROVE  /\ msgs[i].nonce \in 1..Len(events)
                        /\ events[msgs[i].nonce].height = msgs[i].height
                        /\ msgs[i].height \in Nat /\ msgs[i].height <= BlocksRead
                        /\ startBlockNumber < msgs[i].height /\ lastEventNonce < msgs[i].nonce
      OBVIOUS
    <3>1. Genuine(msgs[i])
      BY <2>1 DEF TickInv
    <3>2. msgs[i].nonce \in 1..Len(events) /\ events[msgs[i].nonce].height = msgs[i].height
      <4> DEFINE n == msgs[i].nonce
      <4>1. n \in 1..Len(events) /\ msgs[i] = ToMsg(n, events[n].height)
        BY <3>1 DEF Genuine, SettledEvents, EventsUpTo
      <4>2. ToMsg(n, events[n].height).height = events[n].height
        BY DEF ToMsg
      <4> QED
        BY <4>1, <4>2
    <3> QED
      BY <3>2 DEF MsgsInv, MsgsFresh
  <2>4. ASSUME NEW n \in 1..Len(events), n > lastEventNonce,
               events[n].height <= BlocksRead, events[n].height > startBlockNumber
        PROVE  \E i \in 1..Len(msgs) : msgs[i].nonce = n
    BY <2>1, <2>4 DEF TickInv, EventsUpTo
  <2>5. ASSUME NEW i \in 1..(Len(msgs) - 1)
        PROVE  msgs[i + 1].nonce = msgs[i].nonce + 1
    <3> DEFINE m == msgs[i].nonce
               n == msgs[i + 1].nonce
    <3>1. i \in 1..Len(msgs) /\ i + 1 \in 1..Len(msgs)
      BY <2>1
    <3>2. m \in 1..Len(events) /\ n \in 1..Len(events) /\ m < n /\ lastEventNonce < m
      BY <2>3, <3>1 DEF MsgsInv, MsgsSorted
    <3>3. SUFFICES ASSUME m + 1 < n PROVE FALSE
      BY <3>2
    <3>4. m + 1 \in 1..Len(events) /\ m + 1 > lastEventNonce
      BY <2>2, <3>2, <3>3
    <3>5. events[m].height <= events[m + 1].height /\ events[m + 1].height <= events[n].height
      <4> DEFINE k == m + 1
      <4>1. m <= k /\ k <= n
        BY <3>2, <3>3
      <4>2. k \in 1..Len(events)
        BY <3>4
      <4>3. \A a, b \in 1..Len(events) : a <= b => events[a].height <= events[b].height
        BY DEF HistoryInv, Ordered
      <4> HIDE DEF m, n, k
      <4>4. events[m].height <= events[k].height /\ events[k].height <= events[n].height
        BY <3>2, <4>1, <4>2, <4>3
      <4> QED
        BY <4>4 DEF k
    <3>6. events[m + 1].height <= BlocksRead /\ events[m + 1].height > startBlockNumber
      <4>1. events[m].height > startBlockNumber /\ events[n].height <= BlocksRead
        BY <2>3, <3>1
      <4>2. events[m].height \in Nat /\ events[m + 1].height \in Nat /\ events[n].height \in Nat
        BY <3>2, <3>4
      <4> DEFINE low == events[m].height
                 mid == events[m + 1].height
                 high == events[n].height
      <4>3. low <= mid /\ mid <= high /\ low > startBlockNumber /\ high <= BlocksRead
        BY <3>5, <4>1
      <4>4. low \in Nat /\ mid \in Nat /\ high \in Nat
        BY <4>2
      <4> HIDE DEF low, mid, high
      <4>5. mid <= BlocksRead /\ mid > startBlockNumber
        BY <2>2, <4>3, <4>4
      <4> QED
        BY <4>5 DEF mid
    <3>7. PICK j \in 1..Len(msgs) : msgs[j].nonce = m + 1
      BY <2>4, <3>4, <3>6
    <3>8. ~(j < i) /\ j # i /\ ~(i + 1 < j) /\ j # i + 1
      <4>1. j < i => msgs[j].nonce < m
        BY <3>1 DEF MsgsInv, MsgsSorted
      <4>2. i + 1 < j => n < msgs[j].nonce
        BY <3>1 DEF MsgsInv, MsgsSorted
      <4> QED
        BY <3>2, <3>3, <3>7, <4>1, <4>2
    <3> QED
      BY <3>1, <3>8
  <2>6. msgs[1].nonce = lastEventNonce + 1 \/ lastEventNonce + 1 \in EventsUpTo(startBlockNumber)
    <3> DEFINE n == msgs[1].nonce
               k == lastEventNonce + 1
    <3>1. /\ 1 \in 1..Len(msgs) /\ n \in 1..Len(events) /\ lastEventNonce < n
          /\ events[n].height <= BlocksRead
      BY <2>1, <2>3
    <3>2. SUFFICES ASSUME k < n, ~(events[k].height <= startBlockNumber) PROVE FALSE
      BY <2>2, <3>1 DEF EventsUpTo
    <3>3. k \in 1..Len(events) /\ k > lastEventNonce
      BY <2>2, <3>1, <3>2
    <3>4. events[k].height <= events[n].height
      BY <3>1, <3>2, <3>3 DEF HistoryInv, Ordered
    <3>5. events[k].height <= BlocksRead /\ events[k].height > startBlockNumber
      BY <2>2, <3>1, <3>2, <3>3, <3>4
    <3>6. PICK j \in 1..Len(msgs) : msgs[j].nonce = k
      BY <2>4, <3>3, <3>5
    <3>7. 1 < j => n < msgs[j].nonce
      BY <3>1 DEF MsgsInv, MsgsSorted
    <3>8. j # 1 /\ ~(1 < j)
      BY <3>1, <3>2, <3>3, <3>6, <3>7
    <3> QED
      BY <2>1, <3>8
  <2> QED
    BY <2>5, <2>6 DEF ClaimsLeaveNoGap
<1> QED
  BY <1>1, <1>2

\* The claims of a tick carry on from one another, for every history, every
\* number of events in a block and every batch limit.
THEOREM NoGap == Spec => []ClaimsLeaveNoGap
<1>1. IndInv /\ MsgsInv => ClaimsLeaveNoGap
  BY SortedHasNoGap
<1> QED
  BY <1>1, MsgsAlways, Inductive, PTL

\* A finite set of nonces gives one list of claims: it can be sorted, in one way.
LEMMA OneSortedList ==
  ASSUME NEW N \in SUBSET Int, IsFiniteSet(N), NEW b
  PROVE  \E s : SortedMsgs(N, b) = {s}
<1> DEFINE n == Cardinality(N)
           M == {ToMsg(k, b) : k \in N}
<1>1. PICK f : Sorts(f, N, n)
  BY SortExists
<1> DEFINE s == [i \in 1..n |-> ToMsg(f[i], b)]
<1>2. n \in Nat
  BY FS_CardinalityType
<1>3. /\ f \in [1..n -> N]
      /\ \A k \in N : \E i \in 1..n : f[i] = k
      /\ \A i, j \in 1..n : i < j => f[i] < f[j]
  BY <1>1 DEF Sorts
<1>4. \A k : ToMsg(k, b).nonce = k
  BY DEF ToMsg
<1>5. s \in SortedMsgs(N, b)
  <2>1. s \in [1..n -> M]
    BY <1>3
  <2>2. \A k \in N : \E i \in 1..n : s[i] = ToMsg(k, b)
    BY <1>3
  <2>3. ASSUME NEW i \in 1..n, NEW j \in 1..n, i < j PROVE s[i].nonce < s[j].nonce
    BY <1>3, <1>4, <2>3
  <2> QED
    BY <2>1, <2>2, <2>3 DEF SortedMsgs
<1>6. ASSUME NEW t \in SortedMsgs(N, b) PROVE t = s
  <2> DEFINE g == [i \in 1..n |-> t[i].nonce]
  <2>1. /\ t \in [1..n -> M]
        /\ \A k \in N : \E i \in 1..n : t[i] = ToMsg(k, b)
        /\ \A i, j \in 1..n : i < j => t[i].nonce < t[j].nonce
    BY DEF SortedMsgs
  <2>2. ASSUME NEW i \in 1..n PROVE t[i].nonce \in N /\ t[i] = ToMsg(t[i].nonce, b)
    <3>1. PICK k \in N : t[i] = ToMsg(k, b)
      BY <2>1
    <3> QED
      BY <1>4, <3>1
  <2>3. Sorts(g, N, n)
    <3>1. g \in [1..n -> N]
      BY <2>2
    <3>2. ASSUME NEW k \in N PROVE \E i \in 1..n : g[i] = k
      <4>1. PICK i \in 1..n : t[i] = ToMsg(k, b)
        BY <2>1
      <4>2. g[i] = k
        BY <1>4, <4>1
      <4> QED
        BY <4>2
    <3> QED
      BY <2>1, <3>1, <3>2 DEF Sorts
  <2>4. g = f
    BY <1>1, <2>3, SortUnique
  <2>5. ASSUME NEW i \in 1..n PROVE t[i] = s[i]
    <3>1. t[i].nonce = f[i]
      <4>1. g[i] = f[i]
        BY <2>4
      <4> QED
        BY <4>1
    <3> QED
      BY <2>2, <3>1
  <2> QED
    BY <2>1, <2>5
<1> QED
  BY <1>5, <1>6

\* What a tick claims for a block depends on the chain and on the nonce it read
\* only, never on the order in which the node lists the logs; and the sort gives
\* a result whatever they are.
THEOREM ClaimsOfBlockDetermined ==
  Spec => [](pc = "query" => \E s : SortedMsgs(NewEventsIn(blockNumber), blockNumber) = {s})
<1>1. TypeOK => \E s : SortedMsgs(NewEventsIn(blockNumber), blockNumber) = {s}
  <2> SUFFICES ASSUME TypeOK PROVE \E s : SortedMsgs(NewEventsIn(blockNumber), blockNumber) = {s}
    OBVIOUS
  <2>1. Len(events) \in Nat
    BY LenProperties DEF TypeOK, ChainTypeOK
  <2>2. NewEventsIn(blockNumber) \in SUBSET (1..Len(events)) /\ IsFiniteSet(1..Len(events))
    BY <2>1, FS_Interval DEF NewEventsIn, EventsIn
  <2>3. NewEventsIn(blockNumber) \in SUBSET Int /\ IsFiniteSet(NewEventsIn(blockNumber))
    BY <2>1, <2>2, FS_Subset
  <2> QED
    BY <2>3, OneSortedList
<1> QED
  BY <1>1, TypeCorrect, PTL

-----------------------------------------------------------------------------
(* The scan for an oracle set update.                                      *)

\* The scan has passed no settled update.  The head it read is
\* limit + ScanDepth, as long as the chain is old enough for the window.
ScanInv ==
  /\ InitHead - TronBlockDelay <= settled
  /\ pc = "scan" =>
       /\ limit + ScanDepth <= MaxHead
       /\ limit + ScanDepth - TronBlockDelay <= settled
       /\ \A n \in 1..Len(events) :
            events[n].kind = OracleSetUpdated
              /\ events[n].height <= limit + ScanDepth - TronBlockDelay
                => events[n].height <= blockNumber

\* The scan begins at the head, which no event is above.
LEMMA ScanHeadKeepsScan ==
  ASSUME IndInv, ScanInv, ScanHead, ScanDepth + TronBlockDelay <= InitHead
  PROVE  ScanInv'
<1> USE HistoryType DEF IndInv
<1>1. /\ head \in Nat /\ settled \in Nat /\ settled <= head /\ head <= MaxHead
      /\ TronBlockDelay \in Nat /\ ScanDepth \in Nat /\ InitHead \in Nat /\ MaxHead \in Nat
  BY ChainAssumption, OracleAssumption DEF TypeOK, ChainTypeOK
<1>2. limit' = head - ScanDepth /\ blockNumber' = head
  BY <1>1 DEF ScanHead, Minus, ScanInv
<1>3. settled' = settled /\ events' = events
  BY DEF ScanHead, chainVars
<1>4. limit' + ScanDepth = head
  BY <1>1, <1>2
<1>5. \A n \in 1..Len(events) : events[n].height <= head
  BY <1>1 DEF HistoryInv
<1>6. head - TronBlockDelay <= settled
  BY DEF HistoryInv
<1> QED
  BY <1>1, <1>2, <1>3, <1>4, <1>5, <1>6 DEF ScanInv

\* A block without an update is passed.
LEMMA ScanDownKeepsScan ==
  ASSUME IndInv, ScanInv, ScanDown
  PROVE  ScanInv'
<1> USE HistoryType DEF IndInv
<1>1. /\ pc = "scan" /\ blockNumber' = blockNumber - 1 /\ blockNumber \in Nat
      /\ limit' = limit /\ settled' = settled /\ events' = events
  BY DEF ScanDown, chainVars, TypeOK, OracleTypeOK
<1>2. ASSUME NEW n \in 1..Len(events), events[n].kind = OracleSetUpdated
      PROVE  events[n].height # blockNumber
  BY <1>2 DEF ScanDown, OracleSetUpdatedIn, EventsIn
<1>3. ASSUME NEW n \in 1..Len(events), events[n].kind = OracleSetUpdated,
             events[n].height <= limit + ScanDepth - TronBlockDelay
      PROVE  events[n].height <= blockNumber - 1
  <2>1. events[n].height <= blockNumber /\ events[n].height \in Nat
    BY <1>1, <1>3 DEF ScanInv
  <2> QED
    BY <1>1, <1>2, <1>3, <2>1
<1> QED
  BY <1>1, <1>3 DEF ScanInv

\* What the chain does meanwhile happens above the settled blocks.
LEMMA ChainKeepsScan ==
  ASSUME IndInv, ScanInv, ChainNext, UNCHANGED <<coreVars, daemonVars>>
  PROVE  ScanInv'
<1> USE HistoryType DEF IndInv
<1>1. /\ settled <= settled' /\ settled' \in Nat /\ settled \in Nat
      /\ \A n \in 1..Len(events)' :
           \/ n \in 1..Len(events) /\ events'[n] = events[n]
           \/ events'[n].height > settled
  BY SettledStays DEF TypeOK, ChainTypeOK
<1>2. pc' = pc /\ limit' = limit /\ blockNumber' = blockNumber
  BY DEF daemonVars
<1>3. /\ TronBlockDelay \in Nat /\ ScanDepth \in Nat /\ InitHead \in Nat
      /\ limit \in Nat /\ blockNumber \in Nat
  BY ChainAssumption, OracleAssumption DEF TypeOK, OracleTypeOK
<1>4. InitHead - TronBlockDelay <= settled'
  BY <1>1, <1>3 DEF ScanInv
<1>5. TypeOK'
  BY NextKeepsType DEF Next, Environment
<1>6. ASSUME pc = "scan", NEW n \in 1..Len(events)', events'[n].kind = OracleSetUpdated,
             events'[n].height <= limit + ScanDepth - TronBlockDelay
      PROVE  events'[n].height <= blockNumber
  <2>1. limit + ScanDepth - TronBlockDelay <= settled
    BY <1>6 DEF ScanInv
  <2>2. CASE n \in 1..Len(events) /\ events'[n] = events[n]
    BY <1>6, <2>2 DEF ScanInv
  <2>3. CASE events'[n].height > settled
    <3>1. events' \in Seq(Events)
      BY <1>5 DEF TypeOK, ChainTypeOK
    <3>2. events'[n] \in Events
      BY <3>1, ElementOfSeq
    <3>3. events'[n].height \in Nat
      BY <3>2 DEF Events
    <3> QED
      BY <1>1, <1>3, <1>6, <2>1, <2>3, <3>3
  <2> QED
    BY <1>1, <2>2, <2>3
<1>7. pc = "scan" => /\ limit + ScanDepth <= MaxHead
                     /\ limit + ScanDepth - TronBlockDelay <= settled'
  BY <1>1, <1>3 DEF ScanInv
<1> QED
  BY <1>2, <1>4, <1>6, <1>7 DEF ScanInv

\* Every step keeps the scan complete.
LEMMA ScanKept ==
  ASSUME IndInv, ScanInv, [Next]_vars, ScanDepth + TronBlockDelay <= InitHead
  PROVE  ScanInv'
<1>1. ASSUME settled' = settled, pc' # "scan" PROVE ScanInv'
  BY <1>1 DEF ScanInv
<1>2. ASSUME UNCHANGED <<chainVars, pc, limit, blockNumber>> PROVE ScanInv'
  BY <1>2 DEF ScanInv, chainVars
<1>3. CASE ScanHead
  BY <1>3, ScanHeadKeepsScan
<1>4. CASE ScanDown
  BY <1>4, ScanDownKeepsScan
<1>5. CASE ChainNext /\ UNCHANGED <<coreVars, daemonVars>>
  BY <1>5, ChainKeepsScan
<1>6. CASE (CoreNext /\ UNCHANGED <<chainVars, daemonVars>>) \/ UNCHANGED vars
  BY <1>2, <1>6 DEF vars, daemonVars
<1>7. CASE Tick
  BY <1>1, <1>7 DEF Tick, CheckOracle, ReadNonce, NothingNew, ReadHead, QueryBlock, Sending,
                    SendOk, SendUnanswered, CallFails, Advance, chainVars
<1>8. CASE Crash
  BY <1>1, <1>8 DEF Crash, chainVars
<1>9. CASE ScanFound \/ ScanExhausted \/ \E flag \in StartFlags : Boot(flag) \/ BootFresh(flag)
  BY <1>1, <1>9 DEF ScanFound, ScanExhausted, Boot, BootFresh, chainVars
<1> QED
  BY <1>3, <1>4, <1>5, <1>6, <1>7, <1>8, <1>9 DEF Next, Start, Environment

\* On a chain that is older than the window and the delay, getLastBlockNumber
\* gives up only if there is no settled oracle set update in its window.
\* (Run young_chain shows what becomes of it on a younger chain.)
THEOREM GiveUpSound ==
  ASSUME ScanDepth + TronBlockDelay <= InitHead
  PROVE  Spec => []GiveUpMeansAbsent
<1> USE ChainAssumption, OracleAssumption
<1>1. Init => ScanInv
  BY DEF Init, ChainInit, OracleInit, ScanInv
<1>2. IndInv /\ ScanInv /\ [Next]_vars => ScanInv'
  BY ScanKept
<1>3. IndInv /\ ScanInv => GiveUpMeansAbsent
  <2> DEFINE top == (limit + ScanDepth) % U64
  <2> SUFFICES ASSUME IndInv, ScanInv, pc = "scan", ~InWindow, NEW n \in 1..Len(events),
                      events[n].kind = OracleSetUpdated,
                      events[n].height <= top - TronBlockDelay
               PROVE  events[n].height <= top - ScanDepth
    BY DEF GiveUpMeansAbsent
  <2> USE HistoryType DEF IndInv
  <2>1. limit \in Nat /\ blockNumber \in Nat /\ limit + ScanDepth < U64
    BY DEF TypeOK, OracleTypeOK, ScanInv
  <2>2. top = limit + ScanDepth
    <3> DEFINE sum == limit + ScanDepth
    <3>1. sum \in Nat /\ U64 \in Nat /\ sum < U64
      BY <2>1
    <3> HIDE DEF sum
    <3>2. sum % U64 = sum
      BY <3>1
    <3> QED
      BY <3>2 DEF sum
  <2> HIDE DEF top
  <2>3. events[n].height \in Nat
    OBVIOUS
  <2>4. events[n].height <= limit + ScanDepth - TronBlockDelay
    <3> DEFINE h == events[n].height
    <3>1. h <= top - TronBlockDelay /\ h \in Nat
      BY <2>3
    <3> HIDE DEF h
    <3>2. h <= limit + ScanDepth - TronBlockDelay
      BY <2>1, <2>2, <3>1
    <3> QED
      BY <3>2 DEF h
  <2>5. events[n].height <= blockNumber
    BY <2>4 DEF ScanInv
  <2> QED
    BY <2>1, <2>2, <2>3, <2>5 DEF InWindow
<1> QED
  BY <1>1, <1>2, <1>3, Inductive, PTL DEF Spec

\* The scan has looked below the head that it read, unless that was so low that
\* its window ends above it.
YoungInv ==
  pc = "scan" => \/ limit + ScanDepth <= MaxHead
                 \/ limit + ScanDepth >= U64 /\ blockNumber <= limit

\* On a chain whose head is below ScanDepth, getLastBlockNumber never looks at a
\* block: a block is read, or passed, only when the head that the scan has
\* started from, limit + ScanDepth, did not make the subtraction wrap around.
THEOREM YoungChainGivesUp ==
  Spec => [][ScanDown \/ ScanFound => limit + ScanDepth <= MaxHead]_vars
<1> USE ChainAssumption, OracleAssumption
<1>1. Init => YoungInv
  BY DEF Init, OracleInit, YoungInv
<1>2. ASSUME TypeOK, YoungInv, [Next]_vars PROVE YoungInv'
  <2> USE <1>2
  <2>1. ASSUME pc' # "scan" PROVE YoungInv'
    BY <2>1 DEF YoungInv
  <2>2. ASSUME UNCHANGED <<pc, limit, blockNumber>> PROVE YoungInv'
    BY <2>2 DEF YoungInv
  <2>3. CASE ScanHead
    <3>1. head \in Nat /\ head <= MaxHead /\ blockNumber' = head /\ limit' = Minus(head, ScanDepth)
      BY <2>3 DEF ScanHead, TypeOK, ChainTypeOK
    <3> QED
      BY <3>1 DEF YoungInv, Minus
  <2>4. CASE ScanDown
    <3>1. /\ limit \in Nat /\ blockNumber \in Nat /\ limit' = limit /\ blockNumber > limit
          /\ pc = "scan"
      BY <2>4 DEF ScanDown, InWindow, TypeOK, OracleTypeOK
    <3> QED
      BY <3>1 DEF YoungInv
  <2>5. CASE Tick \/ Crash \/ ScanFound \/ ScanExhausted
               \/ \E flag \in StartFlags : Boot(flag) \/ BootFresh(flag)
    BY <2>1, <2>5 DEF Tick, CheckOracle, ReadNonce, NothingNew, ReadHead, QueryBlock, Sending,
         SendOk, SendUnanswered, CallFails, Advance, Crash, ScanFound, ScanExhausted, Boot, BootFresh
  <2>6. CASE Environment \/ UNCHANGED vars
    BY <2>2, <2>6 DEF Environment, vars, daemonVars
  <2> QED
    BY <2>3, <2>4, <2>5, <2>6 DEF Next, Start
<1>3. ASSUME TypeOK, YoungInv, ScanDown \/ ScanFound PROVE limit + ScanDepth <= MaxHead
  <2>1. pc = "scan" /\ blockNumber > limit /\ blockNumber \in Nat /\ limit \in Nat
    BY <1>3 DEF ScanDown, ScanFound, InWindow, TypeOK, OracleTypeOK
  <2> QED
    BY <1>3, <2>1 DEF YoungInv
<1>4. TypeOK /\ YoungInv /\ [Next]_vars
        => [ScanDown \/ ScanFound => limit + ScanDepth <= MaxHead]_vars
  BY <1>3
<1> QED
  BY <1>1, <1>2, <1>4, TypeCorrect, PTL DEF Spec

-----------------------------------------------------------------------------
(* The loop of a tick.                                                     *)

\* The loop has come further: to a later block, from reading a block to
\* sending, or by a chunk.
Further ==
  \/ blockNumber' = blockNumber + 1
  \/ blockNumber' = blockNumber /\ pc = "query" /\ pc' = "send"
  \/ blockNumber' = blockNumber /\ pc = "send" /\ pc' = "send" /\ endIndex < endIndex'

\* A step of the loop that does not leave it comes further, within bounds that
\* stay as they are.
LoopStep ==
  pc \in {"query", "send"} /\ pc' \in {"query", "send"} =>
    \/ UNCHANGED daemonVars
    \/ /\ Further
       /\ limit' = limit /\ blockNumber' <= limit
       /\ pc = "send" /\ pc' = "send" => msgs' = msgs /\ endIndex' <= Len(msgs)

\* So a tick is over after finitely many calls, whatever the chain does
\* meanwhile, and the loop of bridgeEvent leaves out none of its blocks.
THEOREM LoopAdvances == Spec => [][LoopStep]_vars
<1>1. ASSUME IndInv, [Next]_vars PROVE LoopStep
  <2> USE <1>1 DEF IndInv
  <2> SUFFICES ASSUME pc \in {"query", "send"}, pc' \in {"query", "send"}, ~UNCHANGED daemonVars
               PROVE  /\ Further
                      /\ limit' = limit /\ blockNumber' <= limit
                      /\ pc = "send" /\ pc' = "send" => msgs' = msgs /\ endIndex' <= Len(msgs)
    BY DEF LoopStep
  <2>1. blockNumber \in Nat /\ limit \in Nat /\ blockNumber <= limit
    BY DEF TickInv, TypeOK, OracleTypeOK
  <2>2. CASE QueryBlock
    <3>1. pc = "query" /\ limit' = limit
      BY <2>2 DEF QueryBlock
    <3>2. CASE pc' = "send" /\ blockNumber' = blockNumber
      BY <2>1, <3>1, <3>2 DEF Further
    <3>3. CASE blockNumber' = blockNumber + 1 /\ ~FlushDue(Len(msgs')) /\ pc' = pc
      <4>1. blockNumber # limit
        BY <3>3 DEF FlushDue
      <4> QED
        BY <2>1, <3>1, <3>3, <4>1 DEF Further
    <3> QED
      BY <2>2, <3>2, <3>3 DEF QueryBlock
  <2>3. CASE SendOk
    <3>1. /\ pc = "send" /\ pc' = "send" /\ blockNumber' = blockNumber /\ limit' = limit
          /\ msgs' = msgs /\ endIndex' = ChunkEnd /\ endIndex < Len(msgs)
      BY <2>3 DEF SendOk, Sending
    <3>2. ChunkEnd \in endIndex + 1..Len(msgs) /\ endIndex \in Nat /\ Len(msgs) \in Nat
      BY <3>1, NextChunkType, LenProperties DEF TypeOK, OracleTypeOK
    <3> QED
      BY <2>1, <3>1, <3>2 DEF Further
  <2>4. CASE Advance
    <3>1. /\ pc = "send" /\ pc' = "query" /\ blockNumber # limit
          /\ blockNumber' = blockNumber + 1 /\ limit' = limit
      BY <2>4 DEF Advance
    <3> QED
      BY <2>1, <3>1 DEF Further
  <2> QED
    BY <2>2, <2>3, <2>4
       DEF Next, Tick, Start, Crash, Environment, CheckOracle, ReadNonce, NothingNew, ReadHead,
           SendUnanswered, CallFails, Boot, BootFresh, ScanHead, ScanDown, ScanFound,
           ScanExhausted, vars, daemonVars
<1> QED
  BY <1>1, Inductive, PTL DEF Spec

\* While it runs the daemon leaves no unclaimed event behind.
THEOREM NothingPassed == Spec => AdvanceSkipsNothing
<1> DEFINE Skips == pc = "send" /\ pc' # "down"
                      => Skipped(startBlockNumber)' \subseteq Skipped(startBlockNumber)
<1>1. ASSUME IndInv, [Next]_vars
      PROVE  Skips
  <2> USE <1>1, HistoryType DEF IndInv
  <2> SUFFICES ASSUME pc = "send", pc' # "down", NEW n \in Skipped(startBlockNumber)'
               PROVE  n \in Skipped(startBlockNumber)
    OBVIOUS
  <2>1. n \in 1..Len(events)' /\ events'[n].height <= startBlockNumber' /\ n > Len(claimed')
    BY DEF Skipped, EventsUpTo, LastEventNonce
  <2>2. startBlockNumber <= settled /\ settled \in Nat /\ startBlockNumber \in Nat
    BY DEF TickInv, BlocksRead, TypeOK, ChainTypeOK, OracleTypeOK
  <2>3. CASE Advance
    <3>1. /\ AllSent /\ events' = events /\ claimed' = claimed /\ startBlockNumber' = blockNumber
      BY <2>3 DEF Advance, chainVars, coreVars
    <3> QED
      BY <2>1, <3>1, AllReadAreClaimed DEF Skipped, EventsUpTo, LastEventNonce
  <2>4. CASE SendOk
    <3>1. /\ events' = events /\ startBlockNumber' = startBlockNumber
          /\ Len(claimed') \in Nat /\ Len(claimed) < Len(claimed')
      <4>1. NextChunk \in Seq(Msgs)
        BY <2>4, NextChunkType DEF SendOk, Sending, TypeOK, OracleTypeOK
      <4> QED
        BY <2>4, <4>1, ExecuteType, LenProperties DEF SendOk, chainVars, TypeOK
    <3> QED
      BY <2>1, <3>1 DEF Skipped, EventsUpTo, LastEventNonce
  <2>5. CASE SendUnanswered \/ CallFails \/ UNCHANGED vars
    <3>1. events' = events /\ claimed' = claimed /\ startBlockNumber' = startBlockNumber
      BY <2>5 DEF SendUnanswered, CallFails, vars, daemonVars, chainVars, coreVars
    <3> QED
      BY <2>1, <3>1 DEF Skipped, EventsUpTo, LastEventNonce
  <2>6. CASE ChainNext /\ UNCHANGED <<coreVars, daemonVars>>
    <3>1. startBlockNumber' = startBlockNumber /\ claimed' = claimed
      BY <2>6 DEF coreVars, daemonVars
    <3>2. \/ n \in 1..Len(events) /\ events'[n] = events[n]
          \/ events'[n].height > settled
      BY <2>1, <2>6, SettledStays
    <3>3. events'[n].height \in Nat
      BY <2>1, <2>6, SettledStays DEF HistoryInv
    <3> QED
      BY <2>1, <2>2, <3>1, <3>2, <3>3 DEF Skipped, EventsUpTo, LastEventNonce
  <2>7. CASE CoreNext /\ UNCHANGED <<chainVars, daemonVars>>
    <3>1. events' = events /\ startBlockNumber' = startBlockNumber
      BY <2>7 DEF chainVars, daemonVars
    <3>2. Len(claimed) <= Len(claimed') /\ Len(claimed') \in Nat
      <4>1. ASSUME NEW tx \in pending, DeliverLate(tx)
            PROVE  Len(claimed) <= Len(claimed') /\ Len(claimed') \in Nat
        <5>1. tx \in Seq(Msgs)
          BY DEF TypeOK, CoreTypeOK
        <5> QED
          BY <4>1, <5>1, ExecuteType DEF DeliverLate, TypeOK
      <4> QED
        BY <2>7, <4>1 DEF CoreNext, DropLate, SetOnline
    <3> QED
      BY <2>1, <3>1, <3>2 DEF Skipped, EventsUpTo, LastEventNonce
  <2> QED
    BY <2>3, <2>4, <2>5, <2>6, <2>7
       DEF Next, Tick, Start, Crash, Environment, CheckOracle, ReadNonce, NothingNew, ReadHead,
           QueryBlock, Boot, BootFresh, ScanHead, ScanDown, ScanFound, ScanExhausted
<1>2. IndInv /\ [Next]_vars => [Skips]_vars
  BY <1>1
<1>3. Spec => [][Skips]_vars
  BY <1>2, Inductive, PTL DEF Spec
<1> QED
  BY <1>3 DEF AdvanceSkipsNothing

-----------------------------------------------------------------------------
(* A block that was claimed in part.                                       *)

\* The next event lies in a settled block, at or below the last claim's.
LEMMA SplitFacts ==
  ASSUME IndInv, BlockSplit
  PROVE  /\ coreHeight \in Nat /\ coreHeight <= settled
         /\ Len(claimed) + 1 \in SettledEvents
         /\ events[Len(claimed) + 1].height <= coreHeight
<1> USE HistoryType DEF IndInv
<1>1. coreHeight \in Nat /\ coreHeight > 0
  BY DEF TypeOK, CoreTypeOK, BlockSplit, LastEventBlockHeight
<1>2. claimed # <<>> /\ coreHeight = events[Len(claimed)].height
  BY <1>1 DEF CoreInv
<1>3. Len(claimed) \in 1..Len(claimed)
  BY <1>2, EmptySeq DEF TypeOK, CoreTypeOK
<1>4. Len(claimed) \in SettledEvents
  BY <1>3 DEF CoreInv, ClaimsAreSettled
<1>5. coreHeight <= settled
  BY <1>2, <1>4 DEF SettledEvents, EventsUpTo
<1>6. Len(claimed) + 1 \in 1..Len(events) /\ events[Len(claimed) + 1].height <= coreHeight
  BY DEF BlockSplit, LastEventNonce, LastEventBlockHeight, EventsUpTo
<1>7. settled \in Nat
  BY DEF TypeOK, ChainTypeOK
<1> QED
  BY <1>1, <1>5, <1>6, <1>7 DEF SettledEvents, EventsUpTo

\* No transaction of this bridger can be executed any more: f(x)Core wants the
\* next event first.
LEMMA NothingExecutes ==
  ASSUME BlockSplit, NEW tx \in Seq(Msgs),
         \A i \in 1..Len(tx) : tx[i].nonce # Len(claimed) + 1
  PROVE  ~Execute(tx)
<1> SUFFICES ASSUME Continues(tx) PROVE FALSE
  BY DEF Execute
<1>1. Len(tx) \in Nat \ {0}
  BY EmptySeq DEF Continues
<1>2. tx[1].nonce = Len(claimed) + 1
  BY <1>1 DEF Continues
<1> QED
  BY <1>1, <1>2

\* A step that starts in such a state ends in one.
LEMMA SplitKept ==
  ASSUME IndInv, IndInv', MsgsInv', BlockSplit, [Next]_vars
  PROVE  BlockSplit' /\ UNCHANGED claimed
<1> DEFINE next == Len(claimed) + 1
<1> USE HistoryType DEF IndInv
<1>1. /\ coreHeight \in Nat /\ coreHeight > 0 /\ coreHeight <= settled
      /\ next \in SettledEvents /\ next \in 1..Len(events) /\ events[next].height <= coreHeight
      /\ events[next].height \in Nat
  BY SplitFacts DEF BlockSplit, LastEventBlockHeight, SettledEvents, EventsUpTo
<1>2. /\ \A i \in 1..Len(msgs) : msgs[i].nonce # next
      /\ \A tx \in pending : \A i \in 1..Len(tx) : tx[i].nonce # next
      /\ pc = "down" \/ (pc \in Running /\ startBlockNumber >= coreHeight)
  BY DEF BlockSplit, Underway, LastEventNonce, LastEventBlockHeight
<1>3. ASSUME NEW tx \in pending PROVE ~DeliverLate(tx)
  <2>1. tx \in Seq(Msgs)
    BY DEF TypeOK, CoreTypeOK
  <2> QED
    BY <1>2, <2>1, NothingExecutes DEF DeliverLate
<1>4. ASSUME Sending
      PROVE  /\ NextChunk \in Seq(Msgs)
             /\ \A i \in 1..Len(NextChunk) : NextChunk[i].nonce # next
  <2>1. /\ NextChunk \in Seq(Msgs) /\ Len(NextChunk) = ChunkEnd - endIndex
        /\ ChunkEnd \in endIndex + 1..Len(msgs)
        /\ \A i \in 1..Len(NextChunk) : NextChunk[i] = msgs[endIndex + i]
    BY <1>4, NextChunkType DEF Sending, TypeOK
  <2>2. endIndex \in Nat /\ Len(msgs) \in Nat
    BY LenProperties DEF TypeOK, OracleTypeOK
  <2>3. ASSUME NEW i \in 1..Len(NextChunk) PROVE NextChunk[i].nonce # next
    <3>1. endIndex + i \in 1..Len(msgs)
      BY <2>1, <2>2
    <3> QED
      BY <1>2, <2>1, <3>1
  <2> QED
    BY <2>1, <2>3
<1>5. ~SendOk
  BY <1>2, <1>4, NothingExecutes DEF SendOk
<1>6. /\ claimed' = claimed /\ coreHeight' = coreHeight
      /\ \/ pending' \subseteq pending
         \/ Sending /\ pending' = pending \cup {NextChunk}
  BY <1>3, <1>5
     DEF Next, Tick, Start, Crash, Environment, CoreNext, CheckOracle, ReadNonce, NothingNew,
         ReadHead, QueryBlock, SendUnanswered, CallFails, Advance, Boot, BootFresh, ScanHead,
         ScanDown, ScanFound, ScanExhausted, DropLate, SetOnline, vars, coreVars
<1>7. events' = events \/ ChainNext
  BY DEF Next, Tick, Start, Crash, Environment, CheckOracle, ReadNonce, NothingNew,
         ReadHead, QueryBlock, SendOk, SendUnanswered, CallFails, Advance, Boot, BootFresh,
         ScanHead, ScanDown, ScanFound, ScanExhausted, vars, chainVars
<1>8. next \in 1..Len(events') /\ events'[next] = events[next]
  BY <1>1, <1>7, SettledStays DEF SettledEvents, EventsUpTo
<1>9. pc' = "down" \/ (pc' \in Running /\ startBlockNumber' >= coreHeight)
  <2>1. startBlockNumber \in Nat /\ blockNumber \in Nat
    BY DEF TypeOK, OracleTypeOK
  <2>2. ASSUME NEW flag \in StartFlags
        PROVE  /\ LastBlockNumber(flag) \in Nat /\ LastBlockNumber(flag) >= coreHeight
               /\ CachedStart(LastBlockNumber(flag)) >= coreHeight
    <3>1. /\ FlaggedStart(flag) \in Nat /\ cacheFile \in Nat /\ TronRestartDelayBlock \in Nat
      BY OracleAssumption DEF FlaggedStart, TypeOK, OracleTypeOK
    <3>2. LastBlockNumber(flag) \in Nat /\ LastBlockNumber(flag) >= coreHeight
      BY <1>1, <3>1 DEF LastBlockNumber, LastEventBlockHeight, Larger
    <3> QED
      BY <1>1, <3>1, <3>2 DEF CachedStart, Larger
  <2>3. CASE Start
    <3>1. pc = "down" /\ ~(\E flag \in StartFlags : BootFresh(flag))
      BY <1>1, <1>2, <2>2, <2>3 DEF Start, Boot, BootFresh, ScanHead, ScanDown, ScanFound,
         ScanExhausted, Running, Ticking
    <3>2. PICK flag \in StartFlags : Boot(flag)
      BY <2>3, <3>1 DEF Start, ScanHead, ScanDown, ScanFound, ScanExhausted
    <3> QED
      BY <2>2, <3>2 DEF Boot, Running
  <2>4. CASE Advance
    <3>1. pc = "send" /\ startBlockNumber <= blockNumber
      BY <2>4 DEF Advance, TickInv, BlocksRead
    <3> QED
      BY <1>1, <1>2, <2>1, <2>4, <3>1 DEF Advance, Running, Ticking
  <2>5. CASE CheckOracle \/ ReadNonce \/ NothingNew \/ ReadHead \/ QueryBlock \/ SendUnanswered
               \/ CallFails
    BY <1>2, <2>5 DEF CheckOracle, ReadNonce, NothingNew, ReadHead, QueryBlock, SendUnanswered,
                      CallFails, Sending, Running, Ticking
  <2>6. CASE Crash
    BY <2>6 DEF Crash
  <2>7. CASE UNCHANGED daemonVars
    BY <1>2, <2>7 DEF daemonVars
  <2> QED
    BY <1>5, <2>3, <2>4, <2>5, <2>6, <2>7 DEF Next, Tick, Environment, vars
<1>10. ASSUME NEW i \in 1..Len(msgs') PROVE msgs'[i].nonce # next
  <2> SUFFICES ASSUME msgs'[i].nonce = next PROVE FALSE
    OBVIOUS
  <2>1. pc' \in {"query", "send"} /\ startBlockNumber' < msgs'[i].height
    BY DEF MsgsInv, MsgsFresh
  <2>2. msgs'[i].height = events'[next].height
    <3>1. (\A k \in 1..Len(msgs) : Genuine(msgs[k]))'
      BY <2>1 DEF TickInv
    <3>2. msgs'[i] = [nonce |-> next, height |-> events'[next].height, kind |-> events'[next].kind]
      BY <3>1 DEF Genuine, ToMsg
    <3> QED
      BY <3>2
  <2>3. startBlockNumber' \in Nat
    BY DEF TypeOK, OracleTypeOK
  <2> QED
    BY <1>1, <1>8, <1>9, <2>1, <2>2, <2>3
<1>11. ASSUME NEW tx \in pending', NEW i \in 1..Len(tx) PROVE tx[i].nonce # next
  BY <1>2, <1>4, <1>6
<1> QED
  BY <1>1, <1>6, <1>8, <1>9, <1>10, <1>11
     DEF BlockSplit, Underway, LastEventNonce, LastEventBlockHeight, EventsUpTo

\* A block that was claimed in part when the daemon went down stops the relay
\* for good: no tick, no restart and no start block claims the rest of it, or
\* anything else.
THEOREM SplitIsForGood == Spec => SplitForGood
<1> DEFINE Stays == BlockSplit => BlockSplit' /\ UNCHANGED claimed
<1>1. IndInv /\ IndInv' /\ MsgsInv' /\ [Next]_vars => [Stays]_vars
  BY SplitKept
<1>2. Spec => [][Stays]_vars
  BY <1>1, MsgsAlways, Inductive, PTL DEF Spec
<1> QED
  BY <1>2 DEF SplitForGood

-----------------------------------------------------------------------------
(* The relay implements EventRelay.                                        *)

\* The numbers up to n are n numbers.
LEMMA SegmentCardinality ==
  ASSUME NEW n \in Nat
  PROVE  IsFiniteSet(1..n) /\ Cardinality(1..n) = n
BY FS_Interval

\* The settled events are an initial part of the history.
LEMMA SettledIsPrefix ==
  ASSUME TypeOK, HistoryInv
  PROVE  /\ Cardinality(SettledEvents) \in 0..Len(events)
         /\ SettledEvents = 1..Cardinality(SettledEvents)
<1> USE HistoryType
<1> DEFINE k == Cardinality(SettledEvents)
<1>1. SettledEvents \subseteq 1..Len(events) /\ IsFiniteSet(1..Len(events))
      /\ Cardinality(1..Len(events)) = Len(events)
  <2>1. Len(events) \in Nat
    OBVIOUS
  <2> QED
    BY <2>1, SegmentCardinality DEF SettledEvents, EventsUpTo
<1>2. IsFiniteSet(SettledEvents) /\ k <= Len(events)
  BY <1>1, FS_Subset
<1>3. k \in Nat
  BY <1>2, FS_CardinalityType
<1>4. ASSUME NEW n \in SettledEvents
      PROVE  n \in 1..k
  <2>1. n \in 1..Len(events) /\ events[n].height <= settled /\ settled \in Nat
    BY DEF SettledEvents, EventsUpTo, TypeOK, ChainTypeOK
  <2>2. 1..n \subseteq SettledEvents
    <3> SUFFICES ASSUME NEW m \in 1..n PROVE m \in SettledEvents
      OBVIOUS
    <3>1. m \in 1..Len(events) /\ events[m].height <= events[n].height
      BY <2>1 DEF HistoryInv, Ordered
    <3> QED
      BY <2>1, <3>1 DEF SettledEvents, EventsUpTo
  <2>3. IsFiniteSet(1..n) /\ Cardinality(1..n) = n
    BY <2>1, SegmentCardinality
  <2>4. Cardinality(1..n) <= k
    BY <1>2, <2>2, FS_Subset
  <2> QED
    BY <1>3, <2>1, <2>3, <2>4
<1>5. IsFiniteSet(1..k) /\ Cardinality(1..k) = k
  BY <1>3, SegmentCardinality
<1>6. SettledEvents = 1..k
  BY <1>4, <1>5, FS_Subset
<1> QED
  BY <1>2, <1>3, <1>6

\* What the mapping makes of a state.
MappedState ==
  /\ SettledEvents = 1..Cardinality(SettledEvents)
  /\ Cardinality(SettledEvents) \in Nat
  /\ SettledHistory \in Seq(Events)
  /\ Len(SettledHistory) = Cardinality(SettledEvents)
  /\ \A n \in 1..Len(SettledHistory) : SettledHistory[n] = events[n]
  /\ Len(claimed) \in Nat /\ Len(claimed) <= Len(SettledHistory)
  /\ claimed = SubSeq(SettledHistory, 1, Len(claimed))

\* In a state of the invariant the relay maps to a state of EventRelay.
LEMMA Mapped == IndInv => MappedState
<1> SUFFICES ASSUME IndInv PROVE MappedState
  OBVIOUS
<1> USE HistoryType DEF IndInv
<1> DEFINE k == Cardinality(SettledEvents)
<1>1. k \in 0..Len(events) /\ SettledEvents = 1..k
  BY SettledIsPrefix
<1>2. /\ SettledHistory \in Seq(Events) /\ Len(SettledHistory) = k
      /\ \A n \in 1..k : SettledHistory[n] = events[n]
  BY <1>1, PartOfSeq DEF SettledHistory, TypeOK, ChainTypeOK
<1>3. Len(claimed) <= k
  <2>1. CASE Len(claimed) = 0
    BY <1>1, <2>1
  <2>2. CASE Len(claimed) # 0
    <3>1. Len(claimed) \in 1..k
      BY <1>1, <2>2 DEF CoreInv, ClaimsAreSettled
    <3> QED
      BY <3>1
  <2> QED
    BY <2>1, <2>2
<1>4. /\ SubSeq(SettledHistory, 1, Len(claimed)) \in Seq(Events)
      /\ Len(SubSeq(SettledHistory, 1, Len(claimed))) = Len(claimed)
      /\ \A n \in 1..Len(claimed) : SubSeq(SettledHistory, 1, Len(claimed))[n] = events[n]
  BY <1>1, <1>2, <1>3, PartOfSeq
<1>5. claimed \in Seq(Events)
  BY OracleAssumption DEF TypeOK, CoreTypeOK, Claims, Events
<1>6. claimed = SubSeq(SettledHistory, 1, Len(claimed))
  BY <1>4, <1>5, SeqEqual DEF CoreInv, ClaimsAreSettled
<1> QED
  BY <1>1, <1>2, <1>3, <1>6 DEF MappedState

\* The same of the next state, for the steps of the refinement.
LEMMA MappedNext == IndInv' => MappedState'
BY Mapped, PTL

\* Settling is the only thing that the Tron chain does to the mapped state.
LEMMA ChainMapsToSettle ==
  ASSUME IndInv, IndInv', ChainNext, UNCHANGED <<coreVars, daemonVars>>
  PROVE  [Abstract!Next]_<<SettledHistory, claimed>>
<1> DEFINE k == Cardinality(SettledEvents)
<1>1. claimed' = claimed
  BY DEF coreVars
<1>2. /\ SettledEvents = 1..k /\ SettledEvents' = 1..k' /\ k \in Nat /\ k' \in Nat
  BY Mapped, MappedNext DEF MappedState
<1>3. \A n \in SettledEvents : n \in SettledEvents' /\ events'[n] = events[n]
  BY SettledStays DEF IndInv
<1>4. k <= k'
  <2>1. CASE k = 0
    BY <1>2, <2>1
  <2>2. CASE k # 0
    <3> HIDE DEF k
    <3>1. k \in SettledEvents
      BY <1>2, <2>2
    <3>2. k \in SettledEvents'
      BY <1>3, <3>1
    <3> QED
      BY <1>2, <3>2
  <2> QED
    BY <2>1, <2>2
<1>5. /\ SettledHistory \in Seq(Events) /\ Len(SettledHistory) = k
      /\ \A n \in 1..k : SettledHistory[n] = events[n]
      /\ SettledHistory' \in Seq(Events) /\ Len(SettledHistory') = k'
      /\ \A n \in 1..k' : SettledHistory'[n] = events'[n]
  BY Mapped, MappedNext DEF MappedState
<1>6. SettledHistory = SubSeq(SettledHistory', 1, k)
  <2>1. /\ SubSeq(SettledHistory', 1, k) \in Seq(Events)
        /\ Len(SubSeq(SettledHistory', 1, k)) = k
        /\ \A n \in 1..k : SubSeq(SettledHistory', 1, k)[n] = SettledHistory'[n]
    BY <1>2, <1>4, <1>5, PartOfSeq
  <2> QED
    BY <1>2, <1>3, <1>4, <1>5, <2>1, SeqEqual
<1>7. CASE k < k'
  BY <1>1, <1>5, <1>6, <1>7 DEF Abstract!Next, Abstract!Settle
<1>8. CASE k = k'
  <2>1. SubSeq(SettledHistory', 1, k) = SettledHistory'
    BY <1>5, <1>8, SubSeqFull
  <2> QED
    BY <1>1, <1>6, <2>1
<1> QED
  BY <1>2, <1>4, <1>7, <1>8

\* Executing a genuine transaction relays the next few events.
LEMMA ExecuteMapsToRelay ==
  ASSUME IndInv, IndInv', UNCHANGED chainVars, NEW tx \in Seq(Msgs), Execute(tx),
         Len(tx) <= BatchSendMsgCount
  PROVE  Abstract!Relay
<1>1. SettledHistory' = SettledHistory
  BY DEF chainVars, SettledHistory, SettledEvents, EventsUpTo
<1>2. Len(tx) \in 1..BatchSendMsgCount /\ Len(claimed') = Len(claimed) + Len(tx)
  BY ExecuteType, OracleAssumption DEF IndInv, TypeOK
<1>3. claimed' = SubSeq(SettledHistory, 1, Len(claimed')) /\ Len(claimed') <= Len(SettledHistory)
  BY <1>1, MappedNext DEF MappedState
<1> QED
  BY <1>1, <1>2, <1>3 DEF Abstract!Relay

\* The relay, with its blocks, chunks, crashes and retries, is an EventRelay
\* over the settled history: claims are only ever added, in order, at most
\* BatchSendMsgCount at a time.
THEOREM Refinement == Spec => ImplementsEventRelay
<1>1. Init => Abstract!Init
  BY InitInv, Mapped DEF MappedState, Abstract!Init
<1>2. ASSUME IndInv, IndInv', [Next]_vars
      PROVE  [Abstract!Next]_<<SettledHistory, claimed>>
  <2>1. CASE ChainNext /\ UNCHANGED <<coreVars, daemonVars>>
    BY <1>2, <2>1, ChainMapsToSettle
  <2>2. CASE CoreNext /\ UNCHANGED <<chainVars, daemonVars>>
    <3>1. ASSUME NEW tx \in pending, DeliverLate(tx)
          PROVE  Abstract!Relay
      <4>1. tx \in Seq(Msgs) /\ Len(tx) <= BatchSendMsgCount
        BY <1>2 DEF IndInv, TypeOK, CoreTypeOK, CoreInv
      <4> QED
        BY <1>2, <2>2, <3>1, <4>1, ExecuteMapsToRelay DEF DeliverLate
    <3>2. CASE claimed' = claimed
      BY <2>2, <3>2 DEF chainVars, SettledHistory, SettledEvents, EventsUpTo
    <3> QED
      BY <2>2, <3>1, <3>2 DEF CoreNext, DropLate, SetOnline, Abstract!Next
  <2>3. CASE SendOk
    <3>1. NextChunk \in Seq(Msgs) /\ Len(NextChunk) <= BatchSendMsgCount
      BY <1>2, <2>3, NextChunkType DEF SendOk, Sending, IndInv, TypeOK, OracleTypeOK
    <3> QED
      BY <1>2, <2>3, <3>1, ExecuteMapsToRelay DEF SendOk, Abstract!Next
  <2>4. CASE UNCHANGED <<chainVars, claimed>>
    BY <2>4 DEF chainVars, SettledHistory, SettledEvents, EventsUpTo
  <2> QED
    BY <1>2, <2>1, <2>2, <2>3, <2>4
       DEF Next, Tick, Start, Crash, Environment, CheckOracle, ReadNonce, NothingNew, ReadHead,
           QueryBlock, SendUnanswered, CallFails, Advance, Boot, BootFresh, ScanHead, ScanDown,
           ScanFound, ScanExhausted, vars, coreVars
<1>3. Spec => Abstract!Init /\ [][Abstract!Next]_<<SettledHistory, claimed>>
  BY <1>1, <1>2, Inductive, PTL DEF Spec
<1> QED
  BY <1>3 DEF ImplementsEventRelay, Abstract!Spec

=============================================================================
