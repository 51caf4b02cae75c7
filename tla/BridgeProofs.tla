---------------------------- MODULE BridgeProofs ----------------------------
(***************************************************************************)
(* Proofs about the daemon as a whole, for every value of the constants:   *)
(* it implements its two parts, so that modules Oracle and Singer can be   *)
(* read, and proved about, one without the other; what is proved of them   *)
(* holds of the daemon; and the two never get in each other's way.         *)
(***************************************************************************)
EXTENDS Bridge, OracleProofs, SingerProofs

\* The relay's variables are those it has to itself and the shared flag.
LEMMA RelayVars == UNCHANGED <<relayOnly, online>> => UNCHANGED vars
BY DEF relayOnly, vars, coreVars

\* The signer's, likewise.
LEMMA SignerVars == UNCHANGED <<signerOnly, online>> => UNCHANGED signingVars
BY DEF signerOnly, signingVars, requestVars

\* Every step of the daemon is one of the relay or leaves it alone.
LEMMA RelayStep == [BridgeNext]_bridgeVars => [Next]_vars
<1> SUFFICES ASSUME [BridgeNext]_bridgeVars PROVE Next \/ UNCHANGED vars
  OBVIOUS
<1>1. CASE StartRelay
  BY <1>1 DEF StartRelay, Next
<1>2. CASE StartSigner \/ SignTick
  <2>1. UNCHANGED <<relayOnly, online>>
    BY <1>2 DEF StartSigner, SignTick, NewSinger, Confirm, CheckStatus, SignOracleSets,
                SignBatch, SendConfirms, ConfirmUnanswered, ConfirmFails, requestVars
  <2> QED
    BY <2>1, RelayVars
<1>3. CASE RelayTick
  BY <1>3 DEF RelayTick, Next
<1>4. CASE RelaySkips \/ SignSkips
  BY <1>4, RelayVars DEF RelaySkips, SignSkips
<1>5. CASE ConfirmPanics \/ ProcessDies
  BY <1>5 DEF ConfirmPanics, ProcessDies, Next
<1>6. CASE ChainsMove
  <2>1. CASE ChainNext /\ UNCHANGED <<claimed, coreHeight, pending, daemonVars, signerOnly, online>>
    BY <2>1 DEF Next, Environment, coreVars
  <2>2. CASE /\ \E tx \in pending : DeliverLate(tx) \/ DropLate(tx)
             /\ UNCHANGED <<chainVars, daemonVars, signerOnly>>
    BY <2>2 DEF Next, Environment, CoreNext
  <2>3. CASE RequestsNext /\ UNCHANGED <<relayOnly, signerVars>>
    <3>1. OracleChanges \/ UNCHANGED online
      BY <2>3 DEF RequestsNext, NewRequest, RequestGone, ParamsChange, LateConfirm, LostConfirm
    <3>2. CASE UNCHANGED online
      BY <2>3, <3>2, RelayVars
    <3>3. CASE OracleChanges
      <4>1. CASE online' = ~online
        BY <2>3, <4>1 DEF Next, Environment, CoreNext, SetOnline, relayOnly
      <4>2. CASE UNCHANGED online
        BY <2>3, <4>2, RelayVars
      <4> QED
        BY <3>3, <4>1, <4>2 DEF OracleChanges
    <3> QED
      BY <3>1, <3>2, <3>3
  <2> QED
    BY <1>6, <2>1, <2>2, <2>3 DEF ChainsMove
<1>7. CASE UNCHANGED bridgeVars
  BY <1>7, RelayVars DEF bridgeVars
<1> QED
  BY <1>1, <1>2, <1>3, <1>4, <1>5, <1>6, <1>7 DEF BridgeNext

\* And one of the signer or leaves that alone.
LEMMA SignerStep == [BridgeNext]_bridgeVars => [SigningNext]_signingVars
<1> SUFFICES ASSUME [BridgeNext]_bridgeVars PROVE SigningNext \/ UNCHANGED signingVars
  OBVIOUS
<1>1. CASE StartRelay
  <2>1. UNCHANGED <<signerOnly, online>>
    BY <1>1 DEF StartRelay, Start, Boot, BootFresh, ScanHead, ScanDown, ScanFound,
                ScanExhausted, coreVars
  <2> QED
    BY <2>1, SignerVars
<1>2. CASE StartSigner \/ SignTick \/ ConfirmPanics
  BY <1>2 DEF StartSigner, SignTick, ConfirmPanics, SigningNext
<1>3. CASE RelayTick
  <2>1. UNCHANGED online
    BY <1>3 DEF RelayTick, Tick, CheckOracle, ReadNonce, NothingNew, ReadHead, QueryBlock,
                SendOk, SendUnanswered, CallFails, Advance, coreVars
  <2> QED
    BY <1>3, <2>1, SignerVars DEF RelayTick
<1>4. CASE RelaySkips \/ SignSkips
  BY <1>4, SignerVars DEF RelaySkips, SignSkips
<1>5. CASE ProcessDies
  <2>1. UNCHANGED online
    BY <1>5 DEF ProcessDies, Crash, coreVars
  <2>2. SignerCrash \/ UNCHANGED signerOnly
    BY <1>5 DEF ProcessDies
  <2> QED
    BY <2>1, <2>2, SignerVars DEF SigningNext
<1>6. CASE ChainsMove
  <2>1. CASE ChainNext /\ UNCHANGED <<claimed, coreHeight, pending, daemonVars, signerOnly, online>>
    BY <2>1, SignerVars
  <2>2. CASE /\ \E tx \in pending : DeliverLate(tx) \/ DropLate(tx)
             /\ UNCHANGED <<chainVars, daemonVars, signerOnly>>
    BY <2>2, SignerVars DEF DeliverLate, DropLate
  <2>3. CASE RequestsNext /\ UNCHANGED <<relayOnly, signerVars>>
    BY <2>3 DEF SigningNext
  <2> QED
    BY <1>6, <2>1, <2>2, <2>3 DEF ChainsMove
<1>7. CASE UNCHANGED bridgeVars
  BY <1>7, SignerVars DEF bridgeVars
<1> QED
  BY <1>1, <1>2, <1>3, <1>4, <1>5, <1>6, <1>7 DEF BridgeNext

\* The daemon is an event relay as module Oracle specifies it: signing, the
\* shared oracle record and the panic do not disturb it.
THEOREM RelayImplemented == BridgeSpec => ImplementsOracle
<1>1. BridgeInit => Init
  BY DEF BridgeInit
<1> QED
  BY <1>1, RelayStep, PTL DEF BridgeSpec, ImplementsOracle, Spec

\* And a signer as module Singer specifies it.
THEOREM SignerImplemented == BridgeSpec => ImplementsSinger
<1>1. BridgeInit => SigningInit
  BY DEF BridgeInit
<1> QED
  BY <1>1, SignerStep, PTL DEF BridgeSpec, ImplementsSinger, SigningSpec

-----------------------------------------------------------------------------
(* The two parts together.                                                 *)

\* The chains' steps leave the daemon where it is.
LEMMA ChainsKeepTurns ==
  ASSUME TurnInv, ChainsMove
  PROVE  TurnInv'
<1>1. UNCHANGED <<daemonVars, signerVars, turn>>
  BY DEF ChainsMove, relayOnly, signerOnly
<1> QED
  BY <1>1 DEF TurnInv, daemonVars, signerVars, SendingConfirms

\* Every step keeps what each part is at while the other one has its turn.
LEMMA TurnsKept ==
  ASSUME TurnInv, [BridgeNext]_bridgeVars
  PROVE  TurnInv'
<1> USE DEF TurnInv, SendingConfirms, Running, Ticking, Starting
<1>1. CASE StartRelay
  BY <1>1 DEF StartRelay, Start, Boot, BootFresh, ScanHead, ScanDown, ScanFound, ScanExhausted,
              DropLocals, signerOnly, signerVars
<1>2. CASE StartSigner
  BY <1>2 DEF StartSigner, NewSinger, relayOnly, daemonVars
<1>3. CASE RelayTick
  <2>1. UNCHANGED <<at, confirms>> /\ at = "idle" /\ turn' = IF pc' = "idle" THEN "sign" ELSE "relay"
    BY <1>3 DEF RelayTick, signerOnly, signerVars, TurnAfterRelay
  <2>2. pc' \in Running /\ (pc' \in {"query", "send"} \/ msgs' = <<>>)
    BY <1>3 DEF RelayTick, Tick, CheckOracle, ReadNonce, NothingNew, ReadHead, QueryBlock, SendOk,
                Sending, SendUnanswered, CallFails, Advance, DropLocals
  <2> QED
    BY <2>1, <2>2
<1>4. CASE RelaySkips \/ SignSkips
  BY <1>4 DEF RelaySkips, SignSkips, relayOnly, signerOnly, daemonVars, signerVars
<1>5. CASE SignTick
  <2>1. UNCHANGED <<pc, msgs>> /\ pc = "idle" /\ turn' = IF at' = "idle" THEN "relay" ELSE "sign"
    BY <1>5 DEF SignTick, relayOnly, daemonVars, TurnAfterSign
  <2>2. at' # "down" /\ (at' \in {"sendOracleSets", "sendBatch"} \/ confirms' = <<>>)
    BY <1>5 DEF SignTick, Confirm, CheckStatus, SignOracleSets, SignBatch, SendConfirms,
                ConfirmUnanswered, ConfirmFails, After, Forget
  <2> QED
    BY <2>1, <2>2
<1>6. CASE ConfirmPanics
  BY <1>6 DEF ConfirmPanics, SignerPanic, Crash, DropLocals
<1>7. CASE ProcessDies
  BY <1>7 DEF ProcessDies, SignerCrash, Crash, DropLocals, Forget, signerOnly, signerVars
<1>8. CASE ChainsMove
  BY <1>8, ChainsKeepTurns
<1>9. CASE UNCHANGED bridgeVars
  BY <1>9 DEF bridgeVars, relayOnly, signerOnly, daemonVars, signerVars
<1> QED
  BY <1>1, <1>2, <1>3, <1>4, <1>5, <1>6, <1>7, <1>8, <1>9 DEF BridgeNext

\* The goroutine is in one place, and so are the two parts.
THEOREM TurnsInductive == BridgeSpec => []TurnInv
<1>1. BridgeInit => TurnInv
  BY DEF BridgeInit, Init, OracleInit, SigningInit, SignerInit, TurnInv
<1>2. TurnInv /\ [BridgeNext]_bridgeVars => TurnInv'
  BY TurnsKept
<1> QED
  BY <1>1, <1>2, PTL DEF BridgeSpec

\* All the variables of the daemon keep their types.
THEOREM BridgeTypeCorrect == BridgeSpec => []BridgeTypeOK
<1>1. BridgeInit => turn \in {"start", "signer", "relay", "sign"}
  BY DEF BridgeInit
<1>2. turn \in {"start", "signer", "relay", "sign"} /\ [BridgeNext]_bridgeVars
        => (turn \in {"start", "signer", "relay", "sign"})'
  BY DEF BridgeNext, StartRelay, StartSigner, RelayTick, TurnAfterRelay, RelaySkips, SignTick,
         TurnAfterSign, SignSkips, ConfirmPanics, ProcessDies, ChainsMove, bridgeVars
<1>3. BridgeSpec => [](turn \in {"start", "signer", "relay", "sign"})
  BY <1>1, <1>2, PTL DEF BridgeSpec
<1>4. BridgeSpec => []TypeOK /\ []SigningTypeOK
  BY RelayImplemented, SignerImplemented, TypeCorrect, SigningTypeCorrect, PTL
     DEF ImplementsOracle, ImplementsSinger
<1> QED
  BY <1>3, <1>4, PTL DEF BridgeTypeOK

\* Never do both parts have messages to send for the one account, and the
\* signer, its panic included, never meets the relay in the middle of a tick.
THEOREM HalvesApart == BridgeSpec => []HalvesAlternate
<1>1. TurnInv /\ BridgeTypeOK => HalvesAlternate
  BY DEF TurnInv, BridgeTypeOK, HalvesAlternate, SendingConfirms, Running, Ticking, Starting
<1> QED
  BY <1>1, TurnsInductive, BridgeTypeCorrect, PTL

\* What is proved of the parts holds of the daemon: whatever the interleaving
\* of signing, relaying, panics and restarts, the claims are the settled
\* history and leave no gap, nothing but the block of the last claim and what
\* lies below an imposed start is skipped, and the oldest set is signed first.
THEOREM DaemonSafe ==
  BridgeSpec => [](/\ ClaimsAreSettled /\ ClaimsLeaveNoGap
                   /\ OnlySplitBlockSkipped /\ CacheIsBehindClaims
                   /\ RewindBounded /\ OldestSetFirst)
BY RelayImplemented, SignerImplemented, ClaimsSound, NoGap, LossBounded, CacheSafe, RewindSmall,
   OldestFirst, PTL DEF ImplementsOracle, ImplementsSinger

\* So does what is proved of their steps: no event is passed, what a split block
\* loses stays lost, the loop of a tick goes forward, and with a gravityId that
\* has changed nothing is confirmed.
THEOREM DaemonSteps ==
  BridgeSpec => AdvanceSkipsNothing /\ SplitForGood /\ [][LoopStep]_vars /\ ConfirmsAreCurrent
BY RelayImplemented, SignerImplemented, NothingPassed, SplitIsForGood, LoopAdvances,
   StaleIdConfirmsNothing, PTL DEF ImplementsOracle, ImplementsSinger

\* And the daemon implements both abstract specifications at once.
THEOREM DaemonRefines == BridgeSpec => ImplementsEventRelay /\ ImplementsSigningDuty
BY RelayImplemented, SignerImplemented, Refinement, DutyImplemented, PTL
   DEF ImplementsOracle, ImplementsSinger
=============================================================================
