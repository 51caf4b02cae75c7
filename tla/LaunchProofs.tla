---------------------------- MODULE LaunchProofs ----------------------------
(***************************************************************************)
(* Proofs about module Launch: Run begins, and the metrics server listens, *)
(* only after the nodes of both chains have given two heights, for every   *)
(* word size and every height.                                             *)
(***************************************************************************)
EXTENDS Launch, TLAPS

\* What the process has noted are heights that it has been given.
NotedInv ==
  /\ lastFx # 0 => lastFx \in fxAnswers
  /\ lastTron # 0 => lastTron \in tronAnswers
  /\ at = "fx" => /\ tronBlockNumber \in tronAnswers
                  /\ tronBlockNumber # 0 => lastTron # 0

WaitInv == WaitTypeOK /\ NotedInv /\ ReadyAfterProgress

\* The stages and the port.
StageInv ==
  /\ TypeOK
  /\ stage = "running" => at = "ready"
  /\ stage # "running" => server = "none"
  /\ port = "ours" <=> server = "listening"

IndInv == WaitInv /\ StageInv

USE DEF heights, history, local, waitVars, launchVars, vars, Ended

\* The wait at the beginning, where a chain may have no block yet.
LEMMA WaitInitInv == WaitInit => WaitInv
BY StartupAssumption DEF WaitInit, WaitInv, WaitTypeOK, NotedInv, ReadyAfterProgress

\* Every step of the wait, every new block, and a wait that begins anew keep
\* what is known of it.
LEMMA WaitKeepsInv ==
  ASSUME WaitInv,
         \/ ReadTron \/ ReadFx \/ ReadFails \/ NewBlocks
         \/ WaitAgain /\ UNCHANGED heights
         \/ UNCHANGED waitVars
  PROVE  WaitInv'
<1> USE StartupAssumption DEF WaitInv, WaitTypeOK, NotedInv, ReadyAfterProgress
<1>1. CASE ReadTron
  BY <1>1 DEF ReadTron, BlockNumber, Noted
<1>2. CASE ReadFx
  BY <1>2 DEF ReadFx, GetLatestBlock, Noted, MovedTron, MovedFx
<1>3. CASE ReadFails
  BY <1>3 DEF ReadFails
<1>4. CASE NewBlocks
  BY <1>4 DEF NewBlocks
<1>5. CASE WaitAgain /\ UNCHANGED heights
  BY <1>5 DEF WaitAgain
<1>6. CASE UNCHANGED waitVars
  BY <1>6
<1> QED
  BY <1>1, <1>2, <1>3, <1>4, <1>5, <1>6

\* Every step of the daemon is one of those for the wait.
LEMMA StepsOfTheWait ==
  ASSUME [Next]_vars
  PROVE  \/ ReadTron \/ ReadFx \/ ReadFails \/ NewBlocks
         \/ WaitAgain /\ UNCHANGED heights
         \/ UNCHANGED waitVars
BY DEF Next, InitLogger, RequiredFlags, ReadFxKey, ReadTronKey, ReadKey, LaunchFails, NewFxTronBridge,
       NewTronGrpcClient, NewCrossChainClient, Poll, PollFails, WaitFails,
       StartBridgePrometheus, ListenAndServe, PortTaken, RunEnds, Relaunch, Environment,
       OtherDaemon, EndAs

\* The process ends: the stages.
LEMMA EndKeepsInv ==
  ASSUME StageInv, WaitTypeOK', NEW how \in Ended, EndAs(how)
  PROVE  StageInv'
<1>1. stage' = how /\ server' = "none" /\ port' \in {"free", "other"}
  BY DEF EndAs, PortAfter, StageInv, TypeOK
<1> QED
  BY <1>1 DEF StageInv, TypeOK

\* Every step keeps what is known of the stages.
LEMMA StageKeepsInv ==
  ASSUME StageInv, WaitTypeOK', [Next]_vars
  PROVE  StageInv'
<1> USE DEF StageInv, TypeOK
<1>1. CASE InitLogger
  <2>1. CASE EndAs("panicked")
    BY <2>1, EndKeepsInv
  <2>2. CASE stage' = "flags" /\ UNCHANGED <<server, port, waitVars>>
    BY <1>1, <2>2 DEF InitLogger
  <2> QED
    BY <1>1, <2>1, <2>2 DEF InitLogger
<1>2. CASE RequiredFlags
  <2>1. CASE EndAs("exited")
    BY <2>1, EndKeepsInv
  <2>2. CASE stage' = "fxKey" /\ UNCHANGED <<server, port, waitVars>>
    BY <1>2, <2>2 DEF RequiredFlags
  <2> QED
    BY <1>2, <2>1, <2>2 DEF RequiredFlags
<1>3. CASE ReadFxKey
  <2>1. PICK m \in Material : ReadKey(DecryptFxPrivateKey(m), "tronKey")
    BY <1>3 DEF ReadFxKey
  <2>2. CASE EndAs("exited")
    BY <2>2, EndKeepsInv
  <2>3. CASE stage' = "tronKey" /\ UNCHANGED <<server, port, waitVars>>
    BY <1>3, <2>3 DEF ReadFxKey
  <2> QED
    BY <2>1, <2>2, <2>3 DEF ReadKey
<1>4. CASE ReadTronKey
  <2>1. PICK m \in Material : ReadKey(DecryptEthPrivateKey(m), "tronClient")
    BY <1>4 DEF ReadTronKey
  <2>2. CASE EndAs("exited")
    BY <2>2, EndKeepsInv
  <2>3. CASE stage' = "tronClient" /\ UNCHANGED <<server, port, waitVars>>
    BY <1>4, <2>3 DEF ReadTronKey
  <2> QED
    BY <2>1, <2>2, <2>3 DEF ReadKey
<1>5. CASE LaunchFails
  BY <1>5, EndKeepsInv DEF LaunchFails
<1>6. CASE NewTronGrpcClient
  BY <1>6 DEF NewTronGrpcClient
<1>7. CASE NewCrossChainClient
  BY <1>7 DEF NewCrossChainClient
<1>8. CASE Poll \/ PollFails
  BY <1>8 DEF Poll, PollFails
<1>9. CASE WaitFails
  BY <1>9, EndKeepsInv DEF WaitFails
<1>10. CASE StartBridgePrometheus
  BY <1>10 DEF StartBridgePrometheus
<1>11. CASE ListenAndServe
  BY <1>11 DEF ListenAndServe
<1>12. CASE PortTaken
  BY <1>12, EndKeepsInv DEF PortTaken
<1>13. CASE RunEnds
  BY <1>13, EndKeepsInv DEF RunEnds
<1>14. CASE Relaunch
  BY <1>14 DEF Relaunch
<1>15. CASE OtherDaemon
  BY <1>15 DEF OtherDaemon
<1>16. CASE NewBlocks /\ UNCHANGED launchVars
  BY <1>16 DEF NewBlocks
<1>17. CASE UNCHANGED vars
  BY <1>17
<1> QED
  BY <1>1, <1>2, <1>3, <1>4, <1>5, <1>6, <1>7, <1>8, <1>9, <1>10, <1>11, <1>12, <1>13,
     <1>14, <1>15, <1>16, <1>17 DEF Next, NewFxTronBridge, Environment

\* The inductive invariant holds.
THEOREM Inductive == Spec => []IndInv
<1>1. Init => IndInv
  <2> SUFFICES ASSUME Init PROVE IndInv
    OBVIOUS
  <2>1. WaitInv
    BY WaitInitInv DEF Init
  <2>2. StageInv
    BY <2>1 DEF Init, WaitInv, StageInv, TypeOK
  <2> QED
    BY <2>1, <2>2 DEF IndInv
<1>2. IndInv /\ [Next]_vars => IndInv'
  <2> SUFFICES ASSUME IndInv, [Next]_vars
               PROVE  IndInv'
    OBVIOUS
  <2>1. WaitInv'
    BY StepsOfTheWait, WaitKeepsInv DEF IndInv
  <2>2. StageInv'
    BY <2>1, StageKeepsInv DEF IndInv, WaitInv
  <2> QED
    BY <2>1, <2>2 DEF IndInv
<1> QED
  BY <1>1, <1>2, PTL DEF Spec

\* Run begins, and the server listens, only after the nodes of both chains
\* have each given two heights, whatever the width of the word in which the
\* Tron heights are subtracted, and however often the daemon was launched
\* before.
THEOREM RunSound == Spec => []RunsAfterProgress
<1>1. IndInv => RunsAfterProgress
  BY DEF IndInv, WaitInv, StageInv, TypeOK, RunsAfterProgress
<1> QED
  BY <1>1, Inductive, PTL

\* No height that the wait holds is above those that the chains can reach.
THEOREM TypeCorrect == Spec => []TypeOK
<1>1. IndInv => TypeOK
  BY DEF IndInv, StageInv
<1> QED
  BY <1>1, Inductive, PTL
=============================================================================
