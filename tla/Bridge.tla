------------------------------- MODULE Bridge -------------------------------
(***************************************************************************)
(* The daemon as a whole (bridge/scheduler.go): Run builds the event relay *)
(* and then the signer, and on every tick of one goroutine it lets first   *)
(* the relay and then the signer do their work, whatever came of it.  Both *)
(* read the same oracle record on f(x)Core, and a panic of the signer ends *)
(* the relay as well.  Modules Oracle and Singer hold the two parts.       *)
(***************************************************************************)
EXTENDS Oracle, Singer

\* Who has the goroutine: "start" (NewOracle), "signer" (NewSinger), "relay", "sign".
VARIABLE turn

\* What each part has to itself: all but the status flag of the oracle record.
relayOnly == <<chainVars, claimed, coreHeight, pending, daemonVars>>
signerOnly == <<live, lastNonce, confirmed, gravityId, registered, unanswered, signerVars>>
bridgeVars == <<relayOnly, signerOnly, online, turn>>

BridgeTypeOK == TypeOK /\ SigningTypeOK /\ turn \in {"start", "signer", "relay", "sign"}

BridgeInit == Init /\ SigningInit /\ turn = "start"

\* NewOracle; it may end the process, which is then started again.
StartRelay ==
  /\ turn = "start"
  /\ Start
  /\ turn' = IF pc' = "idle" THEN "signer" ELSE "start"
  /\ UNCHANGED signerOnly

\* NewSinger.
\* Mutant: Params is not asked.
StartSignerBlind ==
  /\ turn = "signer"
  /\ at' = "idle" /\ turn' = "relay"
  /\ UNCHANGED <<relayOnly, online, live, lastNonce, confirmed, gravityId, registered, unanswered,
                 cachedId, confirms, sent>>
StartSigner ==
  /\ turn = "signer"
  /\ NewSinger
  /\ turn' = "relay"
  /\ UNCHANGED relayOnly

\* Whose turn it is after a step of the relay, and after one of the signer.
\* Mutants: the loop goes on only after a success; or while the relay is at work.
TurnWithoutWaiting == "sign"
TurnAfterGoodRelay ==
  IF pc' = "idle" /\ startBlockNumber' > startBlockNumber THEN "sign" ELSE "relay"
TurnAfterRelay == IF pc' = "idle" THEN "sign" ELSE "relay"
TurnAfterGoodSign ==
  IF at' = "idle" /\ confirmed' # confirmed THEN "relay" ELSE "sign"
TurnAfterSign == IF at' = "idle" THEN "relay" ELSE "sign"

\* A step of bridgeEvent.
RelayTick ==
  /\ turn = "relay"
  /\ Tick
  /\ turn' = TurnAfterRelay
  /\ UNCHANGED signerOnly

\* bridgeEvent returns at once: GetOracleByBridgerAddr fails or says no.
\* Mutant: a tick is given up in the middle, and what it read is kept.
RelayGivesUp ==
  /\ turn = "relay"
  /\ pc' = "idle" /\ turn' = "sign"
  /\ UNCHANGED <<chainVars, claimed, coreHeight, pending, startBlockNumber, lastEventNonce,
                 blockNumber, limit, batchBlockNumber, msgs, endIndex, cacheFile, imposed>>
  /\ UNCHANGED <<signerOnly, online>>
RelaySkips ==
  /\ turn = "relay" /\ pc = "idle"
  /\ turn' = "sign"
  /\ UNCHANGED <<relayOnly, signerOnly, online>>

\* A step of confirm.
SignTick ==
  /\ turn = "sign"
  /\ Confirm
  /\ turn' = TurnAfterSign
  /\ UNCHANGED relayOnly

\* confirm returns at once, likewise.
SignSkips ==
  /\ turn = "sign" /\ at = "idle"
  /\ turn' = "relay"
  /\ UNCHANGED <<relayOnly, signerOnly, online>>

\* confirm panics: nothing recovers, so the relay goes down too.
ConfirmPanics ==
  /\ turn = "sign"
  /\ SignerPanic /\ Crash
  /\ turn' = "start"

\* The process dies.
ProcessDies ==
  /\ Crash
  /\ SignerCrash \/ (at = "down" /\ UNCHANGED signerOnly)
  /\ turn' = "start"

\* The chains.
ChainsMove ==
  /\ \/ ChainNext /\ UNCHANGED <<claimed, coreHeight, pending, daemonVars, signerOnly, online>>
     \/ /\ \E tx \in pending : DeliverLate(tx) \/ DropLate(tx)
        /\ UNCHANGED <<chainVars, daemonVars, signerOnly>>
     \/ RequestsNext /\ UNCHANGED <<relayOnly, signerVars>>
  /\ UNCHANGED turn

BridgeNext == \/ StartRelay \/ StartSigner
              \/ RelayTick \/ RelaySkips \/ SignTick \/ SignSkips
              \/ ConfirmPanics \/ ProcessDies \/ ChainsMove

BridgeSpec == BridgeInit /\ [][BridgeNext]_bridgeVars

\* Every call returns at some time, with an answer or an error.
LoopFairness == WF_bridgeVars(RelayTick \/ RelaySkips) /\ WF_bridgeVars(SignTick \/ SignSkips)

\* The calls that the batches need do not fail for ever; nothing is assumed
\* of the calls of the relay, nor of those for the oracle sets.
SigningFairness ==
  /\ SF_bridgeVars(SignTick /\ CheckStatus)
  /\ SF_bridgeVars(SignTick /\ SignBatch)
  /\ SF_bridgeVars(SignTick /\ at = "sendBatch" /\ SendConfirms)

\* The same for the relay; nothing is assumed of the calls of the signer.
RelayFairness ==
  /\ SF_bridgeVars(RelayTick /\ CheckOracle)
  /\ SF_bridgeVars(RelayTick /\ ReadNonce)
  /\ SF_bridgeVars(RelayTick /\ (NothingNew \/ ReadHead))
  /\ \A b \in 0..MaxHead : SF_bridgeVars(RelayTick /\ QueryBlock /\ blockNumber = b)
  /\ SF_bridgeVars(RelayTick /\ SendOk)
  /\ WF_bridgeVars(RelayTick /\ Advance)

BridgeFairSpec == BridgeSpec /\ LoopFairness

-----------------------------------------------------------------------------
\* The daemon is an event relay: each step of it is a step of module Oracle
\* or leaves the relay alone, so what holds of the relay holds here, though
\* signing, the shared oracle record and the panic come in between.
ImplementsOracle == Spec

\* And it is a signer in the sense of module Singer.
ImplementsSinger == SigningSpec

\* Both parts sign for one account on f(x)Core, whose transactions are numbered
\* (BuildTx), and a panic of one ends the other.  Yet never do both have messages
\* to send, and whenever the signer is called, panics or works, the relay is not
\* in the middle of a tick and holds nothing that it has not sent.
HalvesAlternate ==
  /\ msgs = <<>> \/ confirms = <<>>
  /\ pc \in Ticking => at = "idle"
  /\ at \notin {"down", "idle"} \/ turn = "sign" => pc = "idle" /\ msgs = <<>>

\* The inductive form of it: what each part is at while the other one has its
\* turn, and that messages are held only while they are collected or sent.
TurnInv ==
  /\ turn = "start"  => pc \in Starting \cup {"down"} /\ at = "down"
  /\ turn = "signer" => pc = "idle" /\ at = "down"
  /\ turn = "relay"  => pc \in Running /\ at = "idle"
  /\ turn = "sign"   => pc = "idle" /\ at # "down"
  /\ pc \in {"query", "send"} \/ msgs = <<>>
  /\ SendingConfirms \/ confirms = <<>>

\* The relay never keeps the signer from its work: even if every call of the
\* relay fails, each batch is confirmed or gone eventually.
SigningNotHeldBack ==
  SigningFairness /\ <>[]Able => \A n \in 1..MaxNonce :
    LET r == [kind |-> "batch", nonce |-> n]
    IN  r \in live ~> r \in confirmed \/ r \notin live

\* Nor the signer the relay: even if every signature is refused, each settled
\* event is claimed eventually.
RelayNotHeldBack ==
  RelayFairness /\ <>[](at # "down" /\ Healthy /\ ~online) =>
    \A n \in 1..MaxEvents : n \in SettledEvents ~> n <= LastEventNonce
=============================================================================
