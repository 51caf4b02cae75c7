------------------------------ MODULE Startup -------------------------------
(***************************************************************************)
(* WaitNewBlock (bridge/fx_tron_bridge.go): before it relays or signs, the *)
(* process polls the heights of both chains until both have moved.  The    *)
(* Tron height is a uint64, and the loop subtracts the newer one from the  *)
(* older: the difference is positive only because it wraps around, and it  *)
(* is positive as well when a lagging node answers with an older block.    *)
(***************************************************************************)
EXTENDS Naturals

CONSTANTS U64, MaxHeight    \* MaxHeight is a bound on both chains

ASSUME StartupAssumption == U64 \in Nat /\ MaxHeight \in Nat \ {0} /\ MaxHeight < U64

VARIABLES
  tronHeight, fxHeight,     \* the chains
  at,                       \* where WaitNewBlock is
  lastTron, lastFx,         \* lastTronBlockNumber, lastFxBlockNumber
  tronBlockNumber,          \* as read in this round
  tronAnswers, fxAnswers    \* history: the heights read so far

heights == <<tronHeight, fxHeight>>
history == <<tronAnswers, fxAnswers>>
local == <<at, lastTron, lastFx, tronBlockNumber, history>>
waitVars == <<heights, local>>

WaitTypeOK ==
  /\ tronHeight \in 0..MaxHeight /\ fxHeight \in 0..MaxHeight
  /\ at \in {"tron", "fx", "ready", "failed"}
  /\ lastTron \in 0..MaxHeight /\ lastFx \in 0..MaxHeight
  /\ tronBlockNumber \in 0..MaxHeight
  /\ tronAnswers \subseteq 0..MaxHeight /\ fxAnswers \subseteq 0..MaxHeight

\* Either chain may be about to produce its first block.
WaitInit ==
  /\ tronHeight \in 0..1 /\ fxHeight \in 0..1
  /\ tronAnswers = {} /\ fxAnswers = {}
  /\ at = "tron" /\ lastTron = 0 /\ lastFx = 0 /\ tronBlockNumber = 0

\* The locals as they are when WaitNewBlock is called.
WaitAgain ==
  /\ tronAnswers' = {} /\ fxAnswers' = {}
  /\ at' = "tron" /\ lastTron' = 0 /\ lastFx' = 0 /\ tronBlockNumber' = 0

\* lastTronBlockNumber - tronBlockNumber > 0, on uint64.
\* Mutants: on signed integers; a height that has not changed will do.
MovedSigned(last, now) == last > now
MovedOrEqual(last, now) == TRUE
MovedTron(last, now) == (IF now <= last THEN last - now ELSE last + U64 - now) > 0

\* fxBlock.Header.Height - lastFxBlockNumber > 0, on int64.
MovedFx(last, now) == now > last

\* The first height that is not zero is the one to compare with.
\* Mutant: the one after it.
NotedNext(last, now) == IF last <= 0 /\ now > 0 THEN now + 1 ELSE last
Noted(last, now) == IF last <= 0 /\ now > 0 THEN now ELSE last

\* The heights that a node of either chain may give: it may be a block behind.
BlockNumber == {h \in 0..tronHeight : h + 1 >= tronHeight}
GetLatestBlock == {h \in 0..fxHeight : h + 1 >= fxHeight}

ReadTron ==
  /\ at = "tron"
  /\ at' = "fx"
  /\ \E answer \in BlockNumber :
       /\ tronBlockNumber' = answer
       /\ lastTron' = Noted(lastTron, answer)
       /\ tronAnswers' = tronAnswers \cup {answer}
  /\ UNCHANGED <<heights, lastFx, fxAnswers>>

\* The query, the test, and the sleep before the next round.
ReadFx ==
  /\ at = "fx"
  /\ \E answer \in GetLatestBlock :
       /\ lastFx' = Noted(lastFx, answer)
       /\ fxAnswers' = fxAnswers \cup {answer}
       /\ at' = IF MovedFx(lastFx', answer) /\ MovedTron(lastTron, tronBlockNumber)
                THEN "ready" ELSE "tron"
  /\ UNCHANGED <<heights, lastTron, tronBlockNumber, tronAnswers>>

\* Either call fails: the process exits.
ReadFails ==
  /\ at \in {"tron", "fx"}
  /\ at' = "failed"
  /\ UNCHANGED <<heights, lastTron, lastFx, tronBlockNumber, history>>

NewBlocks ==
  /\ \/ tronHeight < MaxHeight /\ tronHeight' = tronHeight + 1 /\ UNCHANGED fxHeight
     \/ fxHeight < MaxHeight /\ fxHeight' = fxHeight + 1 /\ UNCHANGED tronHeight
  /\ UNCHANGED local

\* The bridge is started only after the node of either chain has given two
\* heights, none of them zero: f(x)Core a higher one after the first, the Tron
\* node one that is not the first.  (That one may be lower, since the node may
\* lag, and so may the heights by the time that the bridge asks again.)
ReadyAfterProgress ==
  at = "ready" => /\ \E a, b \in fxAnswers : 0 < a /\ a < b
                  /\ \E a, b \in tronAnswers : 0 < a /\ a # b
=============================================================================
