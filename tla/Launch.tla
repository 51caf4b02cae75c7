------------------------------- MODULE Launch -------------------------------
(***************************************************************************)
(* The launch of the daemon (cmd/main.go): the flags and the logger, the   *)
(* two private keys (internal/utils/key.go), the clients, the wait for new *)
(* blocks (module Startup), the metrics server (prometheus.go), and Run.   *)
(* The server is a goroutine that listens on a fixed port and panics when  *)
(* it cannot: the daemon may be killed by another one on its host after    *)
(* Run has begun.  What Run does is module Bridge.                         *)
(***************************************************************************)
EXTENDS Startup

VARIABLES
  stage,        \* what main does next, or how the process has ended
  server,       \* the goroutine of StartBridgePrometheus
  port          \* who listens on :9811

launchVars == <<stage, server, port>>
vars == <<waitVars, launchVars>>

Ended == {"exited", "panicked"}

(***************************************************************************)
(* Keys.  A text that is the path of a file is one, whatever else it looks *)
(* like; 62, 64 are the hexadecimal digits that it has otherwise.          *)
(***************************************************************************)
Texts == {"file", "64", "0x62", "0x64", "other"}

\* The flags for one key: the password of its file, whether the password flag
\* is the path of a file, and the password in that file, or the flag itself.
Material == [text : Texts, locked : {"", "secret"}, pwdIsFile : BOOLEAN, pwd : {"", "secret"}]

\* What UnarmorDecryptPrivKey and DecryptKey are given for a password.
FxPassword(m) == IF m.pwdIsFile THEN m.pwd ELSE ""
TronPassword(m) == m.pwd

\* 64 characters, or 66 with 0x in front.
Length64or66(m) == m.text \in {"64", "0x62", "0x64"}

\* hexutil.Decode wants 0x, crypto.HexToECDSA wants 64 digits and no 0x; the
\* first takes a key of any length.
FxHex(m) == m.text \in {"0x62", "0x64"}
TronHex(m) == m.text = "64"

PathExists(m) == m.text = "file"

DecryptFxPrivateKey(m) ==
  IF PathExists(m) THEN FxPassword(m) = m.locked ELSE Length64or66(m) /\ FxHex(m)
DecryptEthPrivateKey(m) ==
  IF PathExists(m) THEN TronPassword(m) = m.locked ELSE Length64or66(m) /\ TronHex(m)

-----------------------------------------------------------------------------

TypeOK ==
  /\ WaitTypeOK
  /\ stage \in {"logger", "flags", "fxKey", "tronKey", "tronClient", "fxClient", "waiting", "running"} \cup Ended
  /\ server \in {"none", "starting", "listening"}
  /\ port \in {"free", "ours", "other"}

Init ==
  /\ WaitInit
  /\ stage = "logger" /\ server = "none" /\ port = "free"

\* The process ends, and with it the server and all locals.
PortAfter == IF port = "ours" THEN "free" ELSE port

EndAs(how) ==
  /\ stage' = how
  /\ server' = "none" /\ port' = PortAfter
  /\ WaitAgain /\ UNCHANGED heights

\* The level is one that zap knows, or the process panics.
InitLogger ==
  /\ stage = "logger"
  /\ \/ stage' = "flags" /\ UNCHANGED <<server, port, waitVars>>
     \/ EndAs("panicked")

\* No required flag is missing.
RequiredFlags ==
  /\ stage = "flags"
  /\ \/ stage' = "fxKey" /\ UNCHANGED <<server, port, waitVars>>
     \/ EndAs("exited")

\* The key that the flags give is taken, or the process exits with the error.
ReadKey(taken, next) ==
  \/ taken /\ stage' = next /\ UNCHANGED <<server, port, waitVars>>
  \/ ~taken /\ EndAs("exited")

ReadFxKey ==
  stage = "fxKey" /\ \E m \in Material : ReadKey(DecryptFxPrivateKey(m), "tronKey")

ReadTronKey ==
  stage = "tronKey" /\ \E m \in Material : ReadKey(DecryptEthPrivateKey(m), "tronClient")

\* The file of a key or of its password cannot be looked at, or is gone when
\* it is read; or a client cannot be made.
LaunchFails == stage \in {"fxKey", "tronKey", "tronClient", "fxClient"} /\ EndAs("exited")

\* A URL that can be parsed; the node need not be there.
NewTronGrpcClient ==
  /\ stage = "tronClient" /\ stage' = "fxClient"
  /\ UNCHANGED <<server, port, waitVars>>

\* With the second client the bridge has the keys, and WaitNewBlock is called.
NewCrossChainClient ==
  /\ stage = "fxClient" /\ stage' = "waiting"
  /\ WaitAgain
  /\ UNCHANGED <<heights, server, port>>

NewFxTronBridge == NewTronGrpcClient \/ NewCrossChainClient

Poll == stage = "waiting" /\ (ReadTron \/ ReadFx) /\ UNCHANGED launchVars

PollFails == stage = "waiting" /\ ReadFails /\ UNCHANGED launchVars

\* CheckErr exits with what WaitNewBlock has returned.
WaitFails == stage = "waiting" /\ at = "failed" /\ EndAs("exited")

\* The goroutine is started, and Run is called without waiting for it.
StartBridgePrometheus ==
  /\ stage = "waiting" /\ at = "ready"
  /\ stage' = "running" /\ server' = "starting"
  /\ UNCHANGED <<port, waitVars>>

ListenAndServe ==
  /\ server = "starting" /\ port = "free"
  /\ server' = "listening" /\ port' = "ours"
  /\ UNCHANGED <<stage, waitVars>>

\* Mutant: the error is not looked at.
PortTakenIgnored ==
  /\ server = "starting" /\ port = "other"
  /\ server' = "none"
  /\ UNCHANGED <<stage, port, waitVars>>
PortTaken ==
  /\ server = "starting" /\ port = "other"
  /\ EndAs("panicked")

\* Run returns an error, or the signer panics, or the process is killed.
RunEnds == stage = "running" /\ \E how \in Ended : EndAs(how)

\* The operator starts the daemon again.
Relaunch ==
  /\ stage \in Ended /\ stage' = "logger"
  /\ UNCHANGED <<server, port, waitVars>>

\* Another daemon on the host launches or ends.
OtherDaemon ==
  /\ \/ port = "free" /\ port' = "other"
     \/ port = "other" /\ port' = "free"
  /\ UNCHANGED <<stage, server, waitVars>>

Environment == OtherDaemon \/ (NewBlocks /\ UNCHANGED launchVars)

Next ==
  \/ InitLogger \/ RequiredFlags \/ ReadFxKey \/ ReadTronKey \/ LaunchFails \/ NewFxTronBridge
  \/ Poll \/ PollFails \/ WaitFails \/ StartBridgePrometheus \/ ListenAndServe \/ PortTaken
  \/ RunEnds \/ Relaunch \/ Environment

\* main goes on, the poll is made again after its pause, and the goroutine of
\* the server is scheduled.  Nothing is assumed of the chains, of the other
\* daemon, of the operator, or of when Run ends.
Fairness ==
  /\ WF_vars(InitLogger \/ RequiredFlags)
  /\ WF_vars(ReadFxKey \/ ReadTronKey \/ LaunchFails \/ NewFxTronBridge)
  /\ WF_vars(Poll) /\ WF_vars(WaitFails) /\ WF_vars(StartBridgePrometheus)
  /\ WF_vars(ListenAndServe \/ PortTaken)

Spec == Init /\ [][Next]_vars /\ Fairness

-----------------------------------------------------------------------------
(***************************************************************************)
(* Properties.                                                             *)
(***************************************************************************)

\* Run begins, and the server listens, only after WaitNewBlock has been given
\* two heights of either chain since the daemon called it, whatever the daemons before it and
\* next to it did; a daemon that has ended holds nothing.
RunsAfterProgress ==
  /\ stage = "running" => at = "ready"
  /\ port = "ours" => stage = "running" /\ server = "listening"
  /\ stage \in {"waiting", "running"} => ReadyAfterProgress

\* Once both chains are ahead of the heights noted, by enough for lagging
\* nodes to show it, the wait ends; the daemon then runs, unless it fails.
WaitEnds ==
  LET bothMoved == /\ 0 < lastTron /\ lastTron + 1 < tronHeight
                   /\ 0 < lastFx /\ lastFx + 1 < fxHeight
  IN  stage = "waiting" /\ bothMoved ~> stage \in {"running"} \cup Ended

\* Of the daemons on a host only the one that has the port goes on: a daemon
\* that runs gets the port or ends.  Two daemons with the same keys do not
\* run next to each other for long.
OneDaemonStays == stage = "running" ~> port = "ours" \/ stage # "running"
=============================================================================
