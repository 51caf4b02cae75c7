------------------------------- MODULE FxCore -------------------------------
(***************************************************************************)
(* f(x)Core as the event relay sees it through CrossChainClient: the       *)
(* claims it has recorded for this bridger, and the transactions that are  *)
(* still on their way after a broadcast whose answer was an error.  The    *)
(* chain is external.  What the code relies on: LastEventNonceByAddr says  *)
(* that every event up to that nonce is claimed (bridgeEvent drops those   *)
(* and sends the rest), so claims are recorded in nonce order without      *)
(* gaps, and a transaction takes effect as a whole or not at all.          *)
(***************************************************************************)
EXTENDS Integers, Sequences, FiniteSets, OracleRecord

CONSTANTS
  ClaimKinds,   \* the kinds of claim, one per contract event
  MaxPending    \* bound: transactions on their way at one time

VARIABLES
  claimed,      \* the recorded claims; the n-th is for event nonce n
  coreHeight,   \* block height of this bridger's last claim, 0 if none yet
  pending       \* transactions broadcast but not yet executed

coreVars == <<claimed, coreHeight, online, pending>>

Claims == [height : Nat, kind : ClaimKinds]
Msgs == [nonce : Nat, height : Nat, kind : ClaimKinds]

CoreTypeOK ==
  /\ claimed \in Seq(Claims)
  /\ coreHeight \in Nat
  /\ online \in BOOLEAN
  /\ pending \in SUBSET Seq(Msgs)

\* LastEventNonceByAddr.
LastEventNonce == Len(claimed)

\* LastEventBlockHeightByAddr.
LastEventBlockHeight == coreHeight

\* The transaction's claims carry on from the last recorded nonce.
Continues(tx) ==
  /\ tx # <<>>
  /\ \A i \in 1..Len(tx) : tx[i].nonce = Len(claimed) + i

\* A transaction is executed: all of its claims are recorded.
Execute(tx) ==
  /\ Continues(tx)
  /\ claimed' = claimed \o [i \in 1..Len(tx) |-> [height |-> tx[i].height, kind |-> tx[i].kind]]
  /\ coreHeight' = tx[Len(tx)].height

\* A transaction reaches a block after its broadcaster gave up on it.
DeliverLate(tx) ==
  /\ Execute(tx)
  /\ pending' = pending \ {tx}
  /\ UNCHANGED online

\* It is refused, or expires in the mempool.
DropLate(tx) ==
  /\ pending' = pending \ {tx}
  /\ UNCHANGED <<claimed, coreHeight, online>>

\* The oracle's status changes on f(x)Core.
SetOnline ==
  /\ online' = ~online
  /\ UNCHANGED <<claimed, coreHeight, pending>>

CoreNext ==
  \/ \E tx \in pending : DeliverLate(tx) \/ DropLate(tx)
  \/ SetOnline
=============================================================================
