----------------------------- MODULE FxRequests -----------------------------
(***************************************************************************)
(* f(x)Core as the signer sees it through CrossChainClient: the requests   *)
(* that wait for a signature of every bridger (oracle set updates and      *)
(* outgoing batches), those that this bridger has confirmed, and what a    *)
(* signature is checked against.  The chain is external.                   *)
(***************************************************************************)
EXTENDS Integers, Sequences, FiniteSets, OracleRecord

CONSTANTS
  GravityIds,     \* values of the module parameter gravityId
  MaxNonce,       \* bound: oracle sets, and batches, requested in all
  MaxUnanswered   \* bound: transactions on their way at one time

VARIABLES
  live,           \* requests that still wait for signatures
  lastNonce,      \* kind |-> nonce of the newest request
  confirmed,      \* requests that this bridger has confirmed
  gravityId,      \* Params.GravityId
  registered,     \* Oracle.ExternalAddress is the address of the daemon's key
  unanswered      \* transactions broadcast but not yet executed

requestVars == <<live, lastNonce, confirmed, gravityId, registered, online, unanswered>>

ASSUME RequestsAssumption == MaxNonce \in Nat

Kinds == {"oracleSet", "batch"}
Requests == [kind : Kinds, nonce : Nat]
Confirms == [request : Requests, gravityId : GravityIds]

RequestsTypeOK ==
  /\ live \in SUBSET Requests
  /\ lastNonce \in [Kinds -> Nat]
  /\ confirmed \in SUBSET Requests
  /\ gravityId \in GravityIds
  /\ registered \in BOOLEAN /\ online \in BOOLEAN
  /\ unanswered \in SUBSET Seq(Confirms)

RequestsInit ==
  /\ live = {} /\ lastNonce = [k \in Kinds |-> 0] /\ confirmed = {}
  /\ gravityId \in GravityIds
  /\ registered \in BOOLEAN /\ online \in BOOLEAN
  /\ unanswered = {}

\* The oracle's status flag, and whether its ExternalAddress is that of the key.
GetOracleByBridgerAddr == [online |-> online, externalIsOurs |-> registered]

\* The requests of a kind that this bridger should still confirm.
PendingRequests(kind) == {r \in live \ confirmed : r.kind = kind}

\* A transaction is accepted as a whole, or refused: every request is live and
\* not yet confirmed, and every signature is over the gravityId in force, by
\* the registered key.
Accepts(tx) ==
  /\ registered
  /\ \A i \in 1..Len(tx) : tx[i].request \in live \ confirmed /\ tx[i].gravityId = gravityId
  /\ \A i, j \in 1..Len(tx) : tx[i].request = tx[j].request => i = j

Record(tx) ==
  /\ Accepts(tx)
  /\ confirmed' = confirmed \cup {tx[i].request : i \in 1..Len(tx)}

NewRequest(kind) ==
  /\ lastNonce[kind] < MaxNonce
  /\ lastNonce' = [lastNonce EXCEPT ![kind] = @ + 1]
  /\ live' = live \cup {[kind |-> kind, nonce |-> lastNonce[kind] + 1]}
  /\ UNCHANGED <<confirmed, gravityId, registered, online, unanswered>>

\* An oracle set is superseded; a batch is executed, cancelled or times out.
RequestGone(r) ==
  /\ live' = live \ {r}
  /\ UNCHANGED <<lastNonce, confirmed, gravityId, registered, online, unanswered>>

ParamsChange ==
  /\ gravityId' \in GravityIds \ {gravityId}
  /\ UNCHANGED <<live, lastNonce, confirmed, registered, online, unanswered>>

OracleChanges ==
  /\ \/ online' = ~online /\ UNCHANGED registered
     \/ registered' = ~registered /\ UNCHANGED online
  /\ UNCHANGED <<live, lastNonce, confirmed, gravityId, unanswered>>

LateConfirm(tx) ==
  /\ Record(tx)
  /\ unanswered' = unanswered \ {tx}
  /\ UNCHANGED <<live, lastNonce, gravityId, registered, online>>

LostConfirm(tx) ==
  /\ unanswered' = unanswered \ {tx}
  /\ UNCHANGED <<live, lastNonce, confirmed, gravityId, registered, online>>

RequestsNext ==
  \/ \E kind \in Kinds : NewRequest(kind)
  \/ \E r \in live : RequestGone(r)
  \/ ParamsChange
  \/ OracleChanges
  \/ \E tx \in unanswered : LateConfirm(tx) \/ LostConfirm(tx)
=============================================================================
