------------------------------- MODULE Singer -------------------------------
(***************************************************************************)
(* The signer of the bridge daemon (bridge/singer.go): on every tick       *)
(* confirm signs the pending oracle sets, and then, whatever came of that, *)
(* the pending batch, and sends the signatures to f(x)Core in chunks.      *)
(* Each remote call is a step of its own and may fail.                     *)
(***************************************************************************)
EXTENDS FxRequests

CONSTANT ConfirmChunk     \* BatchSendMsgCount, 100 in common.go

ASSUME SingerAssumption == ConfirmChunk \in Nat \ {0}

VARIABLES
  at,         \* where the signer is; "down" while there is none
  cachedId,   \* Singer.gravityId
  confirms,   \* the signed messages given to BatchSendMsg
  sent        \* how many of them it has sent

signerVars == <<at, cachedId, confirms, sent>>
signingVars == <<requestVars, signerVars>>

SignerTypeOK ==
  /\ at \in {"down", "idle", "oracleSets", "sendOracleSets", "batch", "sendBatch"}
  /\ cachedId \in GravityIds
  /\ confirms \in Seq(Confirms)
  /\ sent \in 0..Len(confirms)

SigningTypeOK == RequestsTypeOK /\ SignerTypeOK

SignerInit == at = "down" /\ cachedId \in GravityIds /\ confirms = <<>> /\ sent = 0

SigningInit == RequestsInit /\ SignerInit

\* The locals of BatchSendMsg go out of scope.
\* Mutant: the number of messages sent is kept.
ForgetConfirms == confirms' = <<>> /\ UNCHANGED sent
Forget == confirms' = <<>> /\ sent' = 0

\* NewSinger: the gravityId is read once, for the life of the process.
NewSinger ==
  /\ at = "down"
  /\ at' = "idle"
  /\ cachedId' = gravityId
  /\ UNCHANGED <<requestVars, confirms, sent>>

\* confirm: GetOracleByBridgerAddr.
CheckStatus ==
  /\ at = "idle"
  /\ ~GetOracleByBridgerAddr.online /\ GetOracleByBridgerAddr.externalIsOurs
  /\ at' = "oracleSets"
  /\ UNCHANGED <<requestVars, cachedId, confirms, sent>>

\* The key is not the registered one: confirm panics, the process dies.
SignerPanic ==
  /\ at = "idle"
  /\ ~GetOracleByBridgerAddr.online /\ ~GetOracleByBridgerAddr.externalIsOurs
  /\ at' = "down"
  /\ UNCHANGED <<requestVars, cachedId, confirms, sent>>

Sign(r) == [request |-> r, gravityId |-> cachedId]

\* The signatures for a set of requests, by nonce.
\* Mutant: in any order.
SignedUnsorted(rs) ==
  {s \in [1..Cardinality(rs) -> {Sign(r) : r \in rs}] :
     \A r \in rs : \E i \in 1..Cardinality(rs) : s[i] = Sign(r)}
Signed(rs) ==
  {s \in [1..Cardinality(rs) -> {Sign(r) : r \in rs}] :
     /\ \A r \in rs : \E i \in 1..Cardinality(rs) : s[i] = Sign(r)
     /\ \A i, j \in 1..Cardinality(rs) : i < j => s[i].request.nonce < s[j].request.nonce}

\* singerOracleSetConfirm: all pending oracle sets are read and signed.
SignOracleSets ==
  /\ at = "oracleSets"
  /\ IF PendingRequests("oracleSet") = {}
       THEN at' = "batch" /\ UNCHANGED <<confirms, sent>>
       ELSE at' = "sendOracleSets" /\ confirms' \in Signed(PendingRequests("oracleSet")) /\ sent' = 0
  /\ UNCHANGED <<requestVars, cachedId>>

\* singerConfirmBatch: f(x)Core hands out one pending batch.
SignBatch ==
  /\ at = "batch"
  /\ IF PendingRequests("batch") = {}
       THEN at' = "idle" /\ UNCHANGED <<confirms, sent>>
       ELSE /\ at' = "sendBatch"
            /\ \E r \in PendingRequests("batch") : confirms' = <<Sign(r)>>
            /\ sent' = 0
  /\ UNCHANGED <<requestVars, cachedId>>

\* BatchSendMsg's next chunk: a full one, or what is left after those.
\* Mutants: full chunks only; no chunks.
ConfirmEndFull == (Len(confirms) \div ConfirmChunk) * ConfirmChunk
ConfirmEndAll == Len(confirms)
ConfirmEnd ==
  IF sent + ConfirmChunk <= Len(confirms) THEN sent + ConfirmChunk ELSE Len(confirms)
NextConfirms == SubSeq(confirms, sent + 1, ConfirmEnd)

\* No message is left after that chunk.
\* Mutant: an end that is the length still leaves one, an empty chunk.
AllConfirmedStrict == sent + ConfirmChunk > Len(confirms)
AllConfirmed == ConfirmEnd = Len(confirms)

\* After the oracle sets comes the batch, after the batch the next tick.
\* Mutant: an error with the oracle sets ends the tick.
AfterReturn(failed) == IF at \in {"oracleSets", "sendOracleSets"} /\ ~failed THEN "batch" ELSE "idle"
After(failed) == IF at \in {"oracleSets", "sendOracleSets"} THEN "batch" ELSE "idle"

SendingConfirms == at \in {"sendOracleSets", "sendBatch"}

\* sendMsg: the chunk is accepted.
SendConfirms ==
  /\ SendingConfirms
  /\ Record(NextConfirms)
  /\ IF AllConfirmed
       THEN at' = After(FALSE) /\ Forget
       ELSE sent' = ConfirmEnd /\ UNCHANGED <<at, confirms>>
  /\ UNCHANGED <<live, lastNonce, gravityId, registered, online, unanswered, cachedId>>

\* sendMsg: no answer, but the transaction is under way.
ConfirmUnanswered ==
  /\ SendingConfirms
  /\ Cardinality(unanswered) < MaxUnanswered
  /\ unanswered' = unanswered \cup {NextConfirms}
  /\ at' = After(TRUE) /\ Forget
  /\ UNCHANGED <<live, lastNonce, confirmed, gravityId, registered, online, cachedId>>

\* A query, the encoding, or sendMsg fails; the error is logged.
ConfirmFails ==
  /\ at \in {"oracleSets", "batch"} \/ SendingConfirms
  /\ at' = After(TRUE) /\ Forget
  /\ UNCHANGED <<requestVars, cachedId>>

\* The process dies.
SignerCrash ==
  /\ at # "down"
  /\ at' = "down" /\ Forget
  /\ UNCHANGED <<requestVars, cachedId>>

Confirm == CheckStatus \/ SignOracleSets \/ SignBatch \/ SendConfirms \/ ConfirmUnanswered \/ ConfirmFails

SigningNext ==
  \/ NewSinger \/ SignerPanic \/ Confirm \/ SignerCrash
  \/ RequestsNext /\ UNCHANGED signerVars

SigningSpec == SigningInit /\ [][SigningNext]_signingVars

\* What the signer counts on for the batches: the steps that do not depend on
\* the oracle sets.  Nothing is said of the calls for the oracle sets.
BatchFairness ==
  /\ WF_signingVars(CheckStatus)
  /\ WF_signingVars(at \in {"oracleSets", "sendOracleSets"} /\ ConfirmFails)
  /\ SF_signingVars(SignBatch)
  /\ SF_signingVars(at = "sendBatch" /\ SendConfirms)
  /\ WF_signingVars(at = "sendBatch" /\ ConfirmFails)

\* And for the oracle sets: their calls do not fail for ever.
OracleSetFairness ==
  /\ WF_signingVars(CheckStatus)
  /\ SF_signingVars(SignOracleSets)
  /\ SF_signingVars(at = "sendOracleSets" /\ SendConfirms)
  /\ WF_signingVars(ConfirmFails)

-----------------------------------------------------------------------------
(***************************************************************************)
(* Properties.                                                             *)
(***************************************************************************)

\* Oracle sets are confirmed oldest first: no set waits for this bridger's
\* signature while a newer one has it, even when a run of chunks fails in
\* the middle or a chunk lands late.  (The sort in singerOracleSetConfirm.)
OldestSetFirst ==
  \A r \in confirmed, q \in live :
    r.kind = "oracleSet" /\ q.kind = "oracleSet" /\ q.nonce < r.nonce => q \in confirmed

\* The inductive invariant behind it.  A transaction is in order if each of
\* its oracle sets comes after all the live, unconfirmed ones below it.
InOrder(tx) ==
  \A i \in 1..Len(tx) :
    /\ tx[i].request.nonce <= lastNonce[tx[i].request.kind]
    /\ tx[i].request.kind = "oracleSet" =>
         \A q \in live : q.kind = "oracleSet" /\ q.nonce < tx[i].request.nonce
           => q \in confirmed \/ \E j \in 1..(i - 1) : tx[j].request = q

\* Requests are numbered as they come.
Numbered ==
  /\ IsFiniteSet(live)
  /\ \A r \in live \cup confirmed : r.nonce <= lastNonce[r.kind]

\* What is signed is in order, what BatchSendMsg has passed is confirmed, and
\* so is, in its turn, what is still on its way.
OrderInv ==
  /\ InOrder(confirms)
  /\ \A i \in 1..sent : confirms[i].request \in confirmed
  /\ \A tx \in unanswered : InOrder(tx)

SigningInv == SigningTypeOK /\ Numbered /\ OrderInv /\ OldestSetFirst

\* The gravityId is read when the process starts and never again (NewSinger).
\* f(x)Core checks each signature against the one in force: so every chunk that
\* it takes from BatchSendMsg holds a signature, and is taken while the id of
\* the process is the one in force.  After a change of the parameter nothing
\* that the process sends is taken until it is started again or the id is back.
ConfirmsAreCurrent ==
  [][SendConfirms => cachedId = gravityId /\ Len(NextConfirms) > 0]_signingVars

\* What is on its way is no longer than a chunk.
UnansweredShort == \A tx \in unanswered : Len(tx) <= ConfirmChunk

\* The signer as its users see it: each step of it, of a late transaction and
\* of f(x)Core is a step of module SigningDuty.  However the requests, the
\* parameters, the chunks and the failures come, a transaction confirms only
\* requests that wait, at most a chunk of them, and the oldest sets first.
Duty == INSTANCE SigningDuty WITH
  waiting <- live, newest <- lastNonce, done <- confirmed, MaxStep <- ConfirmChunk
ImplementsSigningDuty == Duty!Spec

\* The signer can be of use: it is up, its key and its id are the right ones.
Able == at # "down" /\ registered /\ ~online /\ cachedId = gravityId

\* The oracle sets never keep a batch waiting: with nothing known of the calls
\* for the oracle sets, every batch is confirmed or gone eventually.
BatchesEventuallyConfirmed ==
  BatchFairness /\ <>[]Able => \A n \in 1..MaxNonce :
    LET r == [kind |-> "batch", nonce |-> n]
    IN  r \in live ~> r \in confirmed \/ r \notin live

\* Every oracle set is confirmed or gone eventually.
SetsEventuallyConfirmed ==
  OracleSetFairness /\ <>[]Able => \A n \in 1..MaxNonce :
    LET r == [kind |-> "oracleSet", nonce |-> n]
    IN  r \in live ~> r \in confirmed \/ r \notin live
=============================================================================
