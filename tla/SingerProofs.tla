---------------------------- MODULE SingerProofs ----------------------------
(***************************************************************************)
(* Proofs about the signer, for any number of requests, any chunk size and *)
(* any set of gravityIds.                                                  *)
(***************************************************************************)
EXTENDS Singer, TLAPS, FiniteSetTheorems, SequenceTheorems, SequenceFacts

USE DEF AllConfirmed

-----------------------------------------------------------------------------
(* Chunks and signatures.                                                  *)

\* The next chunk lies within the messages.
LEMMA ConfirmEndRange ==
  ASSUME SignerTypeOK
  PROVE  /\ Len(confirms) \in Nat /\ sent \in Nat /\ ConfirmEnd \in Nat
         /\ sent <= ConfirmEnd /\ ConfirmEnd <= Len(confirms)
<1>1. Len(confirms) \in Nat
  BY LenProperties DEF SignerTypeOK
<1> QED
  BY <1>1, SingerAssumption DEF SignerTypeOK, ConfirmEnd

\* The next chunk is a sequence of the messages that follow the sent ones.
LEMMA ChunkShape ==
  ASSUME SignerTypeOK
  PROVE  /\ NextConfirms \in Seq(Confirms)
         /\ Len(NextConfirms) = ConfirmEnd - sent
         /\ \A i \in 1..Len(NextConfirms) :
              /\ sent + i \in 1..Len(confirms)
              /\ NextConfirms[i] = confirms[sent + i]
<1>1. /\ Len(confirms) \in Nat /\ sent \in Nat /\ ConfirmEnd \in Nat
      /\ sent <= ConfirmEnd /\ ConfirmEnd <= Len(confirms)
  BY ConfirmEndRange
<1>2. confirms \in Seq(Confirms) /\ sent + 1 \in 1..(Len(confirms) + 1) /\ ConfirmEnd \in 0..Len(confirms)
  BY <1>1 DEF SignerTypeOK
<1>3. /\ NextConfirms \in Seq(Confirms)
      /\ Len(NextConfirms) = IF sent + 1 <= ConfirmEnd THEN ConfirmEnd - (sent + 1) + 1 ELSE 0
      /\ \A i \in 1..(ConfirmEnd - (sent + 1) + 1) : NextConfirms[i] = confirms[(sent + 1) + i - 1]
  BY <1>2, PartOfSeq DEF NextConfirms
<1>4. Len(NextConfirms) = ConfirmEnd - sent
  BY <1>1, <1>3
<1>5. ASSUME NEW i \in 1..Len(NextConfirms)
      PROVE  sent + i \in 1..Len(confirms) /\ NextConfirms[i] = confirms[sent + i]
  <2>1. i \in 1..(ConfirmEnd - (sent + 1) + 1) /\ (sent + 1) + i - 1 = sent + i
    BY <1>1, <1>4, <1>5
  <2> QED
    BY <1>1, <1>3, <1>4, <2>1
<1> QED
  BY <1>3, <1>4, <1>5

\* The pending requests of a kind are finitely many requests.
LEMMA PendingFinite ==
  ASSUME RequestsTypeOK, IsFiniteSet(live), NEW k \in Kinds
  PROVE  /\ PendingRequests(k) \subseteq Requests
         /\ IsFiniteSet(PendingRequests(k))
         /\ Cardinality(PendingRequests(k)) \in Nat
<1>1. PendingRequests(k) \subseteq live
  BY DEF PendingRequests
<1>2. IsFiniteSet(PendingRequests(k))
  BY <1>1, FS_Subset
<1> QED
  BY <1>1, <1>2, FS_CardinalityType DEF RequestsTypeOK

\* Signing a finite set of requests gives a sequence of confirmations.
LEMMA SignedType ==
  ASSUME cachedId \in GravityIds, NEW rs \in SUBSET Requests, Cardinality(rs) \in Nat,
         NEW s \in Signed(rs)
  PROVE  /\ s \in Seq(Confirms) /\ Len(s) = Cardinality(rs)
         /\ \A i \in 1..Len(s) : s[i].request \in rs
         /\ \A r \in rs : \E i \in 1..Len(s) : s[i].request = r
         /\ \A i, j \in 1..Len(s) : i < j => s[i].request.nonce < s[j].request.nonce
<1> DEFINE n == Cardinality(rs)
<1>1. s \in [1..n -> {Sign(r) : r \in rs}]
  BY DEF Signed
<1>2. \A r \in rs : Sign(r) \in Confirms /\ Sign(r).request = r
  BY DEF Sign, Confirms
<1>3. s \in [1..n -> Confirms]
  BY <1>1, <1>2
<1>4. s \in Seq(Confirms) /\ Len(s) = n
  BY <1>3, SegmentIsSeq
<1>5. ASSUME NEW i \in 1..n PROVE s[i].request \in rs
  <2>1. PICK r \in rs : s[i] = Sign(r)
    BY <1>1
  <2> QED
    BY <1>2, <2>1
<1>6. ASSUME NEW r \in rs PROVE \E i \in 1..n : s[i].request = r
  <2>1. PICK i \in 1..n : s[i] = Sign(r)
    BY DEF Signed
  <2> QED
    BY <1>2, <2>1
<1>7. \A i, j \in 1..n : i < j => s[i].request.nonce < s[j].request.nonce
  BY DEF Signed
<1> QED
  BY <1>4, <1>5, <1>6, <1>7

\* Requests of different nonces give one list of signatures: it can be sorted,
\* in one way.
LEMMA OneSignedList ==
  ASSUME NEW rs \in SUBSET Requests, IsFiniteSet(rs),
         \A r, q \in rs : r.nonce = q.nonce => r = q
  PROVE  \E s : Signed(rs) = {s}
<1> DEFINE N == {r.nonce : r \in rs}
           n == Cardinality(rs)
           M == {Sign(r) : r \in rs}
           Of(k) == CHOOSE r \in rs : r.nonce = k
<1>1. N \in SUBSET Int
  BY DEF Requests
<1>2. IsFiniteSet(N) /\ Cardinality(N) = n
  <2> DEFINE nonceOf == [r \in rs |-> r.nonce]
  <2>1. nonceOf \in Bijection(rs, N)
    BY DEF Bijection, Injection, Surjection, IsInjective
  <2>2. ExistsBijection(rs, N)
    BY <2>1 DEF ExistsBijection
  <2> QED
    BY <2>2, FS_Bijection
<1>3. PICK f : Sorts(f, N, n)
  BY <1>1, <1>2, SortExists
<1>4. /\ f \in [1..n -> N]
      /\ \A k \in N : \E i \in 1..n : f[i] = k
      /\ \A i, j \in 1..n : i < j => f[i] < f[j]
  BY <1>3 DEF Sorts
<1>5. \A k \in N : Of(k) \in rs /\ Of(k).nonce = k
  OBVIOUS
<1>6. \A r \in rs : r.nonce \in N /\ Of(r.nonce) = r
  OBVIOUS
<1>7. \A r : Sign(r).request = r
  BY DEF Sign
<1> DEFINE s == [i \in 1..n |-> Sign(Of(f[i]))]
<1> HIDE DEF N, Of
<1>8. s \in Signed(rs)
  <2>1. s \in [1..n -> M]
    BY <1>4, <1>5
  <2>2. ASSUME NEW r \in rs PROVE \E i \in 1..n : s[i] = Sign(r)
    <3>1. PICK i \in 1..n : f[i] = r.nonce
      BY <1>4, <1>6
    <3> QED
      BY <1>6, <3>1
  <2>3. ASSUME NEW i \in 1..n, NEW j \in 1..n, i < j PROVE s[i].request.nonce < s[j].request.nonce
    <3>1. s[i].request = Of(f[i]) /\ s[j].request = Of(f[j])
      BY <1>7
    <3>2. Of(f[i]).nonce = f[i] /\ Of(f[j]).nonce = f[j]
      BY <1>4, <1>5
    <3>3. f[i] < f[j]
      BY <1>4, <2>3
    <3> HIDE DEF s
    <3> QED
      BY <3>1, <3>2, <3>3
  <2> QED
    BY <2>1, <2>2, <2>3 DEF Signed
<1>9. ASSUME NEW t \in Signed(rs) PROVE t = s
  <2> DEFINE g == [i \in 1..n |-> t[i].request.nonce]
  <2>1. /\ t \in [1..n -> M]
        /\ \A r \in rs : \E i \in 1..n : t[i] = Sign(r)
        /\ \A i, j \in 1..n : i < j => t[i].request.nonce < t[j].request.nonce
    BY DEF Signed
  <2>2. ASSUME NEW i \in 1..n PROVE g[i] \in N /\ t[i] = Sign(Of(g[i]))
    <3>1. PICK r \in rs : t[i] = Sign(r)
      BY <2>1
    <3>2. g[i] = r.nonce
      BY <1>7, <3>1
    <3> QED
      BY <1>6, <3>1, <3>2
  <2>3. Sorts(g, N, n)
    <3>1. g \in [1..n -> N]
      BY <2>2
    <3>2. ASSUME NEW k \in N PROVE \E i \in 1..n : g[i] = k
      <4>1. PICK i \in 1..n : t[i] = Sign(Of(k))
        BY <1>5, <2>1
      <4>2. t[i].request = Of(k)
        BY <1>7, <4>1
      <4>3. g[i] = k
        BY <1>5, <4>2
      <4> QED
        BY <4>3
    <3> QED
      BY <2>1, <3>1, <3>2 DEF Sorts
  <2>4. g = f
    BY <1>1, <1>2, <1>3, <2>3, SortUnique
  <2>5. ASSUME NEW i \in 1..n PROVE t[i] = s[i]
    BY <2>2, <2>4
  <2> QED
    BY <2>1, <2>5
<1> QED
  BY <1>8, <1>9

-----------------------------------------------------------------------------
(* Type correctness.                                                       *)

\* The signer's next state is well typed whenever it keeps or drops its
\* messages.
LEMMA ForgetType ==
  ASSUME SignerTypeOK, Forget, cachedId' = cachedId,
         at' \in {"down", "idle", "oracleSets", "sendOracleSets", "batch", "sendBatch"}
  PROVE  SignerTypeOK'
<1>1. confirms' \in Seq(Confirms) /\ Len(confirms') = 0
  BY EmptySeq DEF Forget
<1> QED
  BY <1>1 DEF SignerTypeOK, Forget

\* The initial states are well typed.
LEMMA InitTyped == SigningInit => SigningTypeOK /\ Numbered
<1> SUFFICES ASSUME SigningInit PROVE SigningTypeOK /\ Numbered
  OBVIOUS
<1>1. RequestsTypeOK /\ Numbered
  BY FS_EmptySet DEF SigningInit, RequestsInit, RequestsTypeOK, Numbered, Kinds
<1>2. confirms \in Seq(Confirms) /\ Len(confirms) = 0
  BY EmptySeq DEF SigningInit, SignerInit
<1>3. SignerTypeOK
  BY <1>2 DEF SigningInit, SignerInit, SignerTypeOK
<1> QED
  BY <1>1, <1>3 DEF SigningTypeOK

\* Recording a transaction of confirmations confirms requests.
LEMMA RecordTyped ==
  ASSUME RequestsTypeOK, NEW tx \in Seq(Confirms), Record(tx)
  PROVE  confirmed' \in SUBSET Requests /\ \A r \in confirmed' \ confirmed : r \in live
<1>1. \A i \in 1..Len(tx) : tx[i].request \in live
  BY DEF Record, Accepts
<1> QED
  BY <1>1 DEF Record, RequestsTypeOK

\* f(x)Core's own steps keep the requests well typed and numbered.
LEMMA RequestsTyped ==
  ASSUME RequestsTypeOK, Numbered, RequestsNext
  PROVE  RequestsTypeOK' /\ Numbered'
<1>1. ASSUME NEW kind \in Kinds, NewRequest(kind)
      PROVE  RequestsTypeOK' /\ Numbered'
  <2> DEFINE new == [kind |-> kind, nonce |-> lastNonce[kind] + 1]
  <2>1. new \in Requests /\ lastNonce' \in [Kinds -> Nat]
    BY <1>1 DEF RequestsTypeOK, NewRequest, Requests
  <2>2. live' = live \cup {new}
    BY <1>1 DEF NewRequest
  <2>3. RequestsTypeOK'
    BY <1>1, <2>1, <2>2 DEF RequestsTypeOK, NewRequest
  <2>4. IsFiniteSet(live')
    BY <2>2, FS_AddElement DEF Numbered
  <2>5. ASSUME NEW r \in live' \cup confirmed'
        PROVE  r.nonce <= lastNonce'[r.kind]
    <3>1. r \in Requests /\ r.kind \in Kinds /\ r.nonce \in Nat
      BY <2>3, <2>5 DEF RequestsTypeOK, Requests
    <3>2. CASE r = new
      BY <1>1, <3>2 DEF NewRequest, RequestsTypeOK
    <3>3. CASE r # new
      <4>1. r.nonce <= lastNonce[r.kind]
        BY <1>1, <2>2, <2>5, <3>3 DEF Numbered, NewRequest
      <4>2. lastNonce[r.kind] \in Nat /\ lastNonce[kind] \in Nat
        BY <3>1 DEF RequestsTypeOK
      <4>3. lastNonce'[r.kind] = IF r.kind = kind THEN lastNonce[kind] + 1 ELSE lastNonce[r.kind]
        BY <1>1, <3>1 DEF NewRequest, RequestsTypeOK
      <4> QED
        BY <3>1, <4>1, <4>2, <4>3
    <3> QED
      BY <3>2, <3>3
  <2> QED
    BY <2>3, <2>4, <2>5 DEF Numbered
<1>2. ASSUME NEW r \in live, RequestGone(r)
      PROVE  RequestsTypeOK' /\ Numbered'
  <2>1. IsFiniteSet(live')
    BY <1>2, FS_RemoveElement DEF RequestGone, Numbered
  <2> QED
    BY <1>2, <2>1 DEF RequestGone, Numbered, RequestsTypeOK
<1>3. CASE ParamsChange
  BY <1>3 DEF ParamsChange, Numbered, RequestsTypeOK
<1>4. CASE OracleChanges
  BY <1>4 DEF OracleChanges, Numbered, RequestsTypeOK
<1>5. ASSUME NEW tx \in unanswered, LateConfirm(tx)
      PROVE  RequestsTypeOK' /\ Numbered'
  <2>1. confirmed' \in SUBSET Requests /\ \A r \in confirmed' \ confirmed : r \in live
    BY <1>5, RecordTyped DEF LateConfirm, RequestsTypeOK
  <2> QED
    BY <1>5, <2>1 DEF LateConfirm, Numbered, RequestsTypeOK
<1>6. ASSUME NEW tx \in unanswered, LostConfirm(tx)
      PROVE  RequestsTypeOK' /\ Numbered'
  BY <1>6 DEF LostConfirm, Numbered, RequestsTypeOK
<1> QED
  BY <1>1, <1>2, <1>3, <1>4, <1>5, <1>6 DEF RequestsNext

\* Every step keeps types and numbering.
LEMMA StepTyped ==
  ASSUME SigningTypeOK, Numbered, [SigningNext]_signingVars
  PROVE  SigningTypeOK' /\ Numbered'
<1>1. CASE NewSinger
  BY <1>1 DEF NewSinger, SigningTypeOK, RequestsTypeOK, SignerTypeOK, Numbered, requestVars
<1>2. CASE SignerPanic \/ CheckStatus
  BY <1>2 DEF SignerPanic, CheckStatus, SigningTypeOK, RequestsTypeOK, SignerTypeOK, Numbered, requestVars
<1>3. CASE SignOracleSets
  <2> DEFINE rs == PendingRequests("oracleSet")
  <2>1. RequestsTypeOK' /\ Numbered'
    BY <1>3 DEF SignOracleSets, SigningTypeOK, RequestsTypeOK, Numbered, requestVars
  <2>2. CASE rs = {}
    BY <1>3, <2>1, <2>2 DEF SignOracleSets, SigningTypeOK, SignerTypeOK
  <2>3. CASE rs # {}
    <3>1. confirms' \in Signed(rs) /\ sent' = 0 /\ at' = "sendOracleSets" /\ cachedId' = cachedId
      BY <1>3, <2>3 DEF SignOracleSets
    <3>2. rs \in SUBSET Requests /\ Cardinality(rs) \in Nat
      BY PendingFinite DEF SigningTypeOK, Numbered, Kinds
    <3>3. confirms' \in Seq(Confirms) /\ Len(confirms') = Cardinality(rs)
      BY <3>1, <3>2, SignedType DEF SigningTypeOK, SignerTypeOK
    <3> QED
      BY <2>1, <3>1, <3>2, <3>3 DEF SigningTypeOK, SignerTypeOK
  <2> QED
    BY <2>2, <2>3
<1>4. CASE SignBatch
  <2> DEFINE rs == PendingRequests("batch")
  <2>1. RequestsTypeOK' /\ Numbered'
    BY <1>4 DEF SignBatch, SigningTypeOK, RequestsTypeOK, Numbered, requestVars
  <2>2. CASE rs = {}
    BY <1>4, <2>1, <2>2 DEF SignBatch, SigningTypeOK, SignerTypeOK
  <2>3. CASE rs # {}
    <3>1. PICK r \in rs : confirms' = <<Sign(r)>>
      BY <1>4, <2>3 DEF SignBatch
    <3>2. r \in Requests
      BY PendingFinite DEF SigningTypeOK, Numbered, Kinds
    <3>3. Sign(r) \in Confirms
      BY <3>2 DEF Sign, Confirms, SigningTypeOK, SignerTypeOK
    <3>4. confirms' \in Seq(Confirms) /\ Len(confirms') = 1
      BY <3>1, <3>3
    <3> QED
      BY <1>4, <2>1, <2>3, <3>4 DEF SignBatch, SigningTypeOK, SignerTypeOK
  <2> QED
    BY <2>2, <2>3
<1>5. CASE SendConfirms
  <2>1. NextConfirms \in Seq(Confirms)
    BY ChunkShape DEF SigningTypeOK
  <2>2. confirmed' \in SUBSET Requests /\ \A r \in confirmed' \ confirmed : r \in live
    BY <1>5, <2>1, RecordTyped DEF SendConfirms, SigningTypeOK
  <2>3. RequestsTypeOK' /\ Numbered'
    BY <1>5, <2>2 DEF SendConfirms, SigningTypeOK, RequestsTypeOK, Numbered
  <2>4. CASE ConfirmEnd = Len(confirms)
    <3>1. SignerTypeOK'
      BY <1>5, <2>4, ForgetType DEF SendConfirms, SigningTypeOK, After
    <3> QED
      BY <2>3, <3>1 DEF SigningTypeOK
  <2>5. CASE ConfirmEnd # Len(confirms)
    <3>1. sent' = ConfirmEnd /\ UNCHANGED <<at, confirms, cachedId>>
      BY <1>5, <2>5 DEF SendConfirms
    <3>2. SignerTypeOK'
      BY <3>1, ConfirmEndRange DEF SigningTypeOK, SignerTypeOK
    <3> QED
      BY <2>3, <3>2 DEF SigningTypeOK
  <2> QED
    BY <2>4, <2>5
<1>6. CASE ConfirmUnanswered
  <2>1. NextConfirms \in Seq(Confirms)
    BY ChunkShape DEF SigningTypeOK
  <2>2. RequestsTypeOK' /\ Numbered'
    BY <1>6, <2>1 DEF ConfirmUnanswered, SigningTypeOK, RequestsTypeOK, Numbered
  <2>3. SignerTypeOK'
    BY <1>6, ForgetType DEF ConfirmUnanswered, SigningTypeOK, After
  <2> QED
    BY <2>2, <2>3 DEF SigningTypeOK
<1>7. CASE ConfirmFails \/ SignerCrash
  <2>1. RequestsTypeOK' /\ Numbered'
    BY <1>7 DEF ConfirmFails, SignerCrash, SigningTypeOK, RequestsTypeOK, Numbered, requestVars
  <2>2. SignerTypeOK'
    BY <1>7, ForgetType DEF ConfirmFails, SignerCrash, SigningTypeOK, After
  <2> QED
    BY <2>1, <2>2 DEF SigningTypeOK
<1>8. CASE RequestsNext /\ UNCHANGED signerVars
  <2>1. RequestsTypeOK' /\ Numbered'
    BY <1>8, RequestsTyped DEF SigningTypeOK
  <2> QED
    BY <1>8, <2>1 DEF SigningTypeOK, SignerTypeOK, signerVars
<1>9. CASE UNCHANGED signingVars
  BY <1>9 DEF signingVars, requestVars, signerVars, SigningTypeOK, RequestsTypeOK, SignerTypeOK, Numbered
<1> QED
  BY <1>1, <1>2, <1>3, <1>4, <1>5, <1>6, <1>7, <1>8, <1>9 DEF SigningNext, Confirm

-----------------------------------------------------------------------------
(* Order.                                                                  *)

\* Requests are only added with new numbers and never unconfirmed.
RequestsGrow ==
  /\ confirmed \subseteq confirmed'
  /\ \A k \in Kinds : lastNonce[k] <= lastNonce'[k]
  /\ \A q \in live' : q \in live \/ q.nonce > lastNonce[q.kind]

\* That is so of every step.
LEMMA StepGrows ==
  ASSUME SigningTypeOK, [SigningNext]_signingVars
  PROVE  RequestsGrow
<1>1. \A k \in Kinds : lastNonce[k] \in Nat
  BY DEF SigningTypeOK, RequestsTypeOK
<1>2. ASSUME UNCHANGED <<live, lastNonce, confirmed>> PROVE RequestsGrow
  BY <1>1, <1>2 DEF RequestsGrow
<1>3. ASSUME NEW tx, Record(tx), UNCHANGED <<live, lastNonce>> PROVE RequestsGrow
  BY <1>1, <1>3 DEF RequestsGrow, Record
<1>4. CASE NewSinger \/ SignerPanic \/ CheckStatus \/ SignOracleSets \/ SignBatch
             \/ ConfirmUnanswered \/ ConfirmFails \/ SignerCrash \/ UNCHANGED signingVars
  BY <1>2, <1>4 DEF NewSinger, SignerPanic, CheckStatus, SignOracleSets, SignBatch, ConfirmUnanswered,
                    ConfirmFails, SignerCrash, signingVars, requestVars
<1>5. CASE SendConfirms
  BY <1>3, <1>5 DEF SendConfirms
<1>6. CASE RequestsNext
  <2>1. ASSUME NEW kind \in Kinds, NewRequest(kind) PROVE RequestsGrow
    BY <1>1, <2>1 DEF NewRequest, RequestsGrow, SigningTypeOK, RequestsTypeOK
  <2>2. ASSUME NEW r \in live, RequestGone(r) PROVE RequestsGrow
    BY <1>1, <2>2 DEF RequestGone, RequestsGrow
  <2>3. CASE ParamsChange \/ OracleChanges
    BY <1>2, <2>3 DEF ParamsChange, OracleChanges
  <2>4. ASSUME NEW tx \in unanswered, LateConfirm(tx) PROVE RequestsGrow
    BY <1>3, <2>4 DEF LateConfirm
  <2>5. ASSUME NEW tx \in unanswered, LostConfirm(tx) PROVE RequestsGrow
    BY <1>2, <2>5 DEF LostConfirm
  <2> QED
    BY <1>6, <2>1, <2>2, <2>3, <2>4, <2>5 DEF RequestsNext
<1> QED
  BY <1>4, <1>5, <1>6 DEF SigningNext, Confirm

\* A transaction that is in order stays so, however long it is on its way.
LEMMA OrderStays ==
  ASSUME SigningTypeOK, Numbered, SigningTypeOK', RequestsGrow, NEW tx \in Seq(Confirms), InOrder(tx)
  PROVE  InOrder(tx)'
<1> SUFFICES ASSUME NEW i \in 1..Len(tx)
             PROVE  /\ tx[i].request.nonce <= lastNonce'[tx[i].request.kind]
                    /\ tx[i].request.kind = "oracleSet" =>
                         \A q \in live' : q.kind = "oracleSet" /\ q.nonce < tx[i].request.nonce
                           => q \in confirmed' \/ \E j \in 1..(i - 1) : tx[j].request = q
  BY DEF InOrder
<1> DEFINE r == tx[i].request
<1>1. r \in Requests
  <2>1. tx[i] \in Confirms
    BY ElementOfSeq
  <2> QED
    BY <2>1 DEF Confirms
<1>2. r.kind \in Kinds /\ r.nonce \in Nat
  BY <1>1 DEF Requests
<1>3. lastNonce[r.kind] \in Nat /\ lastNonce'[r.kind] \in Nat /\ lastNonce[r.kind] <= lastNonce'[r.kind]
  BY <1>2 DEF SigningTypeOK, RequestsTypeOK, RequestsGrow
<1>4. r.nonce <= lastNonce[r.kind]
  BY DEF InOrder
<1>5. ASSUME r.kind = "oracleSet", NEW q \in live', q.kind = "oracleSet", q.nonce < r.nonce
      PROVE  q \in confirmed' \/ \E j \in 1..(i - 1) : tx[j].request = q
  <2>1. q.nonce \in Nat
    BY <1>5 DEF SigningTypeOK, RequestsTypeOK, Requests
  <2>2. ~(q.nonce > lastNonce[q.kind])
    BY <1>2, <1>3, <1>4, <1>5, <2>1
  <2>3. q \in live
    BY <1>5, <2>2 DEF RequestsGrow
  <2>4. q \in confirmed \/ \E j \in 1..(i - 1) : tx[j].request = q
    BY <1>5, <2>3 DEF InOrder
  <2> QED
    BY <2>4 DEF RequestsGrow
<1> QED
  BY <1>2, <1>3, <1>4, <1>5

\* The next chunk of messages in order is in order.
LEMMA ChunkInOrder ==
  ASSUME SigningTypeOK, OrderInv
  PROVE  InOrder(NextConfirms)
<1> DEFINE c == NextConfirms
<1>1. /\ c \in Seq(Confirms) /\ Len(c) = ConfirmEnd - sent
      /\ \A i \in 1..Len(c) : sent + i \in 1..Len(confirms) /\ c[i] = confirms[sent + i]
  BY ChunkShape DEF SigningTypeOK
<1>2. sent \in Nat /\ Len(c) \in Nat
  BY <1>1, ConfirmEndRange, LenProperties DEF SigningTypeOK
<1> SUFFICES ASSUME NEW i \in 1..Len(c)
             PROVE  /\ c[i].request.nonce <= lastNonce[c[i].request.kind]
                    /\ c[i].request.kind = "oracleSet" =>
                         \A q \in live : q.kind = "oracleSet" /\ q.nonce < c[i].request.nonce
                           => q \in confirmed \/ \E j \in 1..(i - 1) : c[j].request = q
  BY DEF InOrder
<1>3. sent + i \in 1..Len(confirms) /\ c[i] = confirms[sent + i]
  BY <1>1
<1>4. c[i].request.nonce <= lastNonce[c[i].request.kind]
  BY <1>3 DEF OrderInv, InOrder
<1>5. ASSUME c[i].request.kind = "oracleSet",
             NEW q \in live, q.kind = "oracleSet", q.nonce < c[i].request.nonce
      PROVE  q \in confirmed \/ \E j \in 1..(i - 1) : c[j].request = q
  <2>1. q \in confirmed \/ \E j \in 1..(sent + i - 1) : confirms[j].request = q
    <3>1. PICK m \in 1..Len(confirms) : m = sent + i /\ c[i] = confirms[m]
      BY <1>3
    <3>2. confirms[m].request.kind = "oracleSet" /\ q.nonce < confirms[m].request.nonce
      BY <1>5, <3>1
    <3>3. q \in confirmed \/ \E j \in 1..(m - 1) : confirms[j].request = q
      BY <1>5, <3>1, <3>2 DEF OrderInv, InOrder
    <3>4. 1..(m - 1) = 1..(sent + i - 1)
      BY <1>2, <3>1
    <3> QED
      BY <3>3, <3>4
  <2>2. ASSUME NEW j \in 1..(sent + i - 1), confirms[j].request = q
        PROVE  q \in confirmed \/ \E k \in 1..(i - 1) : c[k].request = q
    <3>1. CASE j <= sent
      <4>1. j \in 1..sent
        BY <1>2, <3>1
      <4> QED
        BY <2>2, <4>1 DEF OrderInv
    <3>2. CASE j > sent
      <4>1. j - sent \in 1..(i - 1) /\ j - sent \in 1..Len(c) /\ sent + (j - sent) = j
        BY <1>2, <3>2
      <4>2. c[j - sent] = confirms[j]
        BY <1>1, <4>1
      <4> QED
        BY <2>2, <4>1, <4>2
    <3> QED
      BY <1>2, <3>1, <3>2
  <2> QED
    BY <2>1, <2>2
<1> QED
  BY <1>4, <1>5

\* Confirming requests in order leaves no older oracle set behind.
LEMMA RecordOldestFirst ==
  ASSUME OldestSetFirst, NEW tx \in Seq(Confirms), InOrder(tx), Record(tx), UNCHANGED live
  PROVE  OldestSetFirst'
<1> SUFFICES ASSUME NEW r \in confirmed', NEW q \in live,
                    r.kind = "oracleSet", q.kind = "oracleSet", q.nonce < r.nonce
             PROVE  q \in confirmed'
  BY DEF OldestSetFirst
<1>1. confirmed' = confirmed \cup {tx[i].request : i \in 1..Len(tx)} /\ Len(tx) \in Nat
  BY LenProperties DEF Record
<1>2. CASE r \in confirmed
  BY <1>1, <1>2 DEF OldestSetFirst
<1>3. CASE r \notin confirmed
  <2>1. PICK i \in 1..Len(tx) : r = tx[i].request
    BY <1>1, <1>3
  <2>2. q \in confirmed \/ \E j \in 1..(i - 1) : tx[j].request = q
    BY <2>1 DEF InOrder
  <2>3. 1..(i - 1) \subseteq 1..Len(tx)
    BY <1>1
  <2> QED
    BY <1>1, <2>2, <2>3
<1> QED
  BY <1>2, <1>3

\* A step that confirms nothing leaves no older oracle set behind either: a
\* new one is younger than all the others.
LEMMA IdleOldestFirst ==
  ASSUME SigningTypeOK, SigningTypeOK', Numbered, OldestSetFirst, RequestsGrow, UNCHANGED confirmed
  PROVE  OldestSetFirst'
<1> SUFFICES ASSUME NEW r \in confirmed, NEW q \in live',
                    r.kind = "oracleSet", q.kind = "oracleSet", q.nonce < r.nonce
             PROVE  q \in confirmed
  BY DEF OldestSetFirst
<1>1. r.nonce \in Nat /\ q.nonce \in Nat /\ lastNonce["oracleSet"] \in Nat
  BY DEF SigningTypeOK, RequestsTypeOK, Requests, Kinds
<1>2. r.nonce <= lastNonce["oracleSet"]
  BY DEF Numbered
<1>3. ~(q.nonce > lastNonce[q.kind])
  BY <1>1, <1>2
<1>4. q \in live
  BY <1>3 DEF RequestsGrow
<1> QED
  BY <1>4 DEF OldestSetFirst

\* The signatures of the pending oracle sets are in order.
LEMMA SignedInOrder ==
  ASSUME SigningTypeOK, Numbered, NEW s \in Signed(PendingRequests("oracleSet"))
  PROVE  s \in Seq(Confirms) /\ InOrder(s)
<1> DEFINE rs == PendingRequests("oracleSet")
<1>1. rs \in SUBSET Requests /\ Cardinality(rs) \in Nat
  BY PendingFinite DEF SigningTypeOK, Numbered, Kinds
<1>2. /\ s \in Seq(Confirms) /\ Len(s) = Cardinality(rs)
      /\ \A i \in 1..Len(s) : s[i].request \in rs
      /\ \A r \in rs : \E i \in 1..Len(s) : s[i].request = r
      /\ \A i, j \in 1..Len(s) : i < j => s[i].request.nonce < s[j].request.nonce
  BY <1>1, SignedType DEF SigningTypeOK, SignerTypeOK
<1>3. ASSUME NEW i \in 1..Len(s)
      PROVE  s[i].request.nonce <= lastNonce[s[i].request.kind]
  <2>1. s[i].request \in live
    BY <1>2 DEF PendingRequests
  <2> QED
    BY <2>1 DEF Numbered
<1>4. ASSUME NEW i \in 1..Len(s), NEW q \in live, q.kind = "oracleSet",
             q.nonce < s[i].request.nonce, q \notin confirmed
      PROVE  \E j \in 1..(i - 1) : s[j].request = q
  <2>1. q \in rs
    BY <1>4 DEF PendingRequests
  <2>2. PICK j \in 1..Len(s) : s[j].request = q
    BY <1>2, <2>1
  <2>3. q.nonce \in Nat /\ s[i].request.nonce \in Nat
    BY <1>1, <1>2, <2>1 DEF Requests
  <2>4. ~(i < j)
    BY <1>2, <1>4, <2>2, <2>3
  <2>5. i # j
    BY <1>4, <2>2, <2>3
  <2>6. j \in 1..(i - 1)
    BY <2>4, <2>5
  <2> QED
    BY <2>2, <2>6
<1> QED
  BY <1>2, <1>3, <1>4 DEF InOrder

\* Nothing is in order.
LEMMA NothingInOrder == ASSUME NEW s, Len(s) = 0 PROVE InOrder(s)
BY DEF InOrder

\* The messages stay in order when they do not change.
LEMMA ConfirmsStay ==
  ASSUME SigningTypeOK, Numbered, SigningTypeOK', RequestsGrow, OrderInv, UNCHANGED confirms
  PROVE  InOrder(confirms)'
<1>1. confirms \in Seq(Confirms) /\ InOrder(confirms)
  BY DEF SigningTypeOK, SignerTypeOK, OrderInv
<1>2. \A tx \in {confirms} : InOrder(tx)'
  BY <1>1, OrderStays
<1> QED
  BY <1>2 DEF InOrder

\* What is on its way stays in order, unless something joins it.
LEMMA UnansweredStay ==
  ASSUME SigningTypeOK, Numbered, SigningTypeOK', RequestsGrow, OrderInv, unanswered' \subseteq unanswered
  PROVE  (\A tx \in unanswered : InOrder(tx))'
<1> SUFFICES ASSUME NEW tx \in unanswered' PROVE InOrder(tx)'
  OBVIOUS
<1>1. tx \in Seq(Confirms) /\ InOrder(tx)
  BY DEF SigningTypeOK, RequestsTypeOK, OrderInv
<1> QED
  BY <1>1, OrderStays

\* Dropping the messages keeps the order.
LEMMA ForgetOrdered ==
  ASSUME SigningTypeOK, Numbered, SigningTypeOK', RequestsGrow, OrderInv, Forget, unanswered' \subseteq unanswered
  PROVE  OrderInv'
<1>1. Len(confirms') = 0 /\ sent' = 0
  BY EmptySeq DEF Forget
<1>2. InOrder(confirms)'
  BY <1>1 DEF InOrder
<1>3. (\A tx \in unanswered : InOrder(tx))'
  BY UnansweredStay
<1> QED
  BY <1>1, <1>2, <1>3 DEF OrderInv

\* Keeping the messages keeps the order.
LEMMA KeepOrdered ==
  ASSUME SigningTypeOK, Numbered, SigningTypeOK', RequestsGrow, OrderInv,
         UNCHANGED <<confirms, sent>>, unanswered' \subseteq unanswered
  PROVE  OrderInv'
<1>1. InOrder(confirms)'
  BY ConfirmsStay
<1>2. (\A tx \in unanswered : InOrder(tx))'
  BY UnansweredStay
<1>3. \A i \in 1..sent : confirms[i].request \in confirmed'
  BY DEF OrderInv, RequestsGrow
<1> QED
  BY <1>1, <1>2, <1>3 DEF OrderInv

\* A chunk that is accepted.
LEMMA SendKeepsOrder ==
  ASSUME SigningInv, SendConfirms, SigningTypeOK', RequestsGrow
  PROVE  OrderInv' /\ OldestSetFirst'
<1> USE DEF SigningInv
<1>1. NextConfirms \in Seq(Confirms) /\ InOrder(NextConfirms)
  BY ChunkShape, ChunkInOrder DEF SigningTypeOK
<1>2. OldestSetFirst'
  BY <1>1, RecordOldestFirst DEF SendConfirms
<1>3. CASE ConfirmEnd = Len(confirms)
  <2>1. Forget /\ unanswered' \subseteq unanswered
    BY <1>3 DEF SendConfirms
  <2> QED
    BY <1>2, <2>1, ForgetOrdered
<1>4. CASE ConfirmEnd # Len(confirms)
  <2>1. sent' = ConfirmEnd /\ UNCHANGED <<confirms, unanswered>>
    BY <1>4 DEF SendConfirms
  <2>2. InOrder(confirms)' /\ (\A tx \in unanswered : InOrder(tx))'
    BY <2>1, ConfirmsStay, UnansweredStay
  <2>3. ASSUME NEW i \in 1..ConfirmEnd PROVE confirms[i].request \in confirmed'
    <3>1. CASE i <= sent
      <4>1. i \in 1..sent
        BY <3>1, ConfirmEndRange DEF SigningTypeOK
      <4> QED
        BY <4>1 DEF OrderInv, RequestsGrow
    <3>2. CASE i > sent
      <4>1. PICK j \in 1..Len(NextConfirms) : i = sent + j
        <5>1. i - sent \in 1..Len(NextConfirms) /\ i = sent + (i - sent)
          BY <3>2, ChunkShape, ConfirmEndRange DEF SigningTypeOK
        <5> QED
          BY <5>1
      <4>2. NextConfirms[j] = confirms[i]
        BY <4>1, ChunkShape DEF SigningTypeOK
      <4>3. NextConfirms[j].request \in confirmed'
        BY <4>1 DEF SendConfirms, Record
      <4> QED
        BY <4>2, <4>3
    <3> QED
      BY <3>1, <3>2, ConfirmEndRange DEF SigningTypeOK
  <2> QED
    BY <1>2, <2>1, <2>2, <2>3 DEF OrderInv
<1> QED
  BY <1>3, <1>4

\* The invariant holds at the start.
LEMMA SigningInitInv == SigningInit => SigningInv
<1> SUFFICES ASSUME SigningInit PROVE SigningInv
  OBVIOUS
<1>1. SigningTypeOK /\ Numbered
  BY InitTyped
<1>2. Len(confirms) = 0 /\ sent = 0 /\ unanswered = {} /\ live = {}
  BY EmptySeq DEF SigningInit, SignerInit, RequestsInit
<1>3. OrderInv /\ OldestSetFirst
  BY <1>2, NothingInOrder DEF OrderInv, OldestSetFirst
<1> QED
  BY <1>1, <1>3 DEF SigningInv

\* Every step keeps the invariant.
LEMMA StepInv == SigningInv /\ [SigningNext]_signingVars => SigningInv'
<1> SUFFICES ASSUME SigningInv, [SigningNext]_signingVars PROVE SigningInv'
  OBVIOUS
<1>1. SigningTypeOK /\ Numbered /\ OrderInv /\ OldestSetFirst
  BY DEF SigningInv
<1>2. SigningTypeOK' /\ Numbered'
  BY <1>1, StepTyped
<1>3. RequestsGrow
  BY <1>1, StepGrows
<1>4. UNCHANGED confirmed => OldestSetFirst'
  BY <1>1, <1>2, <1>3, IdleOldestFirst
<1>5. CASE NewSinger \/ SignerPanic \/ CheckStatus \/ UNCHANGED signingVars
  <2>1. UNCHANGED <<confirmed, unanswered, confirms, sent>>
    BY <1>5 DEF NewSinger, SignerPanic, CheckStatus, signingVars, requestVars, signerVars
  <2>2. OrderInv'
    BY <1>1, <1>2, <1>3, <2>1, KeepOrdered
  <2> QED
    BY <1>2, <1>4, <2>1, <2>2 DEF SigningInv
<1>6. CASE SignOracleSets
  <2> DEFINE rs == PendingRequests("oracleSet")
  <2>1. UNCHANGED <<live, lastNonce, confirmed, unanswered>>
    BY <1>6 DEF SignOracleSets, requestVars
  <2>2. CASE rs = {}
    <3>1. OrderInv'
      BY <1>1, <1>2, <1>3, <1>6, <2>1, <2>2, KeepOrdered DEF SignOracleSets
    <3> QED
      BY <1>2, <1>4, <2>1, <3>1 DEF SigningInv
  <2>3. CASE rs # {}
    <3>1. confirms' \in Signed(rs) /\ sent' = 0
      BY <1>6, <2>3 DEF SignOracleSets
    <3>2. InOrder(confirms')
      BY <1>1, <3>1, SignedInOrder
    <3>3. InOrder(confirms)'
      BY <2>1, <3>2 DEF InOrder
    <3>4. OrderInv'
      BY <1>1, <2>1, <3>1, <3>3, <1>2, <1>3, UnansweredStay DEF OrderInv
    <3> QED
      BY <1>2, <1>4, <2>1, <3>4 DEF SigningInv
  <2> QED
    BY <2>2, <2>3
<1>7. CASE SignBatch
  <2> DEFINE rs == PendingRequests("batch")
  <2>1. UNCHANGED <<live, lastNonce, confirmed, unanswered>>
    BY <1>7 DEF SignBatch, requestVars
  <2>2. CASE rs = {}
    <3>1. OrderInv'
      BY <1>1, <1>2, <1>3, <1>7, <2>1, <2>2, KeepOrdered DEF SignBatch
    <3> QED
      BY <1>2, <1>4, <2>1, <3>1 DEF SigningInv
  <2>3. CASE rs # {}
    <3>1. PICK r \in rs : confirms' = <<Sign(r)>> /\ sent' = 0
      BY <1>7, <2>3 DEF SignBatch
    <3>2. r \in live /\ r.kind = "batch"
      BY <3>1 DEF PendingRequests
    <3>3. Len(confirms') = 1 /\ confirms'[1].request = r
      BY <3>1 DEF Sign
    <3>4. InOrder(confirms')
      BY <1>1, <3>2, <3>3 DEF InOrder, Numbered
    <3>5. InOrder(confirms)'
      BY <2>1, <3>4 DEF InOrder
    <3>6. OrderInv'
      BY <1>1, <1>2, <1>3, <2>1, <3>1, <3>5, UnansweredStay DEF OrderInv
    <3> QED
      BY <1>2, <1>4, <2>1, <3>6 DEF SigningInv
  <2> QED
    BY <2>2, <2>3
<1>8. CASE SendConfirms
  BY <1>2, <1>3, <1>8, SendKeepsOrder DEF SigningInv
<1>9. CASE ConfirmUnanswered
  <2>1. unanswered' = unanswered \cup {NextConfirms} /\ Forget /\ UNCHANGED <<live, confirmed, lastNonce>>
    BY <1>9 DEF ConfirmUnanswered
  <2>2. InOrder(NextConfirms)
    BY <1>1, ChunkInOrder
  <2>3. ASSUME NEW tx \in unanswered' PROVE InOrder(tx)'
    <3>1. InOrder(tx)
      BY <1>1, <2>1, <2>2, <2>3 DEF OrderInv
    <3> QED
      BY <2>1, <3>1 DEF InOrder
  <2>4. Len(confirms') = 0 /\ sent' = 0
    BY <2>1, EmptySeq DEF Forget
  <2>5. OrderInv'
    BY <2>3, <2>4 DEF OrderInv, InOrder
  <2> QED
    BY <1>2, <1>4, <2>1, <2>5 DEF SigningInv
<1>10. CASE ConfirmFails \/ SignerCrash
  <2>1. Forget /\ UNCHANGED <<confirmed, unanswered>>
    BY <1>10 DEF ConfirmFails, SignerCrash, requestVars
  <2>2. OrderInv'
    BY <1>1, <1>2, <1>3, <2>1, ForgetOrdered
  <2> QED
    BY <1>2, <1>4, <2>1, <2>2 DEF SigningInv
<1>11. CASE RequestsNext /\ UNCHANGED signerVars
  <2>1. UNCHANGED <<confirms, sent>>
    BY <1>11 DEF signerVars
  <2>2. unanswered' \subseteq unanswered
    BY <1>11 DEF RequestsNext, NewRequest, RequestGone, ParamsChange, OracleChanges, LateConfirm, LostConfirm
  <2>3. OrderInv'
    BY <1>1, <1>2, <1>3, <2>1, <2>2, KeepOrdered
  <2>4. ASSUME NEW tx \in unanswered, LateConfirm(tx) PROVE OldestSetFirst'
    <3>1. tx \in Seq(Confirms) /\ InOrder(tx)
      BY <1>1 DEF OrderInv, SigningTypeOK, RequestsTypeOK
    <3> QED
      BY <1>1, <2>4, <3>1, RecordOldestFirst DEF LateConfirm
  <2>5. (\E tx \in unanswered : LateConfirm(tx)) \/ UNCHANGED confirmed
    BY <1>11 DEF RequestsNext, NewRequest, RequestGone, ParamsChange, OracleChanges, LostConfirm
  <2>6. OldestSetFirst'
    BY <1>4, <2>4, <2>5
  <2> QED
    BY <1>2, <2>3, <2>6 DEF SigningInv
<1> QED
  BY <1>5, <1>6, <1>7, <1>8, <1>9, <1>10, <1>11 DEF SigningNext, Confirm

-----------------------------------------------------------------------------
(* The abstract signer.                                                    *)

\* The next chunk has at most ConfirmChunk messages.
LEMMA ChunkShort ==
  ASSUME SignerTypeOK
  PROVE  Len(NextConfirms) <= ConfirmChunk
<1>1. Len(confirms) \in Nat /\ sent \in Nat
  BY ConfirmEndRange
<1>2. ConfirmEnd - sent <= ConfirmChunk
  BY <1>1, SingerAssumption DEF ConfirmEnd
<1> QED
  BY <1>2, ChunkShape

\* No step puts more than a chunk on its way.
LEMMA ShortStays ==
  ASSUME SigningTypeOK, UnansweredShort, [SigningNext]_signingVars
  PROVE  UnansweredShort'
<1>1. CASE ConfirmUnanswered
  <2>1. unanswered' = unanswered \cup {NextConfirms} /\ Len(NextConfirms) <= ConfirmChunk
    BY <1>1, ChunkShort DEF ConfirmUnanswered, SigningTypeOK
  <2> QED
    BY <2>1 DEF UnansweredShort
<1>2. CASE ~ConfirmUnanswered
  <2>1. unanswered' \subseteq unanswered
    BY <1>2 DEF SigningNext, Confirm, NewSinger, SignerPanic, CheckStatus, SignOracleSets, SignBatch, SendConfirms,
                ConfirmFails, SignerCrash, signingVars, requestVars, RequestsNext, NewRequest, RequestGone,
                ParamsChange, OracleChanges, LateConfirm, LostConfirm
  <2> QED
    BY <2>1 DEF UnansweredShort
<1> QED
  BY <1>1, <1>2

\* The requests of a transaction are no more than its messages.
LEMMA RequestsOfTx ==
  ASSUME NEW tx \in Seq(Confirms), NEW new \in SUBSET {tx[i].request : i \in 1..Len(tx)}
  PROVE  IsFiniteSet(new) /\ Cardinality(new) \in Nat /\ Cardinality(new) <= Len(tx)
<1> DEFINE all == {tx[i].request : i \in 1..Len(tx)}
           f == [i \in 1..Len(tx) |-> tx[i].request]
<1>1. Len(tx) \in Nat /\ IsFiniteSet(1..Len(tx)) /\ Cardinality(1..Len(tx)) = Len(tx)
  <2>1. Len(tx) \in Nat
    BY LenProperties
  <2>2. 1 > Len(tx) <=> Len(tx) = 0
    BY <2>1
  <2>3. IsFiniteSet(1..Len(tx)) /\ Cardinality(1..Len(tx)) = IF 1 > Len(tx) THEN 0 ELSE Len(tx) - 1 + 1
    BY <2>1, FS_Interval
  <2> QED
    BY <2>1, <2>2, <2>3
<1>2. f \in Surjection(1..Len(tx), all)
  BY DEF Surjection
<1>3. IsFiniteSet(all) /\ Cardinality(all) <= Len(tx)
  <2> HIDE DEF all, f
  <2>1. IsFiniteSet(all) /\ Cardinality(all) <= Cardinality(1..Len(tx))
    BY <1>1, <1>2, FS_Surjection
  <2> QED
    BY <1>1, <2>1
<1>4. IsFiniteSet(new) /\ Cardinality(new) <= Cardinality(all)
  BY <1>3, FS_Subset
<1>5. Cardinality(new) \in Nat /\ Cardinality(all) \in Nat
  BY <1>3, <1>4, FS_CardinalityType
<1> QED
  BY <1>1, <1>3, <1>4, <1>5

\* A transaction that is recorded, sent just now or long ago, is a step of the
\* abstract signer.
LEMMA RecordConfirms ==
  ASSUME SigningTypeOK, NEW tx \in Seq(Confirms), InOrder(tx), Len(tx) <= ConfirmChunk,
         Record(tx), UNCHANGED <<live, lastNonce>>
  PROVE  Duty!Confirm
<1> DEFINE new == confirmed' \ confirmed
<1>1. /\ confirmed' = confirmed \cup {tx[i].request : i \in 1..Len(tx)}
      /\ \A i \in 1..Len(tx) : tx[i].request \in live
  BY DEF Record, Accepts
<1>2. confirmed \subseteq confirmed' /\ new \subseteq live
  BY <1>1
<1>3. Cardinality(new) <= ConfirmChunk
  <2>1. new \in SUBSET {tx[i].request : i \in 1..Len(tx)}
    BY <1>1
  <2>2. Cardinality(new) \in Nat /\ Cardinality(new) <= Len(tx) /\ Len(tx) \in Nat
    BY <2>1, RequestsOfTx, LenProperties
  <2> QED
    BY <2>2, SingerAssumption
<1>4. ASSUME NEW r \in new, NEW q \in live \ confirmed', r.kind = "oracleSet", q.kind = "oracleSet"
      PROVE  r.nonce <= q.nonce
  <2>1. PICK i \in 1..Len(tx) : r = tx[i].request
    BY <1>1
  <2>2. Len(tx) \in Nat /\ r.nonce \in Nat /\ q.nonce \in Nat
    BY <1>2, LenProperties DEF SigningTypeOK, RequestsTypeOK, Requests
  <2>3. q \notin confirmed /\ ~(\E j \in 1..(i - 1) : tx[j].request = q)
    BY <1>1, <2>2
  <2>4. ~(q.nonce < r.nonce)
    BY <1>4, <2>1, <2>3 DEF InOrder
  <2> QED
    BY <2>2, <2>4
<1>5. \A r \in new, q \in live \ confirmed' :
        r.kind = "oracleSet" /\ q.kind = "oracleSet" => r.nonce <= q.nonce
  BY <1>4
<1>6. Duty!Cardinality(new) = Cardinality(new)
  BY DEF Duty!Cardinality, Cardinality
<1> QED
  BY <1>2, <1>3, <1>5, <1>6 DEF Duty!Confirm

\* f(x)Core's own steps.
LEMMA RequestsDuty ==
  ASSUME SigningInv, UnansweredShort, RequestsNext
  PROVE  Duty!Next \/ UNCHANGED <<live, lastNonce, confirmed>>
<1> USE DEF SigningInv
<1>1. ASSUME NEW kind \in Kinds, NewRequest(kind)
      PROVE  Duty!Next
  <2> DEFINE r == [kind |-> kind, nonce |-> lastNonce[kind] + 1]
  <2>1. r \in live' /\ r.kind = kind /\ r.nonce > lastNonce[r.kind]
    BY <1>1 DEF NewRequest, SigningTypeOK, RequestsTypeOK
  <2>2. Duty!Ask(r)
    BY <1>1, <2>1 DEF NewRequest, Duty!Ask
  <2> QED
    BY <2>1, <2>2 DEF Duty!Next
<1>2. ASSUME NEW r \in live, RequestGone(r)
      PROVE  Duty!Next
  BY <1>2 DEF RequestGone, Duty!Next, Duty!Withdraw
<1>3. ASSUME NEW tx \in unanswered, LateConfirm(tx)
      PROVE  Duty!Next
  <2>1. tx \in Seq(Confirms) /\ InOrder(tx) /\ Len(tx) <= ConfirmChunk
    BY DEF OrderInv, SigningTypeOK, RequestsTypeOK, UnansweredShort
  <2>2. Duty!Confirm
    BY <1>3, <2>1, RecordConfirms DEF LateConfirm
  <2> QED
    BY <2>2 DEF Duty!Next
<1> QED
  BY <1>1, <1>2, <1>3 DEF RequestsNext, ParamsChange, OracleChanges, LostConfirm

\* Every step of the signer is one of the abstract signer, or a stutter.
LEMMA DutyStep ==
  SigningInv /\ UnansweredShort /\ [SigningNext]_signingVars => [Duty!Next]_<<live, lastNonce, confirmed>>
<1> SUFFICES ASSUME SigningInv, UnansweredShort, [SigningNext]_signingVars
             PROVE  Duty!Next \/ UNCHANGED <<live, lastNonce, confirmed>>
  OBVIOUS
<1>1. CASE SendConfirms
  <2>1. NextConfirms \in Seq(Confirms) /\ InOrder(NextConfirms) /\ Len(NextConfirms) <= ConfirmChunk
    BY ChunkShape, ChunkShort, ChunkInOrder DEF SigningInv, SigningTypeOK
  <2>2. Duty!Confirm
    BY <1>1, <2>1, RecordConfirms DEF SendConfirms, SigningInv
  <2> QED
    BY <2>2 DEF Duty!Next
<1>2. CASE RequestsNext /\ UNCHANGED signerVars
  BY <1>2, RequestsDuty
<1>3. CASE NewSinger \/ SignerPanic \/ CheckStatus \/ SignOracleSets \/ SignBatch
             \/ ConfirmUnanswered \/ ConfirmFails \/ SignerCrash \/ UNCHANGED signingVars
  BY <1>3 DEF NewSinger, SignerPanic, CheckStatus, SignOracleSets, SignBatch, ConfirmUnanswered,
              ConfirmFails, SignerCrash, signingVars, requestVars
<1> QED
  BY <1>1, <1>2, <1>3 DEF SigningNext, Confirm

-----------------------------------------------------------------------------
(* The theorems.                                                           *)

\* The signer's inductive invariant: messages, and transactions on their way,
\* list the oracle sets oldest first (the sort in singerOracleSetConfirm).
THEOREM SigningInductive == SigningSpec => []SigningInv
BY SigningInitInv, StepInv, PTL DEF SigningSpec

\* The state stays well typed: in particular BatchSendMsg never cuts beyond
\* the end of its messages.
THEOREM SigningTypeCorrect == SigningSpec => []SigningTypeOK
<1>1. SigningInv => SigningTypeOK
  BY DEF SigningInv
<1> QED
  BY <1>1, SigningInductive, PTL

\* No oracle set waits for this bridger's signature while a newer one has it,
\* for any chunk size, with any number of unanswered transactions.
THEOREM OldestFirst == SigningSpec => []OldestSetFirst
<1>1. SigningInv => OldestSetFirst
  BY DEF SigningInv
<1> QED
  BY <1>1, SigningInductive, PTL

\* The signer implements the abstract one: retries, late transactions, chunks
\* and changes of the parameters add nothing to what its users see.
THEOREM DutyImplemented == SigningSpec => ImplementsSigningDuty
<1>1. SigningInit => Duty!Init /\ UnansweredShort
  BY DEF SigningInit, RequestsInit, Duty!Init, UnansweredShort
<1>2. SigningInv /\ UnansweredShort /\ [SigningNext]_signingVars => UnansweredShort'
  BY ShortStays DEF SigningInv
<1> QED
  BY <1>1, <1>2, DutyStep, SigningInductive, PTL DEF SigningSpec, ImplementsSigningDuty, Duty!Spec

\* What is sent for the pending oracle sets depends on the requests only, never
\* on the order in which f(x)Core lists them; and the sort gives a result
\* whatever they are.
THEOREM SignaturesDetermined ==
  SigningSpec => [](at = "oracleSets" =>
                      \E s : Signed(PendingRequests("oracleSet")) = {s})
<1> DEFINE rs == PendingRequests("oracleSet")
<1>1. SigningInv => \E s : Signed(rs) = {s}
  <2> SUFFICES ASSUME SigningInv PROVE \E s : Signed(rs) = {s}
    OBVIOUS
  <2>1. rs \in SUBSET Requests /\ IsFiniteSet(rs)
    BY PendingFinite DEF SigningInv, SigningTypeOK, Numbered, Kinds
  <2>2. ASSUME NEW r \in rs, NEW q \in rs, r.nonce = q.nonce PROVE r = q
    <3>1. r.kind = "oracleSet" /\ q.kind = "oracleSet"
      BY DEF PendingRequests
    <3>2. r \in Requests /\ q \in Requests
      BY <2>1
    <3> QED
      BY <2>2, <3>1, <3>2 DEF Requests
  <2> QED
    BY <2>1, <2>2, OneSignedList
<1> QED
  BY <1>1, SigningInductive, PTL

-----------------------------------------------------------------------------
(* The gravityId of the process.                                           *)

\* While chunks are sent there is one left to send, otherwise there are no
\* messages, and all are signed for the gravityId that the process read.
ChunksInv ==
  /\ IF SendingConfirms THEN sent < Len(confirms) ELSE Len(confirms) = 0
  /\ \A i \in 1..Len(confirms) : confirms[i].gravityId = cachedId

\* Every step keeps it.
LEMMA ChunksKept ==
  ASSUME SigningInv, SigningTypeOK', ChunksInv, [SigningNext]_signingVars
  PROVE  ChunksInv'
<1> USE DEF SigningInv, SigningTypeOK
<1>1. ASSUME Forget, at' \notin {"sendOracleSets", "sendBatch"} PROVE ChunksInv'
  <2>1. Len(confirms') = 0
    BY <1>1, EmptySeq DEF Forget
  <2> QED
    BY <1>1, <2>1 DEF ChunksInv, SendingConfirms
<1>2. ASSUME UNCHANGED <<confirms, sent>>, SendingConfirms' = SendingConfirms,
             cachedId' = cachedId \/ Len(confirms) = 0
      PROVE  ChunksInv'
  BY <1>2 DEF ChunksInv
<1>3. CASE NewSinger \/ CheckStatus \/ SignerPanic
  BY <1>2, <1>3 DEF NewSinger, CheckStatus, SignerPanic, SendingConfirms, ChunksInv
<1>4. CASE SignOracleSets
  <2> DEFINE rs == PendingRequests("oracleSet")
  <2>1. CASE rs = {}
    BY <1>2, <1>4, <2>1 DEF SignOracleSets, SendingConfirms
  <2>2. CASE rs # {}
    <3>1. confirms' \in Signed(rs) /\ sent' = 0 /\ at' = "sendOracleSets" /\ cachedId' = cachedId
      BY <1>4, <2>2 DEF SignOracleSets
    <3>2. rs \in SUBSET Requests /\ Cardinality(rs) \in Nat
      BY PendingFinite DEF Numbered, Kinds
    <3>3. /\ Len(confirms') = Cardinality(rs)
          /\ \A r \in rs : \E i \in 1..Len(confirms') : confirms'[i].request = r
      BY <3>1, <3>2, SignedType DEF SignerTypeOK
    <3>4. 0 < Len(confirms')
      BY <2>2, <3>2, <3>3
    <3>5. ASSUME NEW i \in 1..Len(confirms') PROVE confirms'[i].gravityId = cachedId
      <4>1. PICK r \in rs : confirms'[i] = Sign(r)
        BY <3>1, <3>3 DEF Signed
      <4> QED
        BY <4>1 DEF Sign
    <3> QED
      BY <3>1, <3>4, <3>5 DEF ChunksInv, SendingConfirms
  <2> QED
    BY <2>1, <2>2
<1>5. CASE SignBatch
  <2>1. CASE PendingRequests("batch") = {}
    BY <1>2, <1>5, <2>1 DEF SignBatch, SendingConfirms
  <2>2. CASE PendingRequests("batch") # {}
    <3>1. PICK r : confirms' = <<Sign(r)>>
      BY <1>5, <2>2 DEF SignBatch
    <3>2. Len(confirms') = 1 /\ confirms'[1] = Sign(r)
      BY <3>1
    <3>3. sent' = 0 /\ at' = "sendBatch" /\ cachedId' = cachedId
      BY <1>5, <2>2 DEF SignBatch
    <3>4. Sign(r).gravityId = cachedId
      BY DEF Sign
    <3> QED
      BY <3>2, <3>3, <3>4 DEF ChunksInv, SendingConfirms
  <2> QED
    BY <2>1, <2>2
<1>6. CASE SendConfirms
  <2>1. CASE ConfirmEnd = Len(confirms)
    BY <1>1, <1>6, <2>1 DEF SendConfirms, After, SendingConfirms
  <2>2. CASE ConfirmEnd # Len(confirms)
    <3>1. ConfirmEnd < Len(confirms)
      BY <2>2, ConfirmEndRange
    <3>2. /\ sent' = ConfirmEnd /\ at' = at /\ confirms' = confirms /\ cachedId' = cachedId
          /\ SendingConfirms
      BY <1>6, <2>2 DEF SendConfirms
    <3>3. SendingConfirms' /\ sent' < Len(confirms')
      BY <3>1, <3>2 DEF SendingConfirms
    <3> QED
      BY <3>2, <3>3 DEF ChunksInv
  <2> QED
    BY <2>1, <2>2
<1>7. CASE ConfirmUnanswered \/ ConfirmFails \/ SignerCrash
  BY <1>1, <1>7 DEF ConfirmUnanswered, ConfirmFails, SignerCrash, After
<1>8. CASE (RequestsNext /\ UNCHANGED signerVars) \/ UNCHANGED signingVars
  BY <1>2, <1>8 DEF signerVars, signingVars, SendingConfirms
<1> QED
  BY <1>3, <1>4, <1>5, <1>6, <1>7, <1>8 DEF SigningNext, Confirm

\* With a gravityId that has changed nothing that the process sends is taken,
\* on this tick and on every later one; and no chunk is without a message.
THEOREM StaleIdConfirmsNothing == SigningSpec => ConfirmsAreCurrent
<1>1. SigningInit => ChunksInv
  BY EmptySeq DEF SigningInit, SignerInit, ChunksInv, SendingConfirms
<1>2. SigningInv /\ SigningInv' /\ ChunksInv /\ [SigningNext]_signingVars => ChunksInv'
  BY ChunksKept DEF SigningInv
<1>3. ASSUME SigningInv, ChunksInv, SendConfirms
      PROVE  cachedId = gravityId /\ Len(NextConfirms) > 0
  <2> USE <1>3 DEF SigningInv, SigningTypeOK
  <2>1. Len(confirms) \in Nat /\ sent \in Nat /\ sent < Len(confirms)
    BY ConfirmEndRange DEF SendConfirms, ChunksInv
  <2>2. /\ Len(NextConfirms) = ConfirmEnd - sent
        /\ \A i \in 1..Len(NextConfirms) : sent + i \in 1..Len(confirms) /\ NextConfirms[i] = confirms[sent + i]
    BY ChunkShape
  <2>3. sent < ConfirmEnd /\ ConfirmEnd \in Nat
    BY <2>1, SingerAssumption, ConfirmEndRange DEF ConfirmEnd
  <2>4. 1 \in 1..Len(NextConfirms)
    BY <2>1, <2>2, <2>3
  <2>5. NextConfirms[1].gravityId = cachedId
    BY <2>2, <2>4 DEF ChunksInv
  <2>6. NextConfirms[1].gravityId = gravityId
    BY <2>4 DEF SendConfirms, Record, Accepts
  <2> QED
    BY <2>1, <2>2, <2>3, <2>5, <2>6
<1>4. SigningInv /\ ChunksInv /\ [SigningNext]_signingVars
        => [SendConfirms => cachedId = gravityId /\ Len(NextConfirms) > 0]_signingVars
  BY <1>3
<1> QED
  BY <1>1, <1>2, <1>4, SigningInductive, PTL DEF SigningSpec, ConfirmsAreCurrent
=============================================================================
