--------------------------- MODULE TronCallsProofs ---------------------------
(***************************************************************************)
(* Proofs about module TronCalls: the arithmetic of GetLimit, the wait of  *)
(* WithMint and the loop of StateFxBridgeId, for every width of the words, *)
(* every price and energy, every timeout and pause.                        *)
(***************************************************************************)
EXTENDS TronCalls, SequenceFacts

(***************************************************************************)
(* The arithmetic of GetLimit.                                             *)
(***************************************************************************)

\* int64(n) is an int64, and n itself if that is one that is not negative.
LEMMA Int64Facts ==
  ASSUME NEW n \in Int
  PROVE  /\ Int64(n) \in Int /\ -I64 <= Int64(n) /\ Int64(n) < I64
         /\ n \in 0..I64-1 => Int64(n) = n
<1> DEFINE low == n % (2 * I64)
<1>1. 2 * I64 \in Nat /\ 2 * I64 > 0
  BY TxAssumption
<1>2. low \in 0..(2 * I64 - 1)
  BY <1>1
<1>3. n \in 0..I64-1 => low = n
  <2> HAVE n \in 0..I64-1
  <2>1. 0 <= n /\ n < 2 * I64
    BY TxAssumption
  <2> QED
    BY <2>1, <1>1
<1>4. Int64(n) = IF low < I64 THEN low ELSE low - 2 * I64
  BY DEF Int64
<1> HIDE DEF low
<1> QED
  BY <1>2, <1>3, <1>4, TxAssumption

\* Quotient gives an integer.
LEMMA QuotientInt ==
  ASSUME NEW n \in Int
  PROVE  Quotient(n, 10) \in Int
BY DEF Quotient

\* The limit is an int64 whatever the numbers; below 2^62 it is the product
\* and a fifth of it, rounded down.
LEMMA GetLimitFacts ==
  ASSUME NEW price \in Nat, NEW units \in Nat
  PROVE  /\ GetLimit(price, units) \in Int /\ GetLimit(price, units) < I64
         /\ 2 * units * price < I64 =>
              GetLimit(price, units) = units * price + (2 * units * price) \div 10
<1> DEFINE cost == units * price
           limit == Int64(cost)
           fifth == Quotient(Int64(limit * 2), 10)
<1>1. cost \in Nat
  BY DEF cost
<1>2. 2 * units * price = 2 * cost /\ units * price = cost
  OBVIOUS
<1>3. GetLimit(price, units) = Int64(fifth + limit)
  BY DEF GetLimit
<1> HIDE DEF cost
<1>4. limit \in Int
  BY <1>1, Int64Facts
<1> HIDE DEF limit
<1>5. fifth \in Int
  BY <1>4, Int64Facts, QuotientInt
<1>6. GetLimit(price, units) \in Int /\ GetLimit(price, units) < I64
  <2> HIDE DEF fifth
  <2> QED
    BY <1>3, <1>4, <1>5, Int64Facts
<1>7. ASSUME 2 * cost < I64
      PROVE  GetLimit(price, units) = cost + (2 * cost) \div 10
  <2>1. I64 \in Nat
    BY TxAssumption
  <2>2. cost \in 0..I64-1 /\ 2 * cost \in 0..I64-1
    BY <2>1, <1>1, <1>7
  <2>3. limit = cost
    BY <2>2, Int64Facts DEF limit
  <2>4. Int64(limit * 2) = 2 * cost
    <3>1. limit * 2 = 2 * cost
      BY <2>3, <1>1
    <3> QED
      BY <3>1, <2>2, Int64Facts
  <2>5. fifth = (2 * cost) \div 10
    BY <2>4, <1>1 DEF Quotient
  <2>6. (2 * cost) \div 10 \in Nat /\ 10 * ((2 * cost) \div 10) <= 2 * cost
    BY <1>1
  <2> DEFINE f == (2 * cost) \div 10
  <2> HIDE DEF f, fifth
  <2>7. f + cost \in 0..I64-1
    BY <2>1, <2>6, <1>1, <1>7 DEF f
  <2>8. Int64(fifth + limit) = f + cost
    BY <2>3, <2>5, <2>7, Int64Facts DEF f
  <2> QED
    BY <2>8, <1>3, <2>6, <1>1 DEF f
<1> QED
  BY <1>2, <1>6, <1>7

\* Such a limit covers the energy at any price up to a fifth higher, and is
\* not more than that.
LEMMA FifthCovers ==
  ASSUME NEW price \in Nat, NEW units \in Nat, NEW limit \in Int,
         limit = units * price + (2 * units * price) \div 10
  PROVE  /\ 5 * limit <= 6 * units * price
         /\ \A risen \in Nat : 5 * risen <= 6 * price => units * risen <= limit
<1> DEFINE cost == units * price
           f == (2 * cost) \div 10
<1>1. cost \in Nat /\ 2 * units * price = 2 * cost /\ 6 * units * price = 6 * cost
  OBVIOUS
<1>2. limit = cost + f
  BY <1>1
<1>3. \A risen \in Nat : 5 * risen <= 6 * price =>
        units * risen \in Nat /\ 5 * (units * risen) <= 6 * cost
  <2> SUFFICES ASSUME NEW risen \in Nat, 5 * risen <= 6 * price
               PROVE  units * risen \in Nat /\ 5 * (units * risen) <= 6 * cost
    OBVIOUS
  <2> DEFINE rest == 6 * price - 5 * risen
  <2>1. rest \in Nat
    OBVIOUS
  <2>2. units * rest \in Nat
    <3> HIDE DEF rest
    <3> QED BY <2>1
  <2>3. units * rest = 6 * (units * price) - 5 * (units * risen)
    OBVIOUS
  <2> QED
    BY <2>2, <2>3
<1> HIDE DEF cost
<1>4. f \in Nat /\ 10 * f <= 2 * cost /\ 2 * cost < 10 * f + 10
  BY <1>1
<1> HIDE DEF f
<1>5. 5 * limit <= 6 * units * price
  BY <1>1, <1>2, <1>4
<1>6. ASSUME NEW risen \in Nat, 5 * risen <= 6 * price
      PROVE  units * risen <= limit
  BY <1>6, <1>1, <1>2, <1>3, <1>4
<1> QED
  BY <1>5, <1>6

(***************************************************************************)
(* The transaction.                                                        *)
(***************************************************************************)

\* What is known of a poll under way: it takes no longer than Latency, an
\* earlier one has missed only what was minted after it was made, or shortly
\* before this one, and so has this one once it has looked in vain.
PollInv ==
  Polling =>
    /\ askedAt <= now /\ now <= askedAt + Latency
    /\ now < TimeOut + Pause
    /\ tx.id \in minted => mintedAt + Pause + Latency >= askedAt
    /\ at = "answering" /\ ~seen /\ tx.id \in minted => mintedAt >= askedAt

\* And of the sleep after it.
SleepInv ==
  at = "sleeping" =>
    /\ now < wakeAt /\ wakeAt <= now + Pause /\ wakeAt < TimeOut + Pause
    /\ tx.id \in minted => mintedAt + Pause + Latency >= wakeAt

\* What is known of the transaction and of the wait at each call.
TxInv ==
  /\ TxTypeOK
  /\ tx.id = Hash(tx.feeLimit)
  /\ LimitCoversPriceRise
  /\ at \in {"price", "energy", "trigger", "broadcast"} => pending = {} /\ minted = {}
  /\ at \notin {"asking", "answering", "sleeping"} \cup Ends => now = 0 /\ mintedAt = 0 /\ askedAt = 0
  /\ PollInv /\ SleepInv
  /\ at = "answering" /\ seen => tx.id \in minted
  /\ minted # {} => pending = {}
  /\ at = "timedOut" => now >= TimeOut
  /\ NoMintMissed /\ WaitBounded

USE DEF Ends, Polling, Hash, answerVars, chainVars, pollVars, timeVars, txVars

LEMMA TxInitInv == TxInit => TxInv
<1> SUFFICES ASSUME TxInit
             PROVE  TxInv
  OBVIOUS
<1>1. TxTypeOK
  <2>1. seen \in BOOLEAN
    BY Zenon DEF TxInit
  <2>2. 0 \in 0..I64-1 /\ 0 \in 0..TimeOut+Pause
    BY TxAssumption
  <2> QED
    BY <2>1, <2>2 DEF TxInit, TxTypeOK
<1>2. LimitCoversPriceRise /\ PollInv /\ SleepInv /\ NoMintMissed /\ WaitBounded
  BY TxAssumption
     DEF TxInit, LimitCoversPriceRise, Triggered, PollInv, SleepInv, NoMintMissed, WaitBounded
<1> QED
  BY <1>1, <1>2 DEF TxInit, TxInv

\* The limit that GetLimit computes is the one that the property asks for.
LEMMA TriggerSetsLimit ==
  ASSUME TxInv, TriggerContract
  PROVE  /\ tx' \in [feeLimit : 0..I64-1, id : 0..I64-1]
         /\ tx'.id = tx'.feeLimit
         /\ LimitCoversPriceRise'
<1> DEFINE limit == GetLimit(gasPrice, energy)
<1>1. gasPrice \in Nat /\ energy \in Nat /\ Prices \subseteq Nat /\ I64 \in Nat \ {0}
  BY TxAssumption DEF TxInv, TxTypeOK
<1>2. gasPrice' = gasPrice /\ energy' = energy /\ tx' = Limited(limit)
  BY DEF TriggerContract
<1>3. /\ limit \in Int /\ limit < I64
      /\ 2 * energy * gasPrice < I64 =>
           limit = energy * gasPrice + (2 * energy * gasPrice) \div 10
  BY <1>1, GetLimitFacts
<1> HIDE DEF limit
<1>4. tx' \in [feeLimit : 0..I64-1, id : 0..I64-1] /\ tx'.id = tx'.feeLimit
  BY <1>1, <1>2, <1>3 DEF Limited
<1>5. ASSUME 2 * energy * gasPrice < I64
      PROVE  /\ 5 * tx'.feeLimit <= 6 * energy * gasPrice
             /\ \A risen \in Nat : 5 * risen <= 6 * gasPrice => energy * risen <= tx'.feeLimit
  <2>1. limit = energy * gasPrice + (2 * energy * gasPrice) \div 10
    BY <1>3, <1>5
  <2>2. /\ 5 * limit <= 6 * energy * gasPrice
        /\ \A risen \in Nat : 5 * risen <= 6 * gasPrice => energy * risen <= limit
    BY <1>1, <1>3, <2>1, FifthCovers
  <2>3. limit >= 0
    <3>1. energy * 0 = 0
      BY <1>1
    <3> QED
      BY <2>2, <1>1, <3>1
  <2>4. tx'.feeLimit = limit
    BY <1>2, <1>3, <2>3 DEF Limited
  <2> QED
    BY <2>2, <2>4
<1> QED
  BY <1>1, <1>2, <1>4, <1>5 DEF LimitCoversPriceRise, TriggerContract, Triggered

\* Every step keeps the invariant.
LEMMA TxNextKeepsInv ==
  ASSUME TxInv, TxNext \/ UNCHANGED txVars
  PROVE  TxInv'
<1> USE TxAssumption DEF TxInv, TxTypeOK, PollInv, SleepInv, NoMintMissed, WaitBounded
<1>1. CASE SuggestGasPrice
  BY <1>1 DEF SuggestGasPrice, LimitCoversPriceRise, Triggered
<1>2. CASE EstimateGas
  BY <1>2 DEF EstimateGas, LimitCoversPriceRise, Triggered
<1>3. CASE TriggerContract
  <2>1. /\ tx' \in [feeLimit : 0..I64-1, id : 0..I64-1]
        /\ tx'.id = tx'.feeLimit /\ LimitCoversPriceRise'
    BY <1>3, TriggerSetsLimit
  <2> QED
    BY <1>3, <2>1 DEF TriggerContract
<1>4. CASE NodeFails
  BY <1>4 DEF NodeFails, LimitCoversPriceRise, Triggered
<1>5. CASE BroadcastTx
  BY <1>5 DEF BroadcastTx, LimitCoversPriceRise, Triggered
<1>6. CASE BroadcastFails
  <2>1. minted = {} /\ minted' = {} /\ pending' \subseteq 0..I64-1
    BY <1>6 DEF BroadcastFails
  <2> QED
    BY <1>6, <2>1 DEF BroadcastFails, LimitCoversPriceRise, Triggered
<1>7. CASE Mint
  <2>1. minted = {} /\ minted' = pending /\ pending' = {} /\ mintedAt' = now
    BY <1>7 DEF Mint
  <2>2. LimitCoversPriceRise'
    BY <1>7 DEF Mint, LimitCoversPriceRise, Triggered
  <2>3. at' = at /\ tx' = tx /\ now' = now /\ wakeAt' = wakeAt /\ gasPrice' = gasPrice /\ energy' = energy
    BY <1>7 DEF Mint
  <2>4. at \notin {"price", "energy", "trigger", "broadcast", "minted"}
    BY <1>7 DEF Mint
  <2>5. TxTypeOK'
    BY <1>7, <2>1, <2>3 DEF Mint
  <2>6. askedAt' = askedAt /\ seen' = seen
    BY <1>7 DEF Mint
  <2>7. PollInv' /\ SleepInv'
    BY <2>1, <2>3, <2>4, <2>6
  <2>8. NoMintMissed' /\ WaitBounded'
    BY <2>1, <2>3, <2>4
  <2> QED
    BY <2>1, <2>2, <2>3, <2>4, <2>5, <2>6, <2>7, <2>8
<1>8. CASE WithMint
  BY <1>8 DEF WithMint, LimitCoversPriceRise, Triggered
<1>9. CASE PollFinds
  BY <1>9 DEF PollFinds, LimitCoversPriceRise, Triggered
<1>10. CASE PollFindsNothing
  BY <1>10 DEF PollFindsNothing, WakeTime, LimitCoversPriceRise, Triggered
<1>11. CASE Expire
  BY <1>11 DEF Expire, LimitCoversPriceRise, Triggered
<1>12. CASE Hang
  BY <1>12 DEF Hang, LimitCoversPriceRise, Triggered
<1>13. CASE Sleep
  BY <1>13 DEF Sleep, LimitCoversPriceRise, Triggered
<1>14. CASE NextTx
  <2>1. seen' \in BOOLEAN
    BY <1>14, Zenon DEF NextTx
  <2>2. 0 \in 0..I64-1 /\ 0 \in 0..TimeOut+Pause
    OBVIOUS
  <2>3. TxTypeOK'
    BY <1>14, <2>1, <2>2 DEF NextTx
  <2> QED
    BY <1>14, <2>3 DEF NextTx, LimitCoversPriceRise, Triggered
<1>15. CASE UNCHANGED txVars
  BY <1>15 DEF LimitCoversPriceRise, Triggered
<1>16. CASE Look
  <2>1. /\ at = "asking" /\ now < TimeOut /\ at' = "answering"
        /\ gasPrice' = gasPrice /\ energy' = energy /\ tx' = tx
        /\ pending' = pending /\ minted' = minted /\ mintedAt' = mintedAt
        /\ now' = now /\ wakeAt' = wakeAt /\ askedAt' = askedAt
    BY <1>16 DEF Look
  <2>2. seen' \in BOOLEAN /\ (seen' <=> tx.id \in minted)
    <3>1. seen' = (tx.id \in minted)
      BY <1>16, Zenon DEF Look
    <3>2. (tx.id \in minted) \in BOOLEAN
      OBVIOUS
    <3>3. seen' \in BOOLEAN
      BY <3>1, <3>2
    <3> QED
      BY <3>1, <3>3
  <2>3. TxTypeOK'
    BY <2>1, <2>2
  <2>4. PollInv'
    BY <2>1, <2>2
  <2>5. (at = "answering" /\ seen => tx.id \in minted)'
    BY <2>1, <2>2
  <2>6. LimitCoversPriceRise'
    BY <2>1 DEF LimitCoversPriceRise, Triggered
  <2> QED
    BY <2>1, <2>3, <2>4, <2>5, <2>6
<1>17. CASE Travel
  BY <1>17 DEF Travel, LimitCoversPriceRise, Triggered
<1>18. CASE EstimatePanics
  BY <1>18 DEF EstimatePanics, LimitCoversPriceRise, Triggered
<1> QED
  BY <1>1, <1>2, <1>3, <1>4, <1>5, <1>6, <1>7, <1>8, <1>9, <1>10, <1>11, <1>12, <1>13,
     <1>14, <1>15, <1>16, <1>17, <1>18 DEF TxNext

(***************************************************************************)
(* The queries.                                                            *)
(***************************************************************************)

\* A word that holds a string.
LEMMA FixedBytesType ==
  ASSUME NEW string \in Seq(Byte)
  PROVE  /\ FixedBytes(string) \in Seq(Byte) /\ Len(FixedBytes(string)) = Width
         /\ \A i \in 1..Width :
              FixedBytes(string)[i] = IF i <= Len(string) THEN string[i] ELSE 0
<1>1. string \in [1..Len(string) -> Byte] /\ Len(string) \in Nat
  BY LenProperties
<1>2. Width \in Nat /\ 0 \in Byte
  BY QueriesAssumption
<1>3. FixedBytes(string) \in [1..Width -> Byte]
  BY <1>1, <1>2 DEF FixedBytes
<1> QED
  BY <1>2, <1>3, SegmentIsSeq DEF FixedBytes

\* The greatest element of a set of positions.
LEMMA MaxIs ==
  ASSUME NEW S \in SUBSET Int, NEW m \in S, \A x \in S : m >= x
  PROVE  Max(S) = m
<1>1. Max(S) \in S /\ \A x \in S : Max(S) >= x
  BY DEF Max
<1>2. Max(S) \in Int /\ m \in Int /\ m >= Max(S) /\ Max(S) >= m
  BY <1>1
<1> QED
  BY <1>2

\* What StateFxBridgeId returns: the part of the word up to a byte that is not
\* zero, or nothing, with zeros from there to the last byte.
LEMMA TrimmedId ==
  ASSUME NEW string \in Seq(Byte), NEW k \in 0..Width-1,
         k > 0 => FixedBytes(string)[k] # 0,
         \A i \in k+1..Width-1 : FixedBytes(string)[i] = 0,
         NEW kept, kept = SubSeq(FixedBytes(string), 1, k)
  PROVE  /\ string # <<>> /\ Len(string) < Width /\ string[Len(string)] # 0 => kept = string
         /\ FixedBytes(string)[Width] = 0 => kept = TargetIbc(FixedBytes(string))
         /\ FixedBytes(string)[Width] # 0 => kept # TargetIbc(FixedBytes(string))
<1> DEFINE word == FixedBytes(string)
           significant == {i \in 1..Len(word) : word[i] # 0}
<1>1. /\ word \in Seq(Byte) /\ Len(word) = Width
      /\ \A i \in 1..Width : word[i] = IF i <= Len(string) THEN string[i] ELSE 0
  BY FixedBytesType
<1>2. Width \in Nat \ {0} /\ Len(string) \in Nat
  BY QueriesAssumption, LenProperties
<1>3. TargetIbc(word) = IF significant = {} THEN <<>> ELSE SubSeq(word, 1, Max(significant))
  BY DEF TargetIbc
<1> HIDE DEF word
<1>4. \A n \in 0..Width : /\ SubSeq(word, 1, n) \in Seq(Byte) /\ Len(SubSeq(word, 1, n)) = n
                          /\ \A i \in 1..n : SubSeq(word, 1, n)[i] = word[i]
  <2> TAKE n \in 0..Width
  <2> QED
    BY <1>1, <1>2, PartOfSeq
<1>5. k > 0 => word[k] # 0
  BY DEF word
<1>6. \A i \in k+1..Width-1 : word[i] = 0
  BY DEF word
<1>7. kept = SubSeq(word, 1, k)
  BY DEF word
<1>8. ASSUME string # <<>>, Len(string) < Width, string[Len(string)] # 0
      PROVE  kept = string
  <2>1. Len(string) # 0
    BY <1>8, EmptySeq
  <2>2. word[Len(string)] # 0
    BY <1>1, <1>2, <1>8, <2>1
  <2>3. Len(string) <= k
    BY <1>2, <1>6, <1>8, <2>1, <2>2
  <2>4. k <= Len(string)
    BY <1>1, <1>2, <1>5, <2>1
  <2>5. k = Len(string)
    BY <1>2, <2>3, <2>4
  <2>6. kept \in Seq(Byte) /\ Len(kept) = Len(string) /\ \A i \in 1..Len(string) : kept[i] = string[i]
    BY <1>1, <1>2, <1>4, <1>7, <2>5
  <2> QED
    BY <2>6, SeqEqual
<1>9. ASSUME word[Width] = 0
      PROVE  kept = TargetIbc(word)
  <2>1. \A i \in k+1..Width : word[i] = 0
    BY <1>2, <1>6, <1>9
  <2>2. CASE k = 0
    <3>1. significant = {}
      BY <1>1, <2>1, <2>2
    <3>2. SubSeq(word, 1, 0) = <<>>
      BY <1>2, <1>4, EmptySeq
    <3> QED
      BY <1>3, <1>7, <2>2, <3>1, <3>2
  <2>3. CASE k > 0
    <3>1. k \in significant /\ \A i \in significant : k >= i
      BY <1>1, <1>2, <1>5, <2>1, <2>3
    <3>2. Max(significant) = k
      <4>1. significant \subseteq Int
        BY <1>2, <1>1
      <4> QED
        BY <3>1, <4>1, MaxIs
    <3> QED
      BY <1>3, <1>7, <3>1, <3>2
  <2> QED
    BY <2>2, <2>3
<1>10. ASSUME word[Width] # 0
       PROVE  kept # TargetIbc(word)
  <2>1. Width \in significant /\ \A i \in significant : Width >= i
    BY <1>1, <1>2, <1>10
  <2>2. Max(significant) = Width
    <3>1. significant \subseteq Int
      BY <1>2, <1>1
    <3> QED
      BY <2>1, <3>1, MaxIs
  <2>3. TargetIbc(word) = SubSeq(word, 1, Width)
    BY <1>3, <2>1, <2>2
  <2>4. Len(TargetIbc(word)) = Width /\ Len(kept) = k
    BY <1>2, <1>4, <1>7, <2>3
  <2> QED
    BY <1>2, <2>4
<1> QED
  BY <1>8, <1>9, <1>10 DEF word

\* What is known while a query is running.
QueryInv ==
  /\ QueryTypeOK
  /\ query # "trimming" => length = 0
  /\ query # "none" => outcome = "none"
  /\ query \in {"StateFxBridgeId", "trimming"} /\ ~foreign => bytes = FixedBytes(bridgeId)
  /\ query = "trimming" =>
       /\ length <= Len(bytes) - 1 /\ (length < 0 => Len(bytes) = 0)
       /\ \A i \in length+1..Len(bytes)-1 : bytes[i] = 0
  /\ BridgeIdRoundTrip

USE DEF queryVars, Counters, Getters, QueryNames

LEMMA QueryInitInv == QueryInit => QueryInv
<1>1. <<>> \in Seq(Byte) /\ <<>> \in Seq(Nat) /\ Len(<<>>) = 0
  OBVIOUS
<1> SUFFICES ASSUME QueryInit PROVE QueryInv
  OBVIOUS
<1>2. QueryTypeOK
  <2>1. bytes = <<>> /\ length = 0 /\ Len(bytes) = 0
    BY <1>1 DEF QueryInit
  <2>2. length \in -1..Len(bytes) /\ bytes \in Seq(Byte)
    BY <1>1, <2>1
  <2> QED
    BY <1>1, <2>2 DEF QueryInit, QueryTypeOK
<1> QED
  BY <1>2 DEF QueryInit, QueryInv, BridgeIdRoundTrip

\* A query returns something that is not a string.
LEMMA ReturnsKeepsInv ==
  ASSUME QueryInv, query \in Getters, NEW how \in {"number", "status", "list"},
         NEW decoded \in Seq(Nat), how = "status" => decoded \in [1..3 -> {0, 1}],
         Returns(how, decoded)
  PROVE  QueryInv'
BY DEF Returns, QueryInv, QueryTypeOK, BridgeIdRoundTrip

\* Every step keeps the invariant.
LEMMA QueryNextKeepsInv ==
  ASSUME QueryInv, QueryNext \/ UNCHANGED queryVars
  PROVE  QueryInv'
<1>0. /\ U64 \in Nat \ {0} /\ Width \in Nat \ {0} /\ Values \subseteq Nat
      /\ BridgeIds \subseteq Seq(Byte) /\ Answers \subseteq Seq(Nat)
      /\ <<>> \in Seq(Byte) /\ <<>> \in Seq(Nat) /\ Len(<<>>) = 0
  BY QueriesAssumption
<1> USE DEF QueryInv, QueryTypeOK
<1>1. ASSUME NEW name \in Getters, CallConstant(name)
      PROVE  QueryInv'
  <2>1. Held(name) \subseteq Seq(Nat)
    <3>1. \A f \in [1..3 -> {0, 1}] : f \in Seq(Nat)
      <4>1. \A f \in [1..3 -> {0, 1}] : f \in [1..3 -> Nat]
        OBVIOUS
      <4> QED
        BY <4>1, SegmentIsSeq
    <3>2. \A v \in Values : <<v>> \in Seq(Nat)
      BY <1>0
    <3> QED
      BY <3>1, <3>2 DEF Held
  <2>2. words' \in Seq(Nat)
    BY <1>0, <1>1, <2>1 DEF CallConstant
  <2> QED
    BY <1>1, <2>2 DEF CallConstant, BridgeIdRoundTrip
<1>2. CASE CallForId
  <2>1. bridgeId' \in Seq(Byte)
    BY <1>0, <1>2 DEF CallForId
  <2>2. \A string \in Seq(Byte) : FixedBytes(string) \in Seq(Byte) /\ Len(FixedBytes(string)) = Width
    BY FixedBytesType
  <2>3. bytes' \in Seq(Byte) /\ (~foreign' => bytes' = FixedBytes(bridgeId'))
    BY <1>0, <1>2, <2>1, <2>2 DEF CallForId
  <2>4. Len(bytes') \in Nat
    BY <2>3, LenProperties
  <2>5. length' \in -1..Len(bytes')
    BY <1>2, <2>4 DEF CallForId
  <2> QED
    BY <1>2, <2>1, <2>3, <2>5 DEF CallForId, BridgeIdRoundTrip
<1>3. CASE QueryFails
  BY <1>3 DEF QueryFails, BridgeIdRoundTrip
<1>4. CASE ReturnCounter
  <2>1. LowWord \in Nat
    <3>1. CASE words = <<>>
      BY <3>1 DEF LowWord
    <3>2. CASE words # <<>>
      BY <3>2 DEF LowWord
    <3> QED
      BY <3>1, <3>2
  <2>2. Uint64(LowWord) \in Nat
    BY <1>0, <2>1 DEF Uint64
  <2>3. <<Uint64(LowWord)>> \in Seq(Nat)
    BY <2>2
  <2> HIDE DEF QueryInv
  <2> QED
    BY <1>4, <2>3, ReturnsKeepsInv DEF ReturnCounter
<1>5. CASE ReturnAllowance \/ ReturnList
  <2> HIDE DEF QueryInv
  <2>1. words \in Seq(Nat)
    BY DEF QueryInv
  <2> QED
    BY <1>5, <2>1, ReturnsKeepsInv DEF ReturnAllowance, ReturnList
<1>6. CASE ReturnStatus
  <2> DEFINE status == [i \in 1..3 |-> words[i]]
  <2>1. status \in [1..3 -> {0, 1}]
    BY <1>6 DEF ReturnStatus, StatusUnpacks
  <2>2. status \in Seq(Nat)
    <3>1. \A f \in [1..3 -> {0, 1}] : f \in [1..3 -> Nat]
      OBVIOUS
    <3> HIDE DEF status
    <3>2. status \in [1..3 -> Nat]
      BY <2>1, <3>1
    <3> QED
      BY <3>2, SegmentIsSeq
  <2>3. query \in Getters /\ Returns("status", status)
    BY <1>6 DEF ReturnStatus
  <2> HIDE DEF QueryInv, status
  <2> QED
    BY <2>1, <2>2, <2>3, ReturnsKeepsInv
<1>7. CASE MeasureId
  <2>1. Len(bytes) \in Nat
    BY LenProperties
  <2> QED
    BY <1>7, <2>1 DEF MeasureId, StartLength, BridgeIdRoundTrip
<1>8. CASE TrimId
  <2>1. Len(bytes) \in Nat
    BY LenProperties
  <2>2. /\ length > 0 /\ bytes[length] = 0 /\ length' = length - 1
        /\ UNCHANGED <<bridgeId, query, asked, foreign, words, bytes, outcome, result, text>>
    BY <1>8 DEF TrimId, Trimmable
  <2>3. \A i \in length'+1..Len(bytes)-1 : bytes[i] = 0
    BY <1>8, <2>1, <2>2 DEF TrimId
  <2> QED
    BY <1>8, <2>1, <2>2, <2>3 DEF TrimId, BridgeIdRoundTrip
<1>9. CASE ReturnId
  <2>1. Len(bytes) \in Nat
    BY LenProperties
  <2>2. /\ query = "trimming" /\ length \in 0..Len(bytes)-1 /\ (length > 0 => bytes[length] # 0)
        /\ text' = SubSeq(bytes, 1, length) /\ query' = "none" /\ length' = 0 /\ outcome' = "text"
        /\ UNCHANGED <<bridgeId, asked, foreign, words, bytes, result>>
    BY <1>9, <2>1 DEF ReturnId, Trimmable
  <2>3. text' \in Seq(Byte)
    BY <2>1, <2>2, PartOfSeq
  <2>4. BridgeIdRoundTrip'
    <3> SUFFICES ASSUME ~foreign'
                 PROVE  BridgeIdRoundTrip'
      BY <2>2 DEF BridgeIdRoundTrip
    <3>1. bytes = FixedBytes(bridgeId) /\ Len(FixedBytes(bridgeId)) = Width /\ bridgeId \in Seq(Byte)
      BY <2>2, FixedBytesType
    <3>2. /\ length \in 0..Width-1 /\ (length > 0 => FixedBytes(bridgeId)[length] # 0)
          /\ \A i \in length+1..Width-1 : FixedBytes(bridgeId)[i] = 0
          /\ text' = SubSeq(FixedBytes(bridgeId), 1, length)
      BY <2>2, <3>1
    <3>3. bridgeId' = bridgeId /\ outcome' = "text"
      BY <2>2
    <3> HIDE DEF QueryInv, QueryTypeOK
    <3> QED
      BY <3>1, <3>2, <3>3, TrimmedId DEF BridgeIdRoundTrip
  <2> QED
    BY <2>1, <2>2, <2>3, <2>4
<1>10. CASE IdPanics
  <2>1. Len(bytes) \in Nat /\ (~foreign => Len(bytes) = Width)
    BY <1>10, LenProperties, FixedBytesType DEF IdPanics
  <2>2. foreign
    <3> SUFFICES ASSUME ~foreign PROVE FALSE
      OBVIOUS
    <3> QED
      BY <1>0, <1>10, <2>1 DEF IdPanics
  <2>3. /\ query' = "none" /\ outcome' = "panic" /\ length' = 0
        /\ UNCHANGED <<bridgeId, asked, foreign, words, bytes, result, text>>
    BY <1>10 DEF IdPanics
  <2>4. QueryTypeOK'
    BY <2>1, <2>3
  <2>5. BridgeIdRoundTrip'
    BY <2>2, <2>3 DEF BridgeIdRoundTrip
  <2> QED
    BY <2>3, <2>4, <2>5
<1>11. CASE DropAnswer
  <2>1. /\ bridgeId' = <<>> /\ query' = "none" /\ asked' = "none"
        /\ foreign' = FALSE /\ words' = <<>> /\ bytes' = <<>> /\ length' = 0
        /\ outcome' = "none" /\ result' = <<>> /\ text' = <<>>
    BY <1>11 DEF DropAnswer
  <2>2. length' \in -1..Len(bytes') /\ bytes' \in Seq(Byte)
    BY <1>0, <2>1
  <2>3. QueryTypeOK'
    BY <1>0, <2>1, <2>2
  <2>4. BridgeIdRoundTrip'
    BY <2>1 DEF BridgeIdRoundTrip
  <2> QED
    BY <2>1, <2>3, <2>4
<1>12. CASE UNCHANGED queryVars
  BY <1>12 DEF BridgeIdRoundTrip
<1> QED
  BY <1>1, <1>2, <1>3, <1>4, <1>5, <1>6, <1>7, <1>8, <1>9, <1>10, <1>11, <1>12 DEF QueryNext

(***************************************************************************)
(* Both together.                                                          *)
(***************************************************************************)

IndInv == TxInv /\ QueryInv

\* The inductive invariant holds.
THEOREM Inductive == Spec => []IndInv
<1>1. Init => IndInv
  BY TxInitInv, QueryInitInv DEF Init, IndInv
<1>2. IndInv /\ [Next]_vars => IndInv'
  <2> SUFFICES ASSUME IndInv, [Next]_vars
               PROVE  IndInv'
    OBVIOUS
  <2>1. TxNext \/ UNCHANGED txVars
    BY DEF Next, Query, Transaction, vars
  <2>2. QueryNext \/ UNCHANGED queryVars
    BY DEF Next, Query, Transaction, vars
  <2> QED
    BY <2>1, <2>2, TxNextKeepsInv, QueryNextKeepsInv DEF IndInv
<1> QED
  BY <1>1, <1>2, PTL DEF Spec

\* GetLimit and TriggerContract: below 2^62 the fee limit that is set covers
\* the energy, and a price that has risen by a fifth, whatever the width of
\* the integers.
THEOREM LimitSound == Spec => []LimitCoversPriceRise
<1>1. IndInv => LimitCoversPriceRise
  BY DEF IndInv, TxInv
<1> QED
  BY <1>1, Inductive, PTL

\* With polls that are answered within Latency, WithMint misses no transaction
\* that was minted more than a pause and two polls before its deadline, for
\* every timeout, pause and latency.
THEOREM MintSeen == Spec => []NoMintMissed
<1>1. IndInv => NoMintMissed
  BY DEF IndInv, TxInv
<1> QED
  BY <1>1, Inductive, PTL

\* WithMint is over less than one pause after its deadline, and returns
\* the transaction that was asked for.
THEOREM WaitEndsInTime == Spec => []WaitBounded
<1>1. IndInv => WaitBounded
  BY DEF IndInv, TxInv
<1> QED
  BY <1>1, Inductive, PTL

\* What StateFxBridgeId gives back, for every string and every width, and that
\* only the answer of another contract makes it panic.
THEOREM IdSound == Spec => []BridgeIdRoundTrip
<1>1. IndInv => BridgeIdRoundTrip
  BY DEF IndInv, QueryInv
<1> QED
  BY <1>1, Inductive, PTL

\* The fee limit and the times stay in the range of their types, and the
\* loop of StateFxBridgeId in that of the answer.
THEOREM TypeCorrect == Spec => []TypeOK
<1>1. IndInv => TypeOK
  BY DEF IndInv, TxInv, QueryInv, TypeOK
<1> QED
  BY <1>1, Inductive, PTL
=============================================================================
