--------------------------- MODULE ContractQueries ---------------------------
(***************************************************************************)
(* The queries of the bridge contract's state (client/tron_bridge.go): a   *)
(* constant call, and the decoding of its ConstantResult.  The queries     *)
(* look at the error of the call and at the number of results, never at    *)
(* whether the call was executed: what a contract answers that has no such *)
(* function, possibly nothing at all, is decoded like any other answer.    *)
(* Four getters read it as a number, tokenStatus and getBridgeTokenList    *)
(* have it unpacked with the ABI, state_fxBridgeId is trimmed by hand.     *)
(* The daemon makes none of these queries; the tools around it and the     *)
(* tests do.                                                               *)
(***************************************************************************)
EXTENDS Naturals, Integers, Sequences, FiniteSetsExt

CONSTANTS
  Width,        \* bytes of a word of the contract, 32
  Byte,         \* the values of a byte
  U64,          \* 2^64
  BridgeIds,    \* the strings that the contract may be deployed with
  Values,       \* numbers that it may hold, of more than 64 bits some of them
  Answers       \* what another contract may answer, as words of Width bytes

ASSUME QueriesAssumption ==
  /\ Width \in Nat \ {0} /\ 0 \in Byte /\ U64 \in Nat \ {0}
  /\ BridgeIds \subseteq Seq(Byte) /\ Values \subseteq Nat /\ Answers \subseteq Seq(Nat)

VARIABLES
  bridgeId,     \* the string that the asked contract was deployed with
  query,        \* the query that is running, or "none"
  asked,        \* history: the query that was made last
  foreign,      \* it goes to some other contract
  words,        \* ConstantResult[0], unless it is read byte by byte
  bytes,        \* ConstantResult[0], if it is
  length,       \* as in StateFxBridgeId
  outcome,      \* history: how the last query has ended
  result,       \* history: the words that it has returned, or three booleans
  text          \* history: the string that it has returned

queryVars == <<bridgeId, query, asked, foreign, words, bytes, length, outcome, result, text>>

Counters == {"StateLastOracleSetNonce", "StateLastOracleSetHeight", "LastBatchNonce"}
Getters == Counters \cup {"Allowance", "GetTokenStatus", "GetBridgeTokenList"}
QueryNames == Getters \cup {"StateFxBridgeId"}

QueryTypeOK ==
  /\ bridgeId \in Seq(Byte)
  /\ query \in QueryNames \cup {"none", "trimming"}
  /\ asked \in QueryNames \cup {"none"} /\ foreign \in BOOLEAN
  /\ words \in Seq(Nat) /\ bytes \in Seq(Byte)
  /\ length \in -1..Len(bytes)
  /\ outcome \in {"none", "error", "number", "status", "list", "text", "panic"}
  /\ result \in Seq(Nat) /\ text \in Seq(Byte)
  /\ outcome = "status" => result \in [1..3 -> {0, 1}]

\* fixedBytes: copied into an array of 32 bytes, zeros behind it.
FixedBytes(string) == [i \in 1..Width |-> IF i <= Len(string) THEN string[i] ELSE 0]

\* hexByte32ToTargetIbc: everything up to the last byte that is not zero.
TargetIbc(word) ==
  LET significant == {i \in 1..Len(word) : word[i] # 0}
  IN  IF significant = {} THEN <<>> ELSE SubSeq(word, 1, Max(significant))

\* big.Int.Uint64 keeps the low bits.
Uint64(n) == n % U64

QueryInit ==
  /\ bridgeId = <<>>
  /\ query = "none" /\ asked = "none" /\ foreign = FALSE
  /\ words = <<>> /\ bytes = <<>> /\ length = 0
  /\ outcome = "none" /\ result = <<>> /\ text = <<>>

\* What the bridge contract answers: three booleans for a token, a list (which
\* is one value here), or a number.
Held(name) == IF name = "GetTokenStatus" THEN [1..3 -> {0, 1}] ELSE {<<v>> : v \in Values}

\* The node has executed the constant call.  (Another contract may answer with
\* bytes that are no whole words; numbers are made of those just the same.)
CallConstant(name) ==
  /\ query = "none" /\ outcome = "none"
  /\ query' = name /\ asked' = name
  /\ foreign' \in BOOLEAN
  /\ words' \in (IF foreign' THEN Answers ELSE Held(name))
  /\ UNCHANGED <<bridgeId, bytes, length, outcome, result, text>>

\* The contract holds the id in a bytes32.
CallForId ==
  /\ query = "none" /\ outcome = "none"
  /\ query' = "StateFxBridgeId" /\ asked' = "StateFxBridgeId"
  /\ foreign' \in BOOLEAN
  /\ bridgeId' \in BridgeIds
  /\ \/ ~foreign' /\ bytes' \in {FixedBytes(bridgeId')}
     \/ foreign' /\ bytes' \in {<<>>} \cup {FixedBytes(id) : id \in BridgeIds}
  /\ UNCHANGED <<words, length, outcome, result, text>>

\* An address that is not one, a call that fails, no result, or a result that
\* is none of the getter's: it is not made of whole words, or the ABI finds in
\* it no list, or (see StatusUnpacks) no three booleans.
QueryFails ==
  /\ query \in QueryNames
  /\ query' = "none" /\ outcome' = "error"
  /\ UNCHANGED <<bridgeId, asked, foreign, words, bytes, length, result, text>>

Returns(how, decoded) ==
  /\ query' = "none" /\ outcome' = how /\ result' = decoded
  /\ UNCHANGED <<bridgeId, asked, foreign, words, bytes, length, text>>

\* SetBytes takes all the words for one number, none of them for zero, and
\* Uint64 keeps the low bits, those of the last word.
LowWord == IF words = <<>> THEN 0 ELSE words[Len(words)]

ReturnCounter == query \in Counters /\ Returns("number", <<Uint64(LowWord)>>)

\* A big.Int with all the words.
ReturnAllowance == query = "Allowance" /\ Returns("number", words)

\* UnpackIntoMap: a boolean is a word that is 0 or 1; further words do not
\* matter.  The map then has the three names of the ABI, each with a bool, so
\* that the assertions on them hold.
StatusUnpacks == Len(words) >= 3 /\ \A i \in 1..3 : words[i] \in {0, 1}

ReturnStatus ==
  /\ query = "GetTokenStatus" /\ StatusUnpacks
  /\ Returns("status", [i \in 1..3 |-> words[i]])

\* Unpack finds a list; ConvertType gives it the type of the binding.
ReturnList == query = "GetBridgeTokenList" /\ words # <<>> /\ Returns("list", words)

\* StateFxBridgeId: length starts one below the length of the answer ...
\* Mutant: two below it.
StartLengthTwo == Len(bytes) - 2
StartLength == Len(bytes) - 1

MeasureId ==
  /\ query = "StateFxBridgeId"
  /\ query' = "trimming" /\ length' = StartLength
  /\ UNCHANGED <<bridgeId, asked, foreign, words, bytes, outcome, result, text>>

\* ... and goes down past the zeros.
Trimmable == length > 0 /\ bytes[length] = 0

TrimId ==
  /\ query = "trimming" /\ Trimmable
  /\ length' = length - 1
  /\ UNCHANGED <<bridgeId, query, asked, foreign, words, bytes, outcome, result, text>>

ReturnId ==
  /\ query = "trimming" /\ ~Trimmable /\ length >= 0
  /\ text' = SubSeq(bytes, 1, length)
  /\ query' = "none" /\ outcome' = "text"
  /\ length' = 0
  /\ UNCHANGED <<bridgeId, asked, foreign, words, bytes, result>>

\* bridgeId[:-1]
IdPanics ==
  /\ query = "trimming" /\ length < 0
  /\ query' = "none" /\ outcome' = "panic" /\ length' = 0
  /\ UNCHANGED <<bridgeId, asked, foreign, words, bytes, result, text>>

\* The caller has seen the outcome.
DropAnswer ==
  /\ outcome # "none"
  /\ bridgeId' = <<>>
  /\ query' = "none" /\ asked' = "none" /\ foreign' = FALSE
  /\ words' = <<>> /\ bytes' = <<>> /\ length' = 0
  /\ outcome' = "none" /\ result' = <<>> /\ text' = <<>>

QueryNext ==
  \/ \E name \in Getters : CallConstant(name)
  \/ CallForId
  \/ QueryFails \/ ReturnCounter \/ ReturnAllowance \/ ReturnStatus \/ ReturnList
  \/ MeasureId \/ TrimId \/ ReturnId \/ IdPanics \/ DropAnswer

-----------------------------------------------------------------------------
(***************************************************************************)
(* Properties.                                                             *)
(***************************************************************************)

\* StateFxBridgeId gives back the string that the contract was deployed with
\* if that is shorter than a word and does not end in a zero, and what it
\* gives is always the beginning of it; a string as long as a word loses its
\* last byte, which the decoder of the claims' channel names would keep.  No
\* answer of the bridge contract makes it panic.
BridgeIdRoundTrip ==
  /\ outcome = "text" /\ ~foreign =>
       /\ bridgeId # <<>> /\ Len(bridgeId) < Width /\ bridgeId[Len(bridgeId)] # 0 =>
            text = bridgeId
       /\ FixedBytes(bridgeId)[Width] = 0 => text = TargetIbc(FixedBytes(bridgeId))
       /\ FixedBytes(bridgeId)[Width] # 0 => text # TargetIbc(FixedBytes(bridgeId))
  /\ outcome = "panic" => foreign
=============================================================================
