--------------------------- MODULE MCBlockEvents ---------------------------
(***************************************************************************)
(* An instance of BlockEvents for TLC: blocks of up to two transactions    *)
(* with up to two logs each, of the sorts that the filter tells apart.     *)
(***************************************************************************)
EXTENDS BlockEvents

CONSTANTS SendToFx, Token     \* another event, another contract

Log(topic, address, decodable) == [topic |-> topic, address |-> address, decodable |-> decodable]

MCLogs ==
  {Log(NoTopic, Contract, TRUE), Log(Unknown, Contract, TRUE),
   Log(OracleSetUpdated, Contract, TRUE), Log(SendToFx, Token, TRUE),
   Log(SendToFx, Contract, FALSE), Log(OracleSetUpdated, Token, FALSE)}

MCTransactions ==
  {[success |-> ok, contract |-> c, logs |-> logs] :
     ok \in BOOLEAN, c \in Addresses, logs \in UNION {[1..n -> MCLogs] : n \in 0..2}}

\* The second transaction is always one of a call of the contract.
MCBlocks ==
  {<<a>> : a \in MCTransactions} \cup
  {<<a, b>> : a \in MCTransactions,
              b \in {x \in MCTransactions : x.success /\ x.contract = Contract /\ Len(x.logs) = 1}}
=============================================================================
