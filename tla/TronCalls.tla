------------------------------ MODULE TronCalls ------------------------------
(***************************************************************************)
(* The calls of TronClient that the daemon does not make, made one at a    *)
(* time: queries of the bridge contract (module ContractQueries) and a     *)
(* transaction, from its price to its receipt (module TronTx).  They share *)
(* nothing but the client, so each is looked at while the other is idle.   *)
(***************************************************************************)
EXTENDS ContractQueries, TronTx

vars == <<queryVars, txVars>>

TypeOK == QueryTypeOK /\ TxTypeOK

Init == QueryInit /\ TxInit

Query == TxInit /\ QueryNext /\ UNCHANGED txVars

Transaction == QueryInit /\ TxNext /\ UNCHANGED queryVars

Next == Query \/ Transaction

Spec == Init /\ [][Next]_vars
=============================================================================
