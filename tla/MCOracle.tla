------------------------------ MODULE MCOracle ------------------------------
(***************************************************************************)
(* Instances of Oracle for TLC.  Heights start at 2, so that the chain is  *)
(* older than two delays of one block each.                                *)
(***************************************************************************)
EXTENDS Oracle

CONSTANT SendToFx     \* a second kind of event

MCEventKinds == {OracleSetUpdated, SendToFx}
MCOneKind == {OracleSetUpdated}
MCNoEvents == <<>>
MCOneEvent == <<[height |-> 1, kind |-> OracleSetUpdated]>>
MCTwoEvents == <<[height |-> 1, kind |-> OracleSetUpdated], [height |-> 1, kind |-> OracleSetUpdated]>>
=============================================================================
