---------------------------- MODULE MCTronCalls ----------------------------
(***************************************************************************)
(* An instance of TronCalls for TLC: contract ids of every length around   *)
(* the width of a word, and answers of up to four words.                   *)
(***************************************************************************)
EXTENDS TronCalls

MCBridgeIds == UNION {[1..n -> Byte] : n \in 0..Width+1}

MCAnswers == UNION {[1..n -> {0, 1, 6}] : n \in 0..4}
=============================================================================
