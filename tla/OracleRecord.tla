---------------------------- MODULE OracleRecord ----------------------------
(***************************************************************************)
(* The record of this bridger's oracle on f(x)Core, of which both parts of *)
(* the daemon read the status flag (GetOracleByBridgerAddr).  External.    *)
(***************************************************************************)
VARIABLE online       \* Oracle.Online of this bridger
=============================================================================
