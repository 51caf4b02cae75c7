---------------------------- MODULE SigningDuty ----------------------------
(***************************************************************************)
(* What the signer promises, without ticks, queries, transactions or keys: *)
(* there are requests that wait for signatures, and those that this        *)
(* bridger has confirmed.  It confirms a bounded number of waiting ones    *)
(* together, no oracle set before an older one that waits, and never takes *)
(* a confirmation back.                                                    *)
(***************************************************************************)
EXTENDS Naturals, FiniteSets

CONSTANT MaxStep      \* the most requests that are confirmed together

VARIABLES waiting, newest, done     \* newest: kind |-> nonce of the last request

Init == waiting = {} /\ done = {}

\* A request comes, with a number above those of its kind before it.
Ask(r) ==
  /\ r.nonce > newest[r.kind]
  /\ waiting' = waiting \cup {r} /\ newest' = [newest EXCEPT ![r.kind] = r.nonce]
  /\ UNCHANGED done

Withdraw ==
  /\ waiting' \subseteq waiting
  /\ UNCHANGED <<newest, done>>

\* Requests are confirmed together; of the oracle sets, the oldest.
Confirm ==
  LET new == done' \ done
  IN  /\ done \subseteq done' /\ new \subseteq waiting
      /\ Cardinality(new) <= MaxStep
      /\ \A r \in new, q \in waiting \ done' :
           r.kind = "oracleSet" /\ q.kind = "oracleSet" => r.nonce <= q.nonce
      /\ UNCHANGED <<waiting, newest>>

Next == (\E r \in waiting' : Ask(r)) \/ Withdraw \/ Confirm

Spec == Init /\ [][Next]_<<waiting, newest, done>>
=============================================================================
