----------------------------- MODULE EventRelay -----------------------------
(***************************************************************************)
(* What the event relay promises, without blocks, ticks, chunks or calls:  *)
(* there is a history of settled events, which only grows, and a log of    *)
(* relayed ones, which is always an initial part of it and only grows, by  *)
(* a bounded number of events at a time.                                   *)
(***************************************************************************)
EXTENDS Naturals, Sequences

CONSTANT MaxStep      \* the most events that are relayed together

VARIABLES history, relayed

Init == relayed = SubSeq(history, 1, Len(relayed)) /\ Len(relayed) <= Len(history)

\* More events settle.
Settle ==
  /\ Len(history) < Len(history')
  /\ history = SubSeq(history', 1, Len(history))
  /\ UNCHANGED relayed

\* The next few events are relayed.
Relay ==
  /\ \E n \in 1..MaxStep :
       /\ Len(relayed) + n <= Len(history)
       /\ relayed' = SubSeq(history, 1, Len(relayed) + n)
  /\ UNCHANGED history

Next == Settle \/ Relay

Spec == Init /\ [][Next]_<<history, relayed>>
=============================================================================
