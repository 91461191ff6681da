---------------------------- MODULE MCQueueRaces ----------------------------
(* QueueRaces for TLC: sessions are interchangeable, and so are rows that  *)
(* start in the same state.                                                *)
EXTENDS QueueRaces, TLC

Symmetry == Permutations(Session) \cup Permutations(Pwb \ InHand)
=============================================================================
