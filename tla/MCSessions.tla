----------------------------- MODULE MCSessions -----------------------------
(* Futures and names are interchangeable; no liveness is checked here. *)
EXTENDS Sessions, TLC

Symmetry == Permutations(Slots) \cup Permutations(Names)
=============================================================================
