------------------------------ MODULE MCBridge ------------------------------
(* Small replica sets for the model checking of Bridge.                     *)
EXTENDS Bridge, TLC

Symmetry == Permutations(Servers) \cup Permutations(Sessions)
=============================================================================
