---------------------------- MODULE MCFuturePool ----------------------------
(* Small pools for the model checking of FuturePool.                        *)
EXTENDS FuturePool, TLC

Symmetry == Permutations(Hosts) \cup Permutations(Workers) \cup Permutations(Futures)
              \cup Permutations(Insts)
=============================================================================
