----------------------------- MODULE MCRegistry -----------------------------
(* Three modules and a host descriptor for the model checking of Registry.  *)
EXTENDS Registry, TLC

Pledge(mangled, fn) == [mangled |-> mangled, fn |-> fn]
Desc(module, name, pledges, vows) ==
  [module |-> module, name |-> name, hash |-> 1, pledges |-> pledges, vows |-> vows]

\* Ledger has an abstract pledge between two mangled ones and a vow without default;
\* Audit's symbol is the second of Ledger's, as a handwritten table may have it; the
\* host's own Ledger carries the name of the module's.
Rate   == [name |-> "rate", ty |-> "Int", has_default |-> FALSE]
Ledger == Desc("m1", 2, <<Pledge(15, "body"), Pledge(30, None)>>, <<Rate>>)
Notes  == Desc("m1", 1, <<Pledge(40, "body"), Pledge(0, "body")>>, << >>)
Audit  == Desc("m2", 3, <<Pledge(40, "body")>>, << >>)
Clock  == Desc("m3", 4, << >>, << >>)
Own    == Desc(None, 2, <<Pledge(0, None)>>, << >>)

ThreeModules == [m1 |-> <<Ledger, Notes>>, m2 |-> <<Audit>>, m3 |-> <<Clock>>]
OwnOnly == {Own}
SomeOverrides == {<< >>, <<[name |-> "rate", ty |-> "Int"], [name |-> "rate", ty |-> "Int"]>>,
                  <<[name |-> "rate", ty |-> "Bool"]>>}
Symmetry == Permutations(Threads) \cup Permutations(HostFns)
=============================================================================
