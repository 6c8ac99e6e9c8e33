----------------------------- MODULE MCStoreOps -----------------------------
(* A ledger of two keys for the model checking of StoreOps.                 *)
EXTENDS StoreOps

V(ty, n) == [ty |-> ty, v |-> n]
LedgerCols == <<"Int", "Int", "UInt">>
Row(id, balance, flags) == <<V("Int", id), V("Int", balance), V("UInt", flags)>>

\* Two states of account 1, one of account 2, and a record of the wrong width; the
\* balances of a and b overflow three bits, the flags of b and d have the top bit.
LedgerRows == {Row(1, 3, 1), Row(2, 2, 5), Row(1, -1, 7), <<V("Int", 1)>>}
LedgerKeys == {V("Int", 1), V("Int", 2)}
LedgerValues == {V("Int", 2), V("UInt", 5)}
LedgerLimits == {-2, -1, 1}

T(col, cmp, ty, n) == [col |-> col, cmp |-> cmp, val |-> V(ty, n)]
LedgerPreds ==
  { << <<T(2, "GE", "Int", -4)>> >>,                                  \* every row
    << <<T(2, "GT", "Int", 1), T(3, "NE", "UInt", 1)>> >>,
    << <<T(1, "EQ", "Int", 2), T(2, "LE", "Int", 2)>>, <<T(2, "EQ", "Int", -1)>> >>,
    << <<T(3, "LT", "UInt", 6)>> >>,
    << <<T(3, "EQ", "Int", 1)>> >>, << << >> >> }             \* refused
=============================================================================
