------------------------------- MODULE MCWire -------------------------------
(* Values of up to four levels, well formed and not, for the model checking  *)
(* of Wire.                                                                  *)
EXTENDS Wire

Num(ty, n) == Val(ty, 0, n, "Unit", << >>)
Scalars == {Zeroed, Num("Int", -1), Num("Int", 40), Num("UInt", 600), Num("Float", 3),
            Num("Bool", 1), Num("Byte", 2), Num("Char", 7), Str(<<1, 8>>), Str(<< >>)}
BadScalars == {Num("Bool", 2), Num("Char", 10), Num("Char", 25), Val("Int", 1, 0, "Unit", << >>),
               Num("PledgeRef", 0), Num("Instance", 0), [Str(<< >>) EXCEPT !.len = 1]}

List(el, xs) == Val("List", 0, 0, el, xs)
Map(el, xs) == Val("Map", 0, 0, el, xs)
Boxed(ty, tag, xs) == Val(ty, tag, 0, "Unit", xs)
Seqs(S) == {<< >>} \cup {<<x>> : x \in S}
Pairs == {<<Num("Byte", 1), Zeroed>>, <<Num("Byte", 1), Zeroed, Num("Byte", 2), Num("Int", -1)>>,
          <<Num("Byte", 1), Zeroed, Num("Byte", 1), Zeroed>>, <<Num("Byte", 1)>>,
          <<Num("Bool", 1), Zeroed>>}

Level(S) ==
  {List(el, xs) : el \in {"Byte", "List", "Option", "PledgeRef"}, xs \in Seqs(S)}
    \cup {Map(el, xs) : el \in {"Byte", "Float"}, xs \in Pairs \cup {<< >>}}
    \cup {Boxed(ty, tag, xs) : ty \in {"Tuple", "Record", "Sum", "Option", "Result"},
                               tag \in {0, 1, 2}, xs \in Seqs(S)}

One == Level(Scalars \cup BadScalars)
Small == {Num("Byte", 2), List("Byte", << >>), Boxed("Option", 1, <<Zeroed>>),
          Map("Byte", <<Num("Byte", 1), Zeroed, Num("Byte", 1), Zeroed>>),
          Boxed("Sum", 2, <<Num("Byte", 2), Num("Bool", 1)>>)}
Two == Level(Small)
Three == {Boxed("Result", 1, <<x>>) : x \in Two}
SomeValues == Scalars \cup BadScalars \cup One \cup Two \cup Three
=============================================================================
