--------------------------- MODULE StoreSql_proofs ---------------------------
(***************************************************************************)
(* What the statements and the type map of the Store surface compute, for  *)
(* every width, schema, table and predicate: a value survives the type     *)
(* map, a parameter reaches its own comparison, and the answer of a        *)
(* statement is the answer to the request it was built from.               *)
(***************************************************************************)
EXTENDS StoreSql, SetInduction

-----------------------------------------------------------------------------
(* The type map.                                                            *)

\* The top bit weighs something.
LEMMA TopBitPositive == TopBit \in Nat /\ TopBit > 0
PROOF
  <1> DEFINE n == Width - 1
             T == Nat \ {0}
             P(f) == [i \in 0 .. n |-> IF i = 0 THEN 1 ELSE 2 * f[i - 1]]
  <1>1. n \in Nat
    BY WidthAssumption
  <1>2. PICK G : G = [k \in 1 .. n |-> [x \in T |-> 2 * x]]
    OBVIOUS
  <1>3. G \in Bodies(n, T)
    BY <1>2 DEF Bodies
  <1>4. PICK f \in Runs(n, T, 1, G) : TRUE
    <2> HIDE DEF n, T
    <2>1. 1 \in T
      BY DEF T
    <2> QED
      BY <1>1, <1>3, <2>1, LoopRuns
  <1>5. f \in [0 .. n -> T] /\ f[0] = 1 /\ \A k \in 1 .. n : f[k] = 2 * f[k - 1]
    <2>1. f \in [0 .. n -> T] /\ f[0] = 1 /\ \A k \in 1 .. n : f[k] = G[k][f[k - 1]]
      BY <1>4 DEF Runs
    <2>2. \A k \in 1 .. n : f[k - 1] \in T
      BY <1>1, <2>1
    <2> QED
      BY <1>2, <2>1, <2>2
  <1>6. f = P(f)
    BY <1>1, <1>5
  <1>7. PICK p : p = CHOOSE g : g = P(g)
    OBVIOUS
  <1>8. p = P(p)
    BY <1>6, <1>7
  <1>9. TopBit = p[n]
    BY <1>7, Zenon DEF TopBit
  <1>10. 0 .. n \subseteq {k \in 0 .. n : p[k] \in T}
    <2> DEFINE S == {k \in 0 .. n : p[k] \in T}
    <2>1. 0 \in S
      BY <1>1, <1>8
    <2>2. \A k \in 0 .. (n - 1) : k \in S => k + 1 \in S
      BY <1>1, <1>8
    <2> HIDE DEF S, n
    <2>3. 0 .. n \subseteq S
      BY <1>1, <2>1, <2>2, InductUpTo
    <2> QED
      BY <2>3 DEF S
  <1> QED
    BY <1>1, <1>9, <1>10

\* What SQLite stores for a value of a tag.
Cells(ty) == IF ty = "UInt" THEN -TopBit .. (TopBit - 1) ELSE Payloads(ty)

\* bind_one and read_cell: a value is stored in a cell and read back as it was.
LEMMA BindThenRead ==
  ASSUME NEW ty \in Scalars, NEW v \in Payloads(ty)
  PROVE  bind_one(ty, v) \in Cells(ty) /\ read_cell(ty, bind_one(ty, v)) = v
PROOF
  <1> PICK h \in Nat : h = TopBit /\ h > 0
    BY TopBitPositive
  <1>1. CASE ty = "UInt"
    BY <1>1 DEF Payloads, bind_one, read_cell, Cells
  <1>2. CASE ty # "UInt"
    BY <1>2 DEF Payloads, bind_one, read_cell, Cells, Scalars
  <1> QED
    BY <1>1, <1>2

\* read_cell tells cells apart, keeps what has no top bit, and reads a payload.
LEMMA ReadThenBind ==
  ASSUME NEW ty \in Scalars, NEW x \in Cells(ty)
  PROVE  /\ x \in Int
         /\ read_cell(ty, x) \in Payloads(ty)
         /\ read_cell(ty, x) \in Int
         /\ bind_one(ty, read_cell(ty, x)) = x
         /\ ty # "UInt" \/ x >= 0 => read_cell(ty, x) = x
PROOF
  <1> PICK h \in Nat : h = TopBit /\ h > 0
    BY TopBitPositive
  <1>1. CASE ty = "UInt"
    <2>1. x \in -h .. (h - 1)
      BY <1>1 DEF Cells
    <2>2. x % (2 * h) = IF x >= 0 THEN x ELSE x + 2 * h
      BY <2>1
    <2>3. read_cell(ty, x) = IF x >= 0 THEN x ELSE x + 2 * h
      BY <1>1, <2>2 DEF read_cell
    <2> QED
      BY <1>1, <2>1, <2>3 DEF Payloads, bind_one
  <1>2. CASE ty # "UInt"
    <2>1. x \in Payloads(ty) /\ x \in Int
      BY <1>2 DEF Cells, Payloads, Scalars
    <2>2. read_cell(ty, x) = x
      BY <1>2, <2>1 DEF Payloads, read_cell, Scalars
    <2> QED
      BY <1>2, <2>1, <2>2 DEF bind_one
  <1> QED
    BY <1>1, <1>2

-----------------------------------------------------------------------------
(* The placeholders.                                                        *)

LEMMA LaidPrefix ==
  ASSUME NEW T, NEW gs \in Seq(Seq(T)), NEW f, Laid(gs, T, f), NEW k \in 0 .. Len(gs)
  PROVE  FlattenSeq(SubSeq(gs, 1, k)) = f[k]
PROOF
  <1>1. PICK s : s = SubSeq(gs, 1, k)
    OBVIOUS
  <1>2. s \in Seq(Seq(T)) /\ Len(s) = k /\ \A i \in 1 .. k : s[i] = gs[i]
    BY <1>1
  <1>3. PICK g : g = [i \in 0 .. k |-> f[i]]
    OBVIOUS
  <1>4. Laid(s, T, g)
    <2>1. k \in Nat /\ \A i \in 0 .. k : i \in 0 .. Len(gs)
      OBVIOUS
    <2>2. g \in [0 .. k -> Seq(T)] /\ g[0] = << >>
      <3>1. \A i \in 0 .. k : f[i] \in Seq(T)
        BY <2>1 DEF Laid
      <3>2. 0 \in 0 .. k /\ f[0] = << >>
        BY <2>1 DEF Laid
      <3> QED
        BY <1>3, <3>1, <3>2
    <2>3. ASSUME NEW i \in 1 .. k PROVE g[i] = g[i - 1] \o s[i]
      <3>1. PICK j : j = i - 1
        OBVIOUS
      <3>2. j \in 0 .. (Len(gs) - 1) /\ j + 1 = i /\ j \in 0 .. k /\ i \in 0 .. k
        BY <2>1, <3>1
      <3>3. f[i] = f[j] \o gs[i]
        BY <3>2, LaidStep
      <3> QED
        BY <1>2, <1>3, <3>1, <3>2, <3>3
    <2> QED
      BY <1>2, <2>2, <2>3 DEF Laid
  <1>5. FlattenSeq(s) = g[k]
    BY <1>2, <1>4, FlattenIsLaid
  <1> QED
    BY <1>1, <1>3, <1>5

\* store_sql_emit_any_where numbers a term by where its parameter lies: the term i of
\* group g is the one at its placeholder among all the terms.
LEMMA TermsInPlace ==
  ASSUME NEW T, NEW gs \in Seq(Seq(T)), NEW g \in DOMAIN gs, NEW i \in DOMAIN gs[g]
  PROVE  /\ FlattenSeq(gs) \in Seq(T)
         /\ Before(gs, g) + i \in 1 .. Len(FlattenSeq(gs))
         /\ FlattenSeq(gs)[Before(gs, g) + i] = gs[g][i]
PROOF
  <1> DEFINE n == Len(gs)
  <1>1. n \in Nat /\ g \in 1 .. n /\ \A k \in 1 .. n : gs[k] \in Seq(T)
    OBVIOUS
  <1>2. PICK f : Laid(gs, T, f)
    BY LaidExists
  <1>3. FlattenSeq(gs) = f[n]
    BY <1>2, FlattenIsLaid
  <1>4. PICK b : b = Len(f[g - 1])
    OBVIOUS
  <1>5. Before(gs, g) = b /\ b \in Nat /\ f[g - 1] \in Seq(T)
    <2>1. g - 1 \in 0 .. Len(gs)
      BY <1>1
    <2>2. FlattenSeq(SubSeq(gs, 1, g - 1)) = f[g - 1]
      BY <1>2, <2>1, LaidPrefix
    <2>3. f[g - 1] \in Seq(T)
      BY <1>2, <2>1 DEF Laid
    <2> QED
      BY <1>4, <2>2, <2>3 DEF Before
  <1>6. i \in Nat /\ i >= 1 /\ i <= Len(gs[g])
    BY <1>1
  <1>m. PICK m \in Nat : m = b + i /\ m >= 1
    BY <1>5, <1>6
  <1> DEFINE S == {k \in 0 .. n : k >= g => /\ f[k] \in Seq(T)
                                           /\ m \in 1 .. Len(f[k])
                                           /\ f[k][m] = gs[g][i]}
  <1>7. 0 \in S
    BY <1>1
  <1>8. \A k \in 0 .. (n - 1) : k \in S => k + 1 \in S
    <2> SUFFICES ASSUME NEW k \in 0 .. (n - 1), k \in S, k + 1 >= g PROVE k + 1 \in S
      BY <1>1
    <2>1. k \in Nat /\ k + 1 \in 1 .. n /\ k + 1 \in 0 .. n /\ gs[k + 1] \in Seq(T)
      BY <1>1
    <2>2. f[k + 1] = f[k] \o gs[k + 1] /\ f[k] \in Seq(T) /\ f[k + 1] \in Seq(T)
      BY <1>2, LaidStep
    <2>a. PICK old \in Seq(T), new \in Seq(T), t \in Seq(T) :
            old = f[k] /\ new = f[k + 1] /\ t = gs[k + 1] /\ new = old \o t
      BY <2>1, <2>2
    <2>3. PICK x \in Nat, y \in Nat :
            /\ x = Len(old) /\ y = Len(t) /\ Len(new) = x + y
            /\ \A j \in 1 .. x : new[j] = old[j]
            /\ \A j \in 1 .. y : new[x + j] = t[j]
      <3>1. /\ Len(old) \in Nat /\ Len(t) \in Nat
            /\ Len(old \o t) = Len(old) + Len(t)
            /\ \A j \in 1 .. Len(old) : (old \o t)[j] = old[j]
            /\ \A j \in 1 .. Len(t) : (old \o t)[Len(old) + j] = t[j]
        BY ConcatAt
      <3>2. PICK x, y : x = Len(old) /\ y = Len(t)
        OBVIOUS
      <3>3. /\ x \in Nat /\ y \in Nat /\ Len(new) = x + y
            /\ \A j \in 1 .. x : new[j] = old[j]
            /\ \A j \in 1 .. y : new[x + j] = t[j]
        BY <2>a, <3>1, <3>2
      <3> QED
        BY <3>2, <3>3
    <2> SUFFICES m \in 1 .. Len(new) /\ new[m] = gs[g][i]
      BY <2>1, <2>a
    <2>4. CASE k + 1 = g
      <3>1. g - 1 = k
        BY <1>1, <2>1, <2>4
      <3>2. b = x
        BY <1>4, <2>a, <2>3, <3>1
      <3>3. i \in 1 .. y /\ t = gs[g]
        BY <1>6, <2>a, <2>3, <2>4
      <3>4. m \in 1 .. Len(new)
        BY <1>m, <2>3, <3>2, <3>3
      <3>5. new[m] = t[i]
        BY <1>m, <2>3, <3>2, <3>3
      <3> QED
        BY <3>3, <3>4, <3>5
    <2>5. CASE k >= g
      <3>1. m \in 1 .. x /\ old[m] = gs[g][i]
        BY <2>a, <2>3, <2>5
      <3> QED
        BY <2>3, <3>1
    <2> QED
      BY <1>1, <2>1, <2>4, <2>5
  <1>9. 0 .. n \subseteq S
    <2> HIDE DEF S, n
    <2> QED
      BY <1>1, <1>7, <1>8, InductUpTo
  <1>10. n \in S /\ n >= g
    <2> HIDE DEF S, n
    <2> QED
      BY <1>1, <1>9
  <1> QED
    BY <1>m, <1>3, <1>5, <1>10

\* The terms of a predicate before they are checked.
Terms == [col : Int, cmp : STRING, val : GeasValues]

\* Of the parameters an entry point binds, each comparison reads the one of its own
\* term, and a bound that follows them has the next number.
LEMMA ParamsReach ==
  ASSUME NEW gs \in Seq(Seq(Terms)), NEW extra \in Seq(GeasValues),
         NEW g \in DOMAIN gs, NEW i \in DOMAIN gs[g],
         NEW ps, ps = bind_params(TermParams(gs) \o extra)
  PROVE  /\ store_sql_emit_any_where(gs)[g][i].col = gs[g][i].col
         /\ store_sql_emit_any_where(gs)[g][i].cmp = gs[g][i].cmp
         /\ ps[store_sql_emit_any_where(gs)[g][i].ph] =
              bind_one(gs[g][i].val.ty, gs[g][i].val.v)
PROOF
  <1>1. PICK terms : terms = FlattenSeq(gs)
    OBVIOUS
  <1>2. PICK m : m = Before(gs, g) + i
    OBVIOUS
  <1>3. terms \in Seq(Terms) /\ m \in 1 .. Len(terms) /\ terms[m] = gs[g][i]
    BY <1>1, <1>2, TermsInPlace
  <1>4. PICK vals : vals = TermParams(gs)
    OBVIOUS
  <1>5. vals \in Seq(GeasValues) /\ Len(vals) = Len(terms) /\ vals[m] = gs[g][i].val
    <2>1. vals = [j \in 1 .. Len(terms) |-> terms[j].val]
      BY <1>1, <1>3, <1>4 DEF TermParams
    <2>2. \A j \in 1 .. Len(terms) : terms[j].val \in GeasValues
      <3>1. \A j \in 1 .. Len(terms) : terms[j] \in Terms
        BY <1>3
      <3>2. \A t \in Terms : t.val \in GeasValues
        BY DEF Terms
      <3> QED
        BY <3>1, <3>2
    <2>3. Len(terms) \in Nat
      BY <1>3
    <2> QED
      BY <1>3, <2>1, <2>2, <2>3
  <1>6. m \in DOMAIN (vals \o extra) /\ (vals \o extra)[m] = gs[g][i].val
    <2>1. /\ vals \o extra \in Seq(GeasValues) /\ Len(vals) \in Nat /\ Len(extra) \in Nat
          /\ Len(vals \o extra) = Len(vals) + Len(extra)
          /\ \A j \in 1 .. Len(vals) : (vals \o extra)[j] = vals[j]
      BY <1>5, ConcatAt
    <2> QED
      BY <1>3, <1>5, <2>1
  <1>7. ps[m] = bind_one(gs[g][i].val.ty, gs[g][i].val.v)
    BY <1>4, <1>6 DEF bind_params
  <1> QED
    BY <1>2, <1>7 DEF store_sql_emit_any_where

LEMMA BoundReaches ==
  ASSUME NEW gs \in Seq(Seq(Terms)), NEW limit \in Int,
         NEW ps, ps = bind_params(TermParams(gs) \o << [ty |-> "Int", v |-> limit] >>)
  PROVE  ps[Len(FlattenSeq(gs)) + 1] = limit
PROOF
  <1>1. PICK terms : terms = FlattenSeq(gs)
    OBVIOUS
  <1>2. PICK f : Laid(gs, Terms, f)
    BY LaidExists
  <1>3. terms \in Seq(Terms)
    BY <1>1, <1>2, FlattenIsLaid DEF Laid
  <1>4. PICK n \in Nat : n = Len(terms)
    BY <1>3
  <1>5. PICK vals : vals = TermParams(gs)
    OBVIOUS
  <1>7. PICK x : x = [ty |-> "Int", v |-> limit]
    OBVIOUS
  <1>6. PICK V : vals \in Seq(V) /\ x \in V /\ Len(vals) = n
    <2>1. vals = [j \in 1 .. n |-> terms[j].val]
      BY <1>1, <1>3, <1>4, <1>5 DEF TermParams
    <2>2. PICK V : V = {vals[j] : j \in 1 .. n} \cup {x}
      OBVIOUS
    <2>3. \A j \in 1 .. n : vals[j] \in V
      BY <2>2
    <2>4. vals \in [1 .. n -> V]
      BY <2>1, <2>3
    <2>5. vals \in Seq(V) /\ Len(vals) = n
      BY <2>4
    <2> QED
      BY <2>2, <2>5
  <1>8. DOMAIN (vals \o <<x>>) = 1 .. (n + 1) /\ (vals \o <<x>>)[n + 1] = x
    <2>1. PICK t : t = <<x>>
      OBVIOUS
    <2>2. t \in Seq(V) /\ Len(t) = 1 /\ t[1] = x
      BY <1>6, <2>1
    <2>3. /\ vals \o t \in Seq(V) /\ Len(vals \o t) = n + 1
          /\ (vals \o t)[n + 1] = t[1]
      <3>1. ASSUME NEW A, NEW a \in Seq(A), NEW b \in Seq(A)
            PROVE  /\ a \o b \in Seq(A) /\ Len(a \o b) = Len(a) + Len(b)
                   /\ \A i \in 1 .. Len(b) : (a \o b)[Len(a) + i] = b[i]
        BY ConcatAt
      <3>2. /\ vals \o t \in Seq(V) /\ Len(vals \o t) = Len(vals) + Len(t)
            /\ \A i \in 1 .. Len(t) : (vals \o t)[Len(vals) + i] = t[i]
        BY <1>6, <2>2, <3>1
      <3> QED
        BY <1>6, <2>2, <3>2
    <2> QED
      BY <2>1, <2>2, <2>3
  <1>9. ps[n + 1] = bind_one(x.ty, x.v)
    BY <1>5, <1>7, <1>8 DEF bind_params
  <1> QED
    BY <1>1, <1>4, <1>7, <1>9 DEF bind_one

LEMMA FlattenOne ==
  ASSUME NEW T, NEW terms \in Seq(T)
  PROVE  FlattenSeq(<<terms>>) = terms
PROOF
  <1>1. PICK gs : gs = <<terms>>
    OBVIOUS
  <1>2. gs \in Seq(Seq(T)) /\ Len(gs) = 1 /\ gs[1] = terms
    BY <1>1
  <1>3. PICK f : Laid(gs, T, f)
    BY <1>2, LaidExists
  <1>4. f[1] = f[0] \o gs[1] /\ f[0] = << >>
    <2>1. 0 \in 0 .. (Len(gs) - 1)
      BY <1>2
    <2>2. f[0 + 1] = f[0] \o gs[0 + 1]
      BY <1>2, <1>3, <2>1, LaidStep
    <2> QED
      BY <1>3, <2>2 DEF Laid
  <1>5. FlattenSeq(gs) = f[1]
    BY <1>2, <1>3, FlattenIsLaid
  <1> QED
    BY <1>1, <1>2, <1>4, <1>5

\* The last term of the last group has the number of all the terms.
LEMMA LastTermIsLast ==
  ASSUME NEW T, NEW gs \in Seq(Seq(T)), gs # << >>
  PROVE  /\ Len(gs) \in DOMAIN gs
         /\ Before(gs, Len(gs)) + Len(gs[Len(gs)]) = Len(FlattenSeq(gs))
PROOF
  <1>1. PICK n \in Nat : n = Len(gs) /\ n >= 1
    OBVIOUS
  <1>2. PICK k \in Nat : k + 1 = n
    BY <1>1
  <1>3. k \in 0 .. (Len(gs) - 1) /\ k \in 0 .. Len(gs) /\ n - 1 = k /\ n \in DOMAIN gs
    BY <1>1, <1>2
  <1>4. PICK f : Laid(gs, T, f)
    BY LaidExists
  <1>5. f[n] = f[k] \o gs[n] /\ f[k] \in Seq(T) /\ gs[n] \in Seq(T)
    BY <1>2, <1>3, <1>4, LaidStep
  <1>6. Len(f[n]) = Len(f[k]) + Len(gs[n])
    BY <1>5, ConcatAt
  <1>7. FlattenSeq(gs) = f[n] /\ FlattenSeq(SubSeq(gs, 1, k)) = f[k]
    BY <1>1, <1>3, <1>4, FlattenIsLaid, LaidPrefix
  <1> QED
    BY <1>1, <1>3, <1>6, <1>7 DEF Before

\* The check bind_params begins with never refuses a frame of the builders: a statement over
\* a predicate of any groups has as many placeholders as the frame has values, with
\* the bound of a page behind the terms or without one, and every value is a scalar.
THEOREM FramesBind ==
  ASSUME NEW gs \in Seq(Seq(Terms)), TermsOK(gs),
         NEW extra \in Seq(GeasValues), NEW lim \in Int,
         \/ lim \in {0, -1} /\ extra = << >>
         \/ lim = Len(FlattenSeq(gs)) + 1 /\ Len(extra) = 1,
         NEW what, NEW col, NEW order, NEW desc
  PROVE  bind_status(ParamCount(Stmt(what, col, store_sql_emit_any_where(gs), order, desc, lim)),
                     TermParams(gs) \o extra) = "OK"
PROOF
  <1> DEFINE s == Stmt(what, col, store_sql_emit_any_where(gs), order, desc, lim)
             flat == FlattenSeq(gs)
             Phs == UNION {{s.where[g][i].ph : i \in DOMAIN s.where[g]} : g \in DOMAIN s.where}
  <1>1. gs # << >> /\ \A g \in DOMAIN gs : gs[g] \in Seq(Terms) /\ gs[g] # << >>
    BY DEF TermsOK
  <1>2. /\ Len(gs) \in DOMAIN gs
        /\ Before(gs, Len(gs)) + Len(gs[Len(gs)]) = Len(flat)
    BY <1>1, LastTermIsLast
  <1>3. /\ \A g \in DOMAIN gs : \A i \in DOMAIN gs[g] :
             /\ Before(gs, g) + i \in 1 .. Len(flat)
             /\ flat[Before(gs, g) + i] = gs[g][i]
        /\ flat \in Seq(Terms)
    <2>1. \A g \in DOMAIN gs : \A i \in DOMAIN gs[g] :
             /\ flat \in Seq(Terms)
             /\ Before(gs, g) + i \in 1 .. Len(flat)
             /\ flat[Before(gs, g) + i] = gs[g][i]
      BY TermsInPlace
    <2>2. 1 \in DOMAIN gs[Len(gs)]
      BY <1>1, <1>2
    <2> QED
      BY <1>2, <2>1, <2>2
  <1>n. PICK n \in Nat : n = Len(flat) /\ n >= 1
    BY <1>1, <1>2, <1>3
  <1>4. n \in Phs /\ \A p \in Phs : p \in 1 .. n
    <2>1. /\ DOMAIN s.where = DOMAIN gs /\ s.lim = lim
          /\ \A g \in DOMAIN gs : /\ DOMAIN s.where[g] = DOMAIN gs[g]
                                  /\ \A i \in DOMAIN gs[g] : s.where[g][i].ph = Before(gs, g) + i
      BY DEF Stmt, store_sql_emit_any_where
    <2>2. Len(gs[Len(gs)]) \in DOMAIN gs[Len(gs)]
      BY <1>1, <1>2
    <2>3. n \in Phs
      <3>1. s.where[Len(gs)][Len(gs[Len(gs)])].ph = n
        BY <1>2, <1>n, <2>1, <2>2
      <3>2. ASSUME NEW W, NEW g \in DOMAIN W, NEW i \in DOMAIN W[g]
            PROVE  W[g][i].ph \in UNION {{W[h][j].ph : j \in DOMAIN W[h]} : h \in DOMAIN W}
        <4>1. W[g][i].ph \in {W[g][j].ph : j \in DOMAIN W[g]}
          OBVIOUS
        <4> QED
          BY <4>1
      <3>3. Len(gs) \in DOMAIN s.where /\ Len(gs[Len(gs)]) \in DOMAIN s.where[Len(gs)]
        BY <1>2, <2>1, <2>2
      <3> HIDE DEF s
      <3> QED
        BY <3>1, <3>2, <3>3
    <2>4. ASSUME NEW p \in Phs PROVE p \in 1 .. n
      <3>1. PICK g \in DOMAIN s.where : \E i \in DOMAIN s.where[g] : p = s.where[g][i].ph
        BY <2>4, Zenon
      <3>2. PICK i \in DOMAIN s.where[g] : p = s.where[g][i].ph
        BY <3>1
      <3> QED
        BY <1>3, <1>n, <2>1, <3>1, <3>2
    <2> QED
      BY <2>3, <2>4
  <1> HIDE DEF Phs
  <1>5. PICK N \in Nat : /\ N = n + Len(extra)
                         /\ N \in {0, lim} \cup Phs
                         /\ \A p \in {0, lim} \cup Phs : p \in Int /\ N >= p
    <2>1. CASE lim \in {0, -1} /\ extra = << >>
      BY <1>n, <1>4, <2>1
    <2>2. CASE lim = n + 1 /\ Len(extra) = 1
      <3>1. \A p \in {0, lim} \cup Phs : p \in Int /\ n + 1 >= p
        BY <1>n, <1>4, <2>2
      <3>2. n + 1 \in Nat /\ n + 1 = n + Len(extra) /\ n + 1 \in {0, lim} \cup Phs
        BY <2>2
      <3> QED
        BY <3>1, <3>2
    <2> QED
      BY <1>n, <2>1, <2>2
  <1>6. ParamCount(s) = N
    <2>1. ParamCount(s) = Max({0, lim} \cup Phs)
      BY DEF ParamCount, Stmt, Phs
    <2>2. PICK S : S = {0, lim} \cup Phs
      OBVIOUS
    <2>3. N \in S /\ \A p \in S : p \in Int /\ N >= p
      BY <1>5, <2>2
    <2>4. ASSUME NEW x \in S, \A y \in S : x >= y PROVE x = N
      BY <2>3, <2>4
    <2>5. Max(S) = N
      BY <2>3, <2>4 DEF Max
    <2> QED
      BY <2>1, <2>2, <2>5
  <1>7. TermParams(gs) \in Seq(GeasValues) /\ Len(TermParams(gs)) = n
    <2>1. \A j \in 1 .. n : flat[j].val \in GeasValues
      <3>1. \A j \in 1 .. n : flat[j] \in Terms
        BY <1>3, <1>n
      <3>2. \A t \in Terms : t.val \in GeasValues
        BY DEF Terms
      <3> QED
        BY <3>1, <3>2
    <2> QED
      BY <1>3, <1>n, <2>1 DEF TermParams
  <1>8. PICK ps \in Seq(GeasValues) : ps = TermParams(gs) \o extra /\ Len(ps) = N
    <2>1. PICK vals \in Seq(GeasValues) : vals = TermParams(gs) /\ Len(vals) = n
      BY <1>7
    <2>2. vals \o extra \in Seq(GeasValues) /\ Len(vals \o extra) = Len(vals) + Len(extra)
      BY ConcatAt
    <2> QED
      BY <1>5, <2>1, <2>2
  <1>9. \A i \in DOMAIN ps : ps[i].ty \in Scalars
    BY <1>8 DEF GeasValues
  <1> QED
    BY <1>6, <1>8, <1>9 DEF bind_status

-----------------------------------------------------------------------------
(* Sums over a column.                                                      *)

\* One step of the fold behind Total: an arbitrary row first.
Folded(S, col, f) ==
  f = [s \in SUBSET S |->
         IF s = {} THEN 0
         ELSE (CHOOSE r \in s : TRUE)[col] + f[s \ {CHOOSE r \in s : TRUE}]]

LEMMA FoldExists ==
  ASSUME NEW S, IsFiniteSet(S), NEW col
  PROVE  \E f : Folded(S, col, f)
PROOF
  <1> DEFINE First(s) == CHOOSE r \in s : TRUE
             Step(f, s) == IF s = {} THEN 0 ELSE First(s)[col] + f[s \ {First(s)}]
             Upto(k, f) == \A s \in SUBSET S : Cardinality(s) <= k => f[s] = Step(f, s)
             K == {k \in Nat : \E f : f = [s \in SUBSET S |-> f[s]] /\ Upto(k, f)}
  <1>1. \A s \in SUBSET S : IsFiniteSet(s) /\ Cardinality(s) \in Nat
    BY FS_Subset, FS_CardinalityType
  <1>2. 0 \in K
    <2>1. PICK f : f = [s \in SUBSET S |-> 0]
      OBVIOUS
    <2>2. \A s \in SUBSET S : Cardinality(s) <= 0 => s = {}
      BY <1>1, FS_EmptySet
    <2>3. Upto(0, f)
      BY <2>1, <2>2
    <2>4. f = [s \in SUBSET S |-> f[s]]
      BY <2>1
    <2> QED
      BY <2>3, <2>4, Zenon
  <1>3. \A k \in Nat : k \in K => k + 1 \in K
    <2> SUFFICES ASSUME NEW k \in Nat, k \in K PROVE k + 1 \in K
      OBVIOUS
    <2>1. PICK f : f = [s \in SUBSET S |-> f[s]] /\ Upto(k, f)
      OBVIOUS
    <2>2. PICK g : g = [s \in SUBSET S |-> Step(f, s)]
      OBVIOUS
    <2>3. \A s \in SUBSET S : Cardinality(s) <= k => g[s] = f[s]
      BY <2>1, <2>2
    <2>4. Upto(k + 1, g)
      <3> SUFFICES ASSUME NEW s \in SUBSET S, Cardinality(s) <= k + 1, s # {}
                   PROVE  g[s] = Step(g, s)
        BY <2>2
      <3>1. PICK t : t = s \ {First(s)}
        OBVIOUS
      <3>2. First(s) \in s
        OBVIOUS
      <3>3. t \in SUBSET S /\ Cardinality(t) = Cardinality(s) - 1
        BY <1>1, <3>1, <3>2, FS_RemoveElement
      <3>4. Cardinality(t) <= k
        BY <1>1, <3>3
      <3>5. g[t] = f[t]
        BY <2>3, <3>3, <3>4
      <3> QED
        BY <2>2, <3>1, <3>5
    <2>5. g = [s \in SUBSET S |-> g[s]]
      BY <2>2
    <2>6. k + 1 \in Nat
      OBVIOUS
    <2> QED
      BY <2>4, <2>5, <2>6, Zenon
  <1>4. Cardinality(S) \in K
    <2> HIDE DEF K
    <2> QED
      BY <1>1, <1>2, <1>3, Induct
  <1>5. PICK f : f = [s \in SUBSET S |-> f[s]] /\ Upto(Cardinality(S), f)
    BY <1>4
  <1>6. \A s \in SUBSET S : f[s] = Step(f, s)
    BY <1>5, FS_Subset
  <1>7. f = [s \in SUBSET S |-> Step(f, s)]
    BY <1>5, <1>6, Zenon
  <1> QED
    BY <1>7 DEF Folded

LEMMA TotalIsFold ==
  ASSUME NEW S, IsFiniteSet(S), NEW col
  PROVE  \E f : Folded(S, col, f) /\ Total(S, col) = f[S]
PROOF
  <1>1. PICK g : g = CHOOSE f : Folded(S, col, f)
    OBVIOUS
  <1>2. Folded(S, col, g)
    BY <1>1, FoldExists
  <1>3. Total(S, col) = g[S]
    BY <1>1, Zenon DEF Total, MapThenSumSet, MapThenFoldSet, Folded
  <1> QED
    BY <1>2, <1>3

\* The folds of two sets agree where both are defined.
LEMMA FoldsAgree ==
  ASSUME NEW S, IsFiniteSet(S), NEW col, NEW f, Folded(S, col, f),
         NEW T \in SUBSET S, NEW g, Folded(T, col, g)
  PROVE  \A s \in SUBSET T : f[s] = g[s]
PROOF
  <1> DEFINE First(s) == CHOOSE r \in s : TRUE
             K == {k \in Nat : \A s \in SUBSET T : Cardinality(s) = k => f[s] = g[s]}
  <1>1. \A s \in SUBSET T : IsFiniteSet(s) /\ Cardinality(s) \in Nat
    BY FS_Subset, FS_CardinalityType
  <1>2. 0 \in K
    BY <1>1, FS_EmptySet DEF Folded
  <1>3. \A k \in Nat : k \in K => k + 1 \in K
    <2> SUFFICES ASSUME NEW k \in Nat, k \in K, NEW s \in SUBSET T, Cardinality(s) = k + 1
                 PROVE  f[s] = g[s]
      OBVIOUS
    <2>1. s # {}
      BY FS_EmptySet
    <2>2. PICK t : t = s \ {First(s)}
      OBVIOUS
    <2>3. First(s) \in s
      BY <2>1
    <2>4. IsFiniteSet(s)
      BY <1>1
    <2>5. Cardinality(t) = Cardinality(s) - 1
      BY <2>2, <2>3, <2>4, FS_RemoveElement
    <2>6. t \in SUBSET T /\ f[t] = g[t]
      BY <2>2, <2>5
    <2>7. f[s] = First(s)[col] + f[t] /\ g[s] = First(s)[col] + g[t]
      BY <2>1, <2>2 DEF Folded
    <2> QED
      BY <2>6, <2>7
  <1>4. Nat \subseteq K
    <2> HIDE DEF K
    <2> QED
      BY <1>2, <1>3, Induct
  <1> QED
    BY <1>1, <1>4

\* Total unfolds: nothing is zero, and some row comes first.
LEMMA TotalUnfolds ==
  ASSUME NEW S, IsFiniteSet(S), NEW col
  PROVE  /\ S = {} => Total(S, col) = 0
         /\ S # {} => \E r \in S : Total(S, col) = r[col] + Total(S \ {r}, col)
PROOF
  <1>1. PICK f : Folded(S, col, f) /\ Total(S, col) = f[S]
    BY TotalIsFold
  <1>2. CASE S = {}
    BY <1>1, <1>2 DEF Folded
  <1>3. CASE S # {}
    <2>1. PICK r : r = CHOOSE x \in S : TRUE
      OBVIOUS
    <2>2. r \in S
      BY <1>3, <2>1
    <2>3. f[S] = r[col] + f[S \ {r}]
      BY <1>1, <1>3, <2>1 DEF Folded
    <2>4. IsFiniteSet(S \ {r})
      BY FS_RemoveElement
    <2>5. PICK g : Folded(S \ {r}, col, g) /\ Total(S \ {r}, col) = g[S \ {r}]
      BY <2>4, TotalIsFold
    <2>6. f[S \ {r}] = g[S \ {r}]
      BY <1>1, <2>5, FoldsAgree
    <2> QED
      BY <1>1, <2>2, <2>3, <2>5, <2>6
  <1> QED
    BY <1>2, <1>3

\* The rows have a number in the column.
Summed(S, col) == IsFiniteSet(S) /\ \A r \in S : r[col] \in Int

\* A total is a number.
LEMMA TotalInt ==
  ASSUME NEW S, NEW col, Summed(S, col)
  PROVE  Total(S, col) \in Int
PROOF
  <1> DEFINE K == {k \in Nat : \A T \in SUBSET S : Cardinality(T) = k => Total(T, col) \in Int}
  <1>1. \A T \in SUBSET S : IsFiniteSet(T) /\ Cardinality(T) \in Nat
    BY FS_Subset, FS_CardinalityType DEF Summed
  <1>2. 0 \in K
    BY <1>1, FS_EmptySet, TotalUnfolds
  <1>3. \A k \in Nat : k \in K => k + 1 \in K
    <2> SUFFICES ASSUME NEW k \in Nat, k \in K, NEW T \in SUBSET S, Cardinality(T) = k + 1
                 PROVE  Total(T, col) \in Int
      OBVIOUS
    <2>1. IsFiniteSet(T) /\ T # {}
      BY <1>1, FS_EmptySet
    <2>2. PICK x \in T : Total(T, col) = x[col] + Total(T \ {x}, col)
      BY <2>1, TotalUnfolds
    <2>3. Cardinality(T \ {x}) = Cardinality(T) - 1
      BY <2>1, FS_RemoveElement
    <2>4. Total(T \ {x}, col) \in Int
      BY <2>3
    <2>5. x[col] \in Int
      BY DEF Summed
    <2> QED
      BY <2>2, <2>4, <2>5
  <1>4. Nat \subseteq K
    <2> HIDE DEF K
    <2> QED
      BY <1>2, <1>3, Induct
  <1> QED
    BY <1>1, <1>4

\* Any row can be taken out first.
LEMMA TotalSplits ==
  ASSUME NEW S, NEW col, Summed(S, col)
  PROVE  /\ Total(S, col) \in Int
         /\ \A r \in S : Total(S, col) = r[col] + Total(S \ {r}, col)
PROOF
  <1> DEFINE Good(T) == /\ Total(T, col) \in Int
                        /\ \A r \in T : Total(T, col) = r[col] + Total(T \ {r}, col)
             K == {k \in Nat : \A T \in SUBSET S : Cardinality(T) = k => Good(T)}
  <1>1. \A T \in SUBSET S : IsFiniteSet(T) /\ Cardinality(T) \in Nat
    BY FS_Subset, FS_CardinalityType DEF Summed
  <1>2. 0 \in K
    <2>1. \A T \in SUBSET S : Cardinality(T) = 0 => T = {}
      BY <1>1, FS_EmptySet
    <2>2. Total({}, col) = 0
      BY FS_EmptySet, TotalUnfolds
    <2>3. Good({})
      BY <2>2
    <2>4. ASSUME NEW T \in SUBSET S, Cardinality(T) = 0 PROVE Good(T)
      BY <2>1, <2>3, <2>4
    <2> HIDE DEF Good
    <2> QED
      BY <2>4
  <1>3. \A k \in Nat : k \in K => k + 1 \in K
    <2> SUFFICES ASSUME NEW k \in Nat, k \in K, NEW T \in SUBSET S, Cardinality(T) = k + 1
                 PROVE  Good(T)
      OBVIOUS
    <2>1. IsFiniteSet(T) /\ T # {}
      BY <1>1, FS_EmptySet
    <2>2. PICK x \in T : Total(T, col) = x[col] + Total(T \ {x}, col)
      BY <2>1, TotalUnfolds
    <2>3. \A r \in T : r[col] \in Int /\ T \ {r} \in SUBSET S /\ Cardinality(T \ {r}) = k
      <3> SUFFICES ASSUME NEW r \in T PROVE r[col] \in Int /\ Cardinality(T \ {r}) = k
        OBVIOUS
      <3>1. Cardinality(T \ {r}) = Cardinality(T) - 1
        BY <2>1, FS_RemoveElement
      <3> QED
        BY <3>1 DEF Summed
    <2>4. \A r \in T : Good(T \ {r})
      BY <2>3
    <2>5. Total(T, col) \in Int
      BY <2>2, <2>3, <2>4
    <2>6. ASSUME NEW r \in T, r # x
          PROVE  Total(T, col) = r[col] + Total(T \ {r}, col)
      <3>1. Total(T \ {x}, col) = r[col] + Total((T \ {x}) \ {r}, col)
        BY <2>4, <2>6
      <3>2. Total(T \ {r}, col) = x[col] + Total((T \ {r}) \ {x}, col)
        BY <2>4, <2>6
      <3>3. (T \ {x}) \ {r} = (T \ {r}) \ {x}
        OBVIOUS
      <3>4. PICK a \in Int, b \in Int, u \in Int, w \in Int :
              /\ a = x[col] /\ b = r[col] /\ u = Total(T \ {x}, col) /\ w = Total(T \ {r}, col)
        BY <2>3, <2>4
      <3>5. PICK z : z = Total((T \ {x}) \ {r}, col)
        OBVIOUS
      <3>6. z \in Int
        <4>1. (T \ {x}) \ {r} \in SUBSET S /\ IsFiniteSet(T \ {x}) /\ r \in T \ {x}
          BY <1>1, <2>6
        <4>2. Summed((T \ {x}) \ {r}, col)
          BY <1>1, <4>1 DEF Summed
        <4> QED
          BY <3>5, <4>2, TotalInt
      <3> QED
        BY <2>2, <3>1, <3>2, <3>3, <3>4, <3>5, <3>6
    <2> QED
      BY <2>2, <2>5, <2>6
  <1>4. Nat \subseteq K
    <2> HIDE DEF K
    <2> QED
      BY <1>2, <1>3, Induct
  <1>5. S \in SUBSET S /\ Cardinality(S) \in K
    BY <1>1, <1>4
  <1> QED
    BY <1>5

\* A total stays when every row is replaced by one with the same number in the column.
LEMMA TotalOfImage ==
  ASSUME NEW S, NEW col, Summed(S, col), NEW h,
         \A x, y \in S : h[x] = h[y] => x = y,
         \A x \in S : h[x][col] = x[col]
  PROVE  Total({h[x] : x \in S}, col) = Total(S, col)
PROOF
  <1> DEFINE Im(T) == {h[x] : x \in T}
             F == {T \in SUBSET S : Total(Im(T), col) = Total(T, col)}
  <1>1. \A T \in SUBSET S : Summed(T, col) /\ Summed(Im(T), col)
    <2> SUFFICES ASSUME NEW T \in SUBSET S PROVE Summed(T, col) /\ Summed(Im(T), col)
      OBVIOUS
    <2>1. IsFiniteSet(T) /\ \A x, y \in T : h[x] = h[y] => x = y
      BY FS_Subset DEF Summed
    <2>2. IsFiniteSet(Im(T))
      BY <2>1, SameCount
    <2>3. \A x \in T : x[col] \in Int /\ h[x][col] \in Int
      BY DEF Summed
    <2> QED
      BY <2>1, <2>2, <2>3 DEF Summed
  <1>2. {} \in F
    OBVIOUS
  <1>3. \A T \in SUBSET S : \A x \in S \ T : T \in F => T \cup {x} \in F
    <2> SUFFICES ASSUME NEW T \in SUBSET S, NEW x \in S \ T, T \in F PROVE T \cup {x} \in F
      OBVIOUS
    <2>1. PICK U : U = T \cup {x}
      OBVIOUS
    <2>2. U \in SUBSET S /\ x \in U /\ U \ {x} = T
      BY <2>1
    <2>3. Total(U, col) = x[col] + Total(T, col)
      BY <1>1, <2>2, TotalSplits
    <2>4. h[x] \in Im(U) /\ Im(U) \ {h[x]} = Im(T)
      BY <2>1
    <2>5. Total(Im(U), col) = h[x][col] + Total(Im(U) \ {h[x]}, col)
      <3> HIDE DEF Im
      <3> QED
        BY <1>1, <2>2, <2>4, TotalSplits
    <2>6. Total(Im(T), col) = Total(T, col)
      OBVIOUS
    <2>7. Total(Im(U), col) = Total(U, col)
      <3> HIDE DEF Im
      <3> QED
        BY <2>3, <2>4, <2>5, <2>6
    <2> QED
      BY <2>1, <2>2, <2>7
  <1>4. S \in F
    <2>1. IsFiniteSet(S)
      BY DEF Summed
    <2> HIDE DEF F
    <2>2. SUBSET S \subseteq F
      BY <1>2, <1>3, <2>1, FiniteInduct
    <2> QED
      BY <2>2
  <1> QED
    BY <1>4

-----------------------------------------------------------------------------
(* Comparisons and walks.                                                   *)

\* A comparison of cells is the comparison of the values, but for the order of a
\* UInt whose top bit is set.
LEMMA CompareSame ==
  ASSUME NEW ty \in Scalars, NEW x \in Cells(ty), NEW v \in Payloads(ty), NEW cmp \in Cmps,
         cmp \in {"EQ", "NE"} \/ ty # "UInt" \/ (x >= 0 /\ bind_one(ty, v) = v)
  PROVE  Compare(cmp, x, bind_one(ty, v)) <=> Compare(cmp, read_cell(ty, x), v)
PROOF
  <1>1. x = bind_one(ty, v) <=> read_cell(ty, x) = v
    BY BindThenRead, ReadThenBind
  <1>2. CASE cmp \in {"EQ", "NE"}
    BY <1>1, <1>2 DEF Compare
  <1>3. CASE cmp \notin {"EQ", "NE"}
    <2>1. read_cell(ty, x) = x
      BY <1>3, ReadThenBind
    <2>2. bind_one(ty, v) = v
      BY <1>3 DEF bind_one
    <2> QED
      BY <2>1, <2>2
  <1> QED
    BY <1>2, <1>3

LEMMA MinOfTwo ==
  ASSUME NEW a \in Int, NEW b \in Int
  PROVE  Min({a, b}) = IF a <= b THEN a ELSE b
PROOF
  <1>1. \E x \in {a, b} : \A y \in {a, b} : x <= y
    OBVIOUS
  <1>2. PICK m : m = Min({a, b})
    OBVIOUS
  <1>3. m \in {a, b} /\ \A y \in {a, b} : m <= y
    BY <1>1, <1>2 DEF Min
  <1> QED
    BY <1>2, <1>3

\* The bound of a statement is none, one, or a natural number that was bound.
LimOK(s, ps) == s.lim \in Int /\ (s.lim \notin {0, -1} => ps[s.lim] \in Nat)

\* A walk: all the hits in an order the statement allows, cut at its bound.
IsWalk(s, ps, hits, v, n) ==
  /\ v \in [1 .. Cardinality(hits) -> hits]
  /\ \A i, j \in 1 .. Cardinality(hits) : i # j => v[i] # v[j]
  /\ \A r \in hits : \E i \in 1 .. Cardinality(hits) : v[i] = r
  /\ InOrder(s, v)
  /\ Cardinality(hits) \in Nat
  /\ n = Bound(s, ps, Cardinality(hits))
  /\ n \in 0 .. Cardinality(hits)

LEMMA BoundFits ==
  ASSUME NEW s, NEW ps, LimOK(s, ps), NEW n \in Nat
  PROVE  /\ Bound(s, ps, n) \in 0 .. n
         /\ s.lim = 0 => Bound(s, ps, n) = n
         /\ s.lim = -1 => Bound(s, ps, n) = IF n = 0 THEN 0 ELSE 1
         /\ s.lim \notin {0, -1} => Bound(s, ps, n) = Min({ps[s.lim], n})
PROOF
  <1>1. CASE s.lim = 0
    BY <1>1 DEF Bound
  <1>2. CASE s.lim = -1
    <2>1. Bound(s, ps, n) = Min({1, n})
      BY <1>2 DEF Bound
    <2>2. Min({1, n}) = IF 1 <= n THEN 1 ELSE n
      BY MinOfTwo
    <2> QED
      BY <1>2, <2>1, <2>2
  <1>3. CASE s.lim \notin {0, -1}
    <2>1. Bound(s, ps, n) = Min({ps[s.lim], n})
      BY <1>3 DEF Bound
    <2>2. ps[s.lim] \in Nat
      BY <1>3 DEF LimOK
    <2>3. Min({ps[s.lim], n}) = IF ps[s.lim] <= n THEN ps[s.lim] ELSE n
      BY <2>2, MinOfTwo
    <2> QED
      BY <1>3, <2>1, <2>2, <2>3
  <1> QED
    BY <1>1, <1>2, <1>3

\* What a statement that selects rows, or one column of them, answers.
LEMMA AnswerIsWalk ==
  ASSUME NEW s, NEW ps, NEW table, IsFiniteSet(table), LimOK(s, ps),
         s.what \in {"rows", "col"}, NEW a \in Answers(s, ps, table)
  PROVE  \E v, n : /\ IsWalk(s, ps, Hits(s, ps, table), v, n)
                   /\ a = [i \in 1 .. n |-> IF s.what = "rows" THEN v[i] ELSE <<v[i][s.col]>>]
PROOF
  <1>1. PICK hits : hits = Hits(s, ps, table)
    OBVIOUS
  <1>2. IsFiniteSet(hits)
    <2>1. hits \in SUBSET table
      BY <1>1 DEF Hits
    <2> QED
      BY <2>1, FS_Subset
  <1>3. PICK N \in Nat : N = Cardinality(hits)
    BY <1>2, FS_CardinalityType
  <1>4. PICK v \in SetToSeqs(hits) :
          /\ InOrder(s, v)
          /\ a = IF s.what = "rows" THEN SubSeq(v, 1, Bound(s, ps, Len(v)))
                 ELSE LET w == SubSeq(v, 1, Bound(s, ps, Len(v)))
                      IN [i \in DOMAIN w |-> <<w[i][s.col]>>]
    BY <1>1 DEF Answers
  <1>5. v \in [1 .. N -> hits] /\ \A i, j \in 1 .. N : i # j => v[i] # v[j]
    BY <1>3, <1>4 DEF SetToSeqs
  <1>6. \A r \in hits : \E i \in 1 .. N : v[i] = r
    <2>1. v \in Injection(1 .. N, hits)
      BY <1>5 DEF Injection, IsInjective
    <2>2. Cardinality(1 .. N) = N
      BY FS_Interval
    <2>3. v \in Surjection(1 .. N, hits)
      BY <1>2, <1>3, <2>1, <2>2, FS_Injection
    <2> QED
      BY <2>3 DEF Surjection
  <1>7. PICK n \in 0 .. N : n = Bound(s, ps, N)
    BY BoundFits
  <1>8. v \in Seq(hits) /\ Len(v) = N
    BY <1>5
  <1>9. PICK w : w = SubSeq(v, 1, n)
    OBVIOUS
  <1>10. w = [i \in 1 .. n |-> v[i]]
    BY <1>5, <1>8, <1>9
  <1>11. IsWalk(s, ps, hits, v, n)
    BY <1>3, <1>4, <1>5, <1>6, <1>7 DEF IsWalk
  <1>12. a = IF s.what = "rows" THEN w ELSE [i \in DOMAIN w |-> <<w[i][s.col]>>]
    BY <1>4, <1>7, <1>8, <1>9
  <1>13. a = [i \in 1 .. n |-> IF s.what = "rows" THEN v[i] ELSE <<v[i][s.col]>>]
    BY <1>10, <1>12
  <1> QED
    BY <1>1, <1>11, <1>13

=============================================================================
