------------------------------ MODULE StoreSql ------------------------------
(***************************************************************************)
(* The statements of the Store surface (runtime.c) and the type map of the *)
(* driver (store.c), as pure operators over one schema.                    *)
(*                                                                         *)
(* A GeasValue is [ty, v]; a cell is the signed integer SQLite stores; a   *)
(* table is a set of rows, a row a tuple of cells, its first cell the      *)
(* primary key.  A prepared statement is a record whose comparisons name   *)
(* the numbered placeholder they are bound to, never the value: which      *)
(* parameter reaches which comparison is part of what is checked.          *)
(***************************************************************************)
EXTENDS Integers, Sequences, FiniteSets, FiniteSetsExt, SequencesExt

CONSTANTS
  Cols,    \* the schema's column tags, in declaration order
  Width    \* bits of an Int and of a UInt (64 in the code)

Scalars == {"Int", "UInt", "Float", "Bool", "Byte", "Char", "String"}

ASSUME ColsAssumption == Cols \in Seq(Scalars) /\ Cols # << >>
ASSUME WidthAssumption == Width \in Nat \ {0}

NCols == Len(Cols)

\* The weight of the top bit, 2^(Width - 1): the recursion is one a proof can unfold.
TopBit ==
  LET power[n \in 0 .. (Width - 1)] == IF n = 0 THEN 1 ELSE 2 * power[n - 1]
  IN power[Width - 1]

\* What the payload of a GeasValue of each tag can hold, and the values themselves.
Payloads(ty) ==
  CASE ty = "Int"  -> -TopBit .. (TopBit - 1)
    [] ty = "UInt" -> 0 .. (2 * TopBit - 1)
    [] ty = "Bool" -> {0, 1}
    [] ty = "Byte" -> 0 .. 255
    [] OTHER -> Int
GeasValues == {x \in [ty : Scalars, v : Int] : x.v \in Payloads(x.ty)}

-----------------------------------------------------------------------------
(* The type map.                                                            *)

\* bind_one: a UInt crosses by its bit pattern, the rest by value.
bind_one(ty, v) ==
  IF ty = "UInt" /\ v >= TopBit THEN v - 2 * TopBit ELSE v

\* The frame as bind_params leaves it in the statement.
bind_params(params) == [i \in DOMAIN params |-> bind_one(params[i].ty, params[i].v)]

\* What bind_params returns: the count of the frame first, then each value's tag.
bind_status(count, params) ==
  IF Len(params) # count THEN "STORE"
  ELSE IF \A i \in DOMAIN params : params[i].ty \in Scalars THEN "OK" ELSE "TYPE"

\* The switch of read_row.
read_cell(ty, x) ==
  CASE ty = "UInt" -> x % (2 * TopBit)
    [] ty = "Bool" -> IF x # 0 THEN 1 ELSE 0
    [] ty = "Byte" -> x % 256
    [] OTHER -> x

read_row(types, cells) == [i \in DOMAIN types |-> read_cell(types[i], cells[i])]

-----------------------------------------------------------------------------
(* Predicates.  A predicate is a sequence of groups, an or of ands; the     *)
(* conjunctive entry points pass a single group.                            *)

Cmps == {"EQ", "NE", "LT", "LE", "GT", "GE"}

\* The loop every entry point runs over its terms before it takes c->mu.
TermOK(t) == t.col \in 1 .. NCols /\ t.cmp \in Cmps /\ t.val.ty = Cols[t.col]

TermsOK(groups) ==
  /\ groups # << >>
  /\ \A g \in DOMAIN groups :
       groups[g] # << >> /\ \A i \in DOMAIN groups[g] : TermOK(groups[g][i])

\* params[i] = *terms[i].value, the groups' terms lying one after another.
TermParams(groups) ==
  LET terms == FlattenSeq(groups) IN [i \in DOMAIN terms |-> terms[i].val]

\* The first placeholder of a group is one past the terms of the groups before it.
Before(groups, g) == Len(FlattenSeq(SubSeq(groups, 1, g - 1)))

\* Mutant: the numbering runs through the groups from the last one.
where_backwards(groups) ==
  [g \in DOMAIN groups |->
     [i \in DOMAIN groups[g] |->
        [col |-> groups[g][i].col, cmp |-> groups[g][i].cmp,
         ph |-> Len(FlattenSeq(SubSeq(groups, g + 1, Len(groups)))) + i]]]

store_sql_emit_any_where(groups) ==
  [g \in DOMAIN groups |->
     [i \in DOMAIN groups[g] |->
        [col |-> groups[g][i].col, cmp |-> groups[g][i].cmp,
         ph |-> Before(groups, g) + i]]]

-----------------------------------------------------------------------------
(* The builders.  lim is 0 for none, -1 for the literal LIMIT 1, or the     *)
(* number of the placeholder the bound is read from.                        *)

Stmt(what, col, where, order, desc, lim) ==
  [what |-> what, col |-> col, where |-> where, order |-> order, desc |-> desc, lim |-> lim]

One(col, cmp) == << <<[col |-> col, cmp |-> cmp, ph |-> 1]>> >>

store_sql_select == Stmt("rows", 0, One(1, "EQ"), 0, FALSE, 0)
store_sql_select_eq(col) == Stmt("rows", 0, One(col, "EQ"), 0, FALSE, 0)

\* One conjunction, its terms numbered in order.
where_and(terms) == store_sql_emit_any_where(<<terms>>)

store_sql_select_where(terms) == Stmt("rows", 0, where_and(terms), 0, FALSE, 0)
store_sql_count_where(terms) == Stmt("count", 0, where_and(terms), 0, FALSE, 0)
store_sql_sum_where(col, terms) == Stmt("sum", col, where_and(terms), 0, FALSE, 0)
store_sql_select_ordered(terms, col, desc) ==
  Stmt("rows", 0, where_and(terms), col, desc, 0)
store_sql_select_page(terms, col, desc) ==
  Stmt("rows", 0, where_and(terms), col, desc, Len(terms) + 1)
store_sql_select_any(groups, order, desc, bounded) ==
  Stmt("rows", 0, store_sql_emit_any_where(groups), order, desc,
       IF bounded THEN Len(FlattenSeq(groups)) + 1 ELSE 0)
store_sql_count_any(groups) ==
  Stmt("count", 0, store_sql_emit_any_where(groups), 0, FALSE, 0)
store_sql_sum_any(col, groups) ==
  Stmt("sum", col, store_sql_emit_any_where(groups), 0, FALSE, 0)
store_sql_extreme_any(col, desc, groups) ==
  Stmt("col", col, store_sql_emit_any_where(groups), col, desc, -1)
store_sql_avg_any(col, groups) ==
  Stmt("avg", col, store_sql_emit_any_where(groups), 0, FALSE, 0)

\* The result types the caller of geas_store_query declares.
Types(s) ==
  CASE s.what = "rows"  -> Cols
    [] s.what = "count" -> <<"Int">>
    [] s.what = "avg"   -> <<"Int", Cols[s.col]>>
    [] OTHER            -> <<Cols[s.col]>>

-----------------------------------------------------------------------------
(* SQLite, external: what a bound statement answers over a table.           *)

\* sqlite3_bind_parameter_count: the largest number a placeholder of the statement has.
ParamCount(s) ==
  Max({0, s.lim} \cup UNION {{s.where[g][i].ph : i \in DOMAIN s.where[g]} : g \in DOMAIN s.where})

Compare(cmp, a, b) ==
  \/ cmp = "EQ" /\ a = b
  \/ cmp = "NE" /\ a # b
  \/ cmp = "LT" /\ a < b
  \/ cmp = "LE" /\ a <= b
  \/ cmp = "GT" /\ a > b
  \/ cmp = "GE" /\ a >= b

Hits(s, ps, table) ==
  {r \in table :
     \E g \in DOMAIN s.where : \A i \in DOMAIN s.where[g] :
       LET w == s.where[g][i] IN Compare(w.cmp, r[w.col], ps[w.ph])}

Total(rows, col) == MapThenSumSet(LAMBDA r : r[col], rows)

\* An integer SUM that leaves 64 bits is an error of the statement; which
\* partial sums are formed depends on the order of the walk.
InRange(n) == n \in Payloads("Int")
Sums(s) == s.what \in {"sum", "avg"} /\ Cols[s.col] = "Int"
MayOverflow(s, ps, table) ==
  Sums(s) /\ \E T \in SUBSET Hits(s, ps, table) : ~InRange(Total(T, s.col))
MustOverflow(s, ps, table) == Sums(s) /\ ~InRange(Total(Hits(s, ps, table), s.col))

\* The orders in which the matching rows may come: any one that ORDER BY allows.
InOrder(s, w) ==
  s.order = 0 \/ \A i, j \in DOMAIN w :
    i < j => IF s.desc THEN w[i][s.order] >= w[j][s.order]
                       ELSE w[i][s.order] <= w[j][s.order]

Bound(s, ps, n) ==
  CASE s.lim = 0 -> n
    [] s.lim = -1 -> Min({1, n})
    [] OTHER -> Min({ps[s.lim], n})

\* The result sets a statement may answer, each a sequence of result rows.
Answers(s, ps, table) ==
  LET hits == Hits(s, ps, table)
      cut(w) == SubSeq(w, 1, Bound(s, ps, Len(w)))
      walks == {cut(w) : w \in {v \in SetToSeqs(hits) : InOrder(s, v)}}
  IN
  CASE s.what = "rows"  -> walks
    [] s.what = "col"   -> {[i \in DOMAIN w |-> <<w[i][s.col]>>] : w \in walks}
    [] s.what = "count" -> {<< <<Cardinality(hits)>> >>}
    [] s.what = "sum"   -> {<< <<Total(hits, s.col)>> >>}
    [] s.what = "avg"   -> {<< <<Cardinality(hits), Total(hits, s.col)>> >>}

=============================================================================
