------------------------------ MODULE StoreOps ------------------------------
(***************************************************************************)
(* The Store surface of the runtime over one database: instances, each     *)
(* with a connection of its own, that sign (open and reconcile), read and  *)
(* write rows in autocommit or inside the transaction of an episode, and   *)
(* break.  The code of one instance runs under its lock, so a connection   *)
(* does one thing at a time; between the connections only SQLite           *)
(* arbitrates, and geas_store_query walks its statement twice.             *)
(*                                                                         *)
(* SQLite is external, in its default rollback journal: a transaction      *)
(* holds a shared lock from its first read or write and one writer holds   *)
(* the reserved lock; a write reaches the database only when no other      *)
(* connection holds a shared lock, and what must wait longer than the busy *)
(* timeout fails with GEAS_ERR_STORE.                                      *)
(***************************************************************************)
EXTENDS StoreSql

CONSTANTS
  Conns,     \* the signing instances
  NSchemas,  \* how many schemas the contract declares; the first one is Cols
  Readers,   \* the instances that run queries (all of them write)
  Keys,      \* values passed as a key
  Values,    \* values passed to an equality query
  Rows,      \* records passed as a row
  Preds,     \* or-of-and predicates passed to the any forms
  Columns,   \* column numbers passed to a query, 0 for GEAS_STORE_NO_ORDER
  Limits,    \* bounds passed to a query, -1 for none
  None

ASSUME NoneAssumption == None \notin Conns
ASSUME SchemasAssumption == NSchemas \in Nat \ {0}
ASSUME ReadersAssumption == Readers \subseteq Conns

\* The compiler checks a key against the first column's type and a row against the
\* schema (compiler/tccall.dusk:938-953); a predicate is only known to be made of values.
ASSUME ArgsAssumption ==
  /\ Keys \subseteq {x \in GeasValues : x.ty = Cols[1]}
  /\ Values \subseteq GeasValues
  /\ \A row \in Rows : /\ row \in Seq(GeasValues)
                       /\ Len(row) = NCols => \A i \in 1 .. NCols : row[i].ty = Cols[i]
  /\ Preds \subseteq Seq(Seq([col : Int, cmp : STRING, val : GeasValues]))
  /\ Columns \subseteq Int /\ Limits \subseteq Payloads("Int")

VARIABLES
  shape,   \* each schema's table: "absent", "match" or "other"
  phase,   \* each instance's store side: none, probe, create, open, failed, closed
  at,      \* the schema its sign is reconciling
  db,      \* the committed rows of the first table
  txn,     \* the connections inside BEGIN
  shared,  \* those whose transaction holds a shared lock
  writer,  \* the one that holds the reserved lock, or None
  pend,    \* the rows as the writer's transaction sees them
  call,    \* the query each connection has walked once, or None
  ans      \* what the last call returned

lockVars == <<txn, shared, writer, pend>>
vars == <<shape, phase, at, db, lockVars, call, ans>>

Schemas == 1 .. NSchemas

\* The last call answered a bare status, or a new one is under way.
Bare(st) == [st |-> st, op |-> "none"]

Init ==
  /\ shape \in [Schemas -> {"absent", "match", "other"}]
  /\ phase = [c \in Conns |-> "none"]
  /\ at = [c \in Conns |-> 1]
  /\ db = {}
  /\ txn = {}
  /\ shared = {}
  /\ writer = None
  /\ pend = {}
  /\ call = [c \in Conns |-> None]
  /\ ans = Bare("OK")

-----------------------------------------------------------------------------
(* SQLite's locks.                                                          *)

View(c) == IF writer = c THEN pend ELSE db

\* A commit of another connection may be waiting for the readers to leave.
ReadBlocked(c) == c \notin shared /\ writer \notin {None, c}

WriteBlocked(c) ==
  \/ writer \notin {None, c}
  \/ c \notin txn /\ shared # {}

\* A statement of c takes its transaction's shared lock.
TakeShared(c) == shared' = IF c \in txn THEN shared \cup {c} ELSE shared

\* The transaction of c ends.
Release(c) ==
  /\ txn' = txn \ {c}
  /\ shared' = shared \ {c}
  /\ writer' = IF writer = c THEN None ELSE writer
  /\ pend' = IF writer = c THEN {} ELSE pend

\* The call answers a bare status and leaves the store alone.
Answer(st) ==
  /\ ans' = Bare(st)
  /\ UNCHANGED <<shape, phase, at, db, lockVars, call>>

-----------------------------------------------------------------------------
(* Sign.                                                                    *)

\* store_sign_reconcile: geas_store_open, which may refuse; the host may sign again.
Open(c) ==
  /\ phase[c] \in {"none", "failed"}
  /\ \E p \in {"probe", "failed"} : phase' = [phase EXCEPT ![c] = p]
  /\ at' = [at EXCEPT ![c] = 1]
  /\ ans' = Bare("OK")
  /\ UNCHANGED <<shape, db, lockVars, call>>

\* Schema i is reconciled: the loop goes on, or the connection is the instance's.
Advance(c) ==
  IF at[c] < NSchemas
  THEN at' = [at EXCEPT ![c] = @ + 1] /\ phase' = [phase EXCEPT ![c] = "probe"]
  ELSE UNCHANGED at /\ phase' = [phase EXCEPT ![c] = "open"]

SignFails(c) == UNCHANGED at /\ phase' = [phase EXCEPT ![c] = "failed"]

\* store_validate_table: count, names and storage types, in declaration order.  The
\* pk flag of table_info is not compared, so a table declared without the key passes
\* as well: a "match" here is a table whose first column is the key, as
\* store_create_table declares it, and a keyless one is left out.
store_validate_table(s) == shape[s] = "match"

\* geas_store_reconcile: the probe, and the validation of a table that is there.
\* A statement that cannot read fails the sign, or the probe takes it for absence.
Reconcile(c) ==
  LET s == at[c] IN
  /\ phase[c] = "probe"
  /\ \/ shape[s] = "absent" /\ phase' = [phase EXCEPT ![c] = "create"] /\ UNCHANGED at
     \/ shape[s] # "absent" /\ store_validate_table(s) /\ Advance(c)
     \/ shape[s] # "absent" /\ ~store_validate_table(s) /\ SignFails(c)
     \/ ReadBlocked(c) /\ SignFails(c)
     \/ ReadBlocked(c) /\ phase' = [phase EXCEPT ![c] = "create"] /\ UNCHANGED at
  /\ ans' = Bare("OK")
  /\ UNCHANGED <<shape, db, lockVars, call>>

\* Mutant: CREATE TABLE IF NOT EXISTS.
create_if_absent(c) ==
  LET s == at[c] IN
  /\ phase[c] = "create"
  /\ \/ /\ ~WriteBlocked(c)
        /\ shape' = IF shape[s] = "absent" THEN [shape EXCEPT ![s] = "match"] ELSE shape
        /\ Advance(c)
     \/ WriteBlocked(c) /\ SignFails(c) /\ UNCHANGED shape
  /\ ans' = Bare("OK")
  /\ UNCHANGED <<db, lockVars, call>>

\* store_create_table: CREATE TABLE refuses a table that appeared since the probe.
CreateTable(c) ==
  LET s == at[c] IN
  /\ phase[c] = "create"
  /\ \/ /\ shape[s] = "absent" /\ ~WriteBlocked(c)
        /\ shape' = [shape EXCEPT ![s] = "match"]
        /\ Advance(c)
     \/ /\ shape[s] # "absent" \/ WriteBlocked(c)
        /\ SignFails(c)
        /\ UNCHANGED shape
  /\ ans' = Bare("OK")
  /\ UNCHANGED <<db, lockVars, call>>

\* Another program creates a table under the schema's name, in a shape of its own.
OtherCreates(s) ==
  /\ shape[s] = "absent" /\ writer = None /\ shared = {}
  /\ shape' = [shape EXCEPT ![s] = "other"]
  /\ ans' = Bare("OK")
  /\ UNCHANGED <<phase, at, db, lockVars, call>>

-----------------------------------------------------------------------------
(* Queries.                                                                 *)

\* A pledge body of c is at a call: the instance signed, perhaps broken since.
Ready(c) == phase[c] \in {"open", "closed"} /\ call[c] = None

\* What was asked, for the reference definition below.
Request(op, groups, col, order, desc, limit) ==
  [op |-> op, groups |-> groups, col |-> col, order |-> order, desc |-> desc,
   limit |-> limit]

(***************************************************************************)
(* An entry point up to the end of the first walk of geas_store_query: the *)
(* arguments are checked, then, under c->mu, that there is a connection;   *)
(* the statement is bound, or its frame refused, and its rows are counted. *)
(***************************************************************************)
Ask(c, ok, q, s, params) ==
  LET ps   == bind_params(params)
      bind == bind_status(ParamCount(s), params)
  IN
  /\ c \in Readers
  /\ Ready(c)
  /\ \/ ~ok /\ Answer("TYPE")
     \/ ok /\ phase[c] = "closed" /\ Answer("STORE")
     \/ /\ ok /\ phase[c] = "open"
        /\ bind = "OK" => ReadBlocked(c) \/ MayOverflow(s, ps, View(c))
        /\ Answer(IF bind = "OK" THEN "STORE" ELSE bind)
     \/ /\ ok /\ phase[c] = "open"
        /\ bind = "OK" /\ ~MustOverflow(s, ps, View(c))
        /\ TakeShared(c)
        /\ \E a \in Answers(s, ps, View(c)) :
             call' = [call EXCEPT ![c] =
                        [q |-> q, s |-> s, ps |-> ps, seen |-> View(c), n |-> Len(a)]]
        /\ ans' = Bare("OK")
        /\ UNCHANGED <<shape, phase, at, db, txn, writer, pend>>

geas_store_find(c, key) ==
  Ask(c, TRUE, Request("find", << <<[col |-> 1, cmp |-> "EQ", val |-> key]>> >>, 0, 0, FALSE, -1),
      store_sql_select, <<key>>)

geas_store_query_eq(c, col, value) ==
  LET t == [col |-> col, cmp |-> "EQ", val |-> value] IN
  Ask(c, TermOK(t), Request("list", << <<t>> >>, 0, 0, FALSE, -1),
      store_sql_select_eq(col), <<value>>)

geas_store_query_where(c, terms) ==
  Ask(c, TermsOK(<<terms>>), Request("list", <<terms>>, 0, 0, FALSE, -1),
      store_sql_select_where(terms), TermParams(<<terms>>))

geas_store_query_ordered(c, terms, col, desc) ==
  Ask(c, TermsOK(<<terms>>) /\ col \in 1 .. NCols,
      Request("list", <<terms>>, 0, col, desc, -1),
      store_sql_select_ordered(terms, col, desc), TermParams(<<terms>>))

IntValue(n) == [ty |-> "Int", v |-> n]

geas_store_query_page(c, terms, col, desc, limit) ==
  Ask(c, TermsOK(<<terms>>) /\ col \in 1 .. NCols /\ limit >= 0,
      Request("list", <<terms>>, 0, col, desc, limit),
      store_sql_select_page(terms, col, desc), TermParams(<<terms>>) \o <<IntValue(limit)>>)

\* order 0 is GEAS_STORE_NO_ORDER and limit -1 a null pointer; any other negative
\* bound is refused.
geas_store_select(c, groups, order, desc, limit) ==
  Ask(c, TermsOK(groups) /\ (order = 0 => limit = -1) /\ order \in 0 .. NCols /\ limit >= -1,
      Request("list", groups, 0, order, desc, limit),
      store_sql_select_any(groups, order, desc, limit # -1),
      TermParams(groups) \o IF limit = -1 THEN << >> ELSE <<IntValue(limit)>>)

Numeric(col) == col \in 1 .. NCols /\ Cols[col] \in {"Int", "Float"}

geas_store_count_any(c, groups) ==
  Ask(c, TermsOK(groups), Request("count", groups, 0, 0, FALSE, -1),
      store_sql_count_any(groups), TermParams(groups))

geas_store_sum_any(c, col, groups) ==
  Ask(c, TermsOK(groups) /\ Numeric(col), Request("sum", groups, col, 0, FALSE, -1),
      store_sql_sum_any(col, groups), TermParams(groups))

geas_store_agg_any(c, agg, col, groups) ==
  Ask(c, TermsOK(groups) /\ col \in 1 .. NCols /\ (agg = "avg" => Numeric(col)),
      Request(agg, groups, col, 0, FALSE, -1),
      IF agg = "avg" THEN store_sql_avg_any(col, groups)
                     ELSE store_sql_extreme_any(col, agg = "max", groups),
      TermParams(groups))

geas_store_count_where(c, terms) ==
  Ask(c, TermsOK(<<terms>>), Request("count", <<terms>>, 0, 0, FALSE, -1),
      store_sql_count_where(terms), TermParams(<<terms>>))

geas_store_sum_where(c, col, terms) ==
  Ask(c, TermsOK(<<terms>>) /\ Numeric(col), Request("sum", <<terms>>, col, 0, FALSE, -1),
      store_sql_sum_where(col, terms), TermParams(<<terms>>))

\* A slot of the backbone no row was read into: all zero, a GEAS_TY_UNIT.  It is
\* no record, so it is kept apart from every row by its width.
Zeroed == [i \in 1 .. NCols + 2 |-> 0]

\* The list is as long as the first walk said, whatever the second one met.
Backbone(k, a) ==
  [i \in 1 .. k.n |-> IF i <= Len(a) THEN read_row(Types(k.s), a[i]) ELSE Zeroed]

\* What the entry point makes of the list: an Option is a sequence of at most
\* one value, and the mean is kept as the pair it divides.
Unwrap(op, rows) ==
  CASE op = "list" -> rows
    [] op = "find" -> SubSeq(rows, 1, Min({1, Len(rows)}))
    [] op = "avg"  -> IF rows[1][1] = 0 THEN << >> ELSE rows[1]
    [] op \in {"min", "max"} -> IF rows = << >> THEN << >> ELSE rows[1]
    [] OTHER -> rows[1]

\* Mutant: the extremes take the slot for a record.
refuses_never(op, rows) == FALSE

\* The extremes refuse a slot that is not a record; find and the lists do not.
Refuses(op, rows) == op \in {"min", "max"} /\ rows # << >> /\ rows[1] = Zeroed

\* The second walk of geas_store_query, and what its caller returns.
QueryFinish(c) ==
  LET k == call[c] IN
  /\ k # None
  /\ \/ /\ ReadBlocked(c) \/ MayOverflow(k.s, k.ps, View(c))
        /\ ans' = Bare("STORE")
     \/ /\ ~MustOverflow(k.s, k.ps, View(c))
        /\ \E a \in Answers(k.s, k.ps, View(c)) :
             LET rows == Backbone(k, a) IN
             ans' = IF Refuses(k.q.op, rows) THEN Bare("STORE")
                    ELSE [st |-> "OK", op |-> k.q.op, q |-> k.q, val |-> Unwrap(k.q.op, rows),
                          seen |-> <<k.seen, View(c)>>, episode |-> c \in txn]
  /\ call' = [call EXCEPT ![c] = None]
  /\ UNCHANGED <<shape, phase, at, db, lockVars>>

-----------------------------------------------------------------------------
(* Writes.                                                                  *)

(***************************************************************************)
(* geas_store_exec_params: a statement whose constraint fails keeps the    *)
(* transaction it runs in and the lock it took, and changes no row.  The   *)
(* frame of a write always binds: RowOK has just compared its width with   *)
(* the schema the statement's placeholders come from, and the compiler     *)
(* gave its values the schema's scalar types.                              *)
(***************************************************************************)
Exec(c, ok, conflict, after) ==
  /\ Ready(c)
  /\ \/ ~ok /\ Answer("TYPE")
     \/ ok /\ phase[c] = "closed" /\ Answer("STORE")
     \/ ok /\ phase[c] = "open" /\ WriteBlocked(c) /\ Answer("STORE")
     \/ /\ ok /\ phase[c] = "open" /\ ~WriteBlocked(c)
        /\ TakeShared(c)
        /\ writer' = IF c \in txn THEN c ELSE writer
        /\ pend' = IF c \in txn THEN IF conflict THEN View(c) ELSE after ELSE pend
        /\ db' = IF c \in txn \/ conflict THEN db ELSE after
        /\ ans' = Bare(IF conflict THEN "STORE" ELSE "OK")
        /\ UNCHANGED <<shape, phase, at, txn, call>>

\* store_row_params: a record of the schema's width.
RowOK(row) == Len(row) = NCols

Keyed(c, k) == {r \in View(c) : r[1] = k}

geas_store_insert(c, row) ==
  LET cells == bind_params(row) IN
  Exec(c, RowOK(row), Keyed(c, cells[1]) # {}, View(c) \cup {cells})

\* UPDATE sets every column, the key too, of the row the key names, if any.
geas_store_update(c, key, row) ==
  LET cells == bind_params(row)
      old   == Keyed(c, bind_one(key.ty, key.v))
  IN Exec(c, RowOK(row),
          old # {} /\ Keyed(c, cells[1]) \ old # {},
          IF old = {} THEN View(c) ELSE (View(c) \ old) \cup {cells})

geas_store_delete(c, key) ==
  Exec(c, TRUE, FALSE, View(c) \ Keyed(c, bind_one(key.ty, key.v)))

-----------------------------------------------------------------------------
(* Transactions and the end of the instance.                                *)

\* txn_before opens the episode with a plain BEGIN, which takes no lock yet.
geas_store_begin(c) ==
  /\ phase[c] = "open" /\ call[c] = None /\ c \notin txn
  /\ txn' = txn \cup {c}
  /\ ans' = Bare("OK")
  /\ UNCHANGED <<shape, phase, at, db, shared, writer, pend, call>>

\* A writer's commit waits for the shared locks of the others.
CommitBlocked(c) == writer = c /\ shared \ {c} # {}

\* txn_after at completion: COMMIT, and ROLLBACK when the backend refused it.
geas_store_commit(c) ==
  /\ c \in txn /\ call[c] = None
  /\ db' = IF writer = c /\ ~CommitBlocked(c) THEN pend ELSE db
  /\ ans' = Bare(IF CommitBlocked(c) THEN "STORE" ELSE "OK")
  /\ Release(c)
  /\ UNCHANGED <<shape, phase, at, call>>

\* txn_after at an Err, a fault or a break inside the episode.
geas_store_rollback(c) ==
  /\ c \in txn /\ call[c] = None
  /\ Release(c)
  /\ ans' = Bare("OK")
  /\ UNCHANGED <<shape, phase, at, db, call>>

\* Mutant: the open episode is forgotten.
close_forgets(c) ==
  /\ phase[c] = "open" /\ call[c] = None
  /\ phase' = [phase EXCEPT ![c] = "closed"]
  /\ ans' = Bare("OK")
  /\ UNCHANGED <<shape, at, db, lockVars, call>>

\* geas_contract_break: the open episode rolls back, then the connection closes.
geas_store_close(c) ==
  /\ phase[c] = "open" /\ call[c] = None
  /\ phase' = [phase EXCEPT ![c] = "closed"]
  /\ Release(c)
  /\ ans' = Bare("OK")
  /\ UNCHANGED <<shape, at, db, call>>

-----------------------------------------------------------------------------
Conjunctions == {p[1] : p \in {q \in Preds : Len(q) = 1}}

Query(c) ==
  \/ \E key \in Keys : geas_store_find(c, key)
  \/ \E col \in Columns, v \in Values : geas_store_query_eq(c, col, v)
  \/ \E terms \in Conjunctions :
       \/ geas_store_query_where(c, terms)
       \/ geas_store_count_where(c, terms)
       \/ \E col \in Columns :
            \/ geas_store_sum_where(c, col, terms)
            \/ \E desc \in BOOLEAN :
                 \/ geas_store_query_ordered(c, terms, col, desc)
                 \/ \E n \in Limits : geas_store_query_page(c, terms, col, desc, n)
  \/ \E groups \in Preds :
       \/ geas_store_count_any(c, groups)
       \/ \E col \in Columns :
            \/ geas_store_sum_any(c, col, groups)
            \/ \E agg \in {"min", "max", "avg"} : geas_store_agg_any(c, agg, col, groups)
            \/ \E desc \in BOOLEAN, n \in Limits : geas_store_select(c, groups, col, desc, n)
  \/ QueryFinish(c)

Write(c) ==
  \/ \E row \in Rows : geas_store_insert(c, row)
  \/ \E key \in Keys, row \in Rows : geas_store_update(c, key, row)
  \/ \E key \in Keys : geas_store_delete(c, key)

Next ==
  \/ \E s \in Schemas : OtherCreates(s)
  \/ \E c \in Conns :
       \/ Open(c) \/ Reconcile(c) \/ CreateTable(c)
       \/ Query(c)
       \/ Write(c)
       \/ geas_store_begin(c) \/ geas_store_commit(c) \/ geas_store_rollback(c)
       \/ geas_store_close(c)

Spec == Init /\ [][Next]_vars

-----------------------------------------------------------------------------
(* Properties.                                                              *)

\* Type invariant of the connections, their locks and the table.
TypeOK ==
  /\ shape \in [Schemas -> {"absent", "match", "other"}]
  /\ phase \in [Conns -> {"none", "probe", "create", "open", "failed", "closed"}]
  /\ at \in [Conns -> Schemas]
  /\ txn \subseteq Conns
  /\ shared \subseteq txn
  /\ writer \in shared \cup {None}
  /\ \A c \in txn : phase[c] = "open"
  /\ call = [c \in Conns |-> call[c]]
  /\ \A c \in Conns : call[c] # None => phase[c] = "open"

(***************************************************************************)
(* What a request means, from the schema's own values: no cell, no         *)
(* placeholder, no statement.                                              *)
(***************************************************************************)
Matching(q, table) ==
  {r \in {read_row(Cols, t) : t \in table} :
     \E g \in DOMAIN q.groups : \A i \in DOMAIN q.groups[g] :
       LET t == q.groups[g][i] IN Compare(t.cmp, r[t.col], t.val.v)}

Sorted(q, w) ==
  \A i, j \in DOMAIN w :
    i < j => IF q.desc THEN w[i][q.order] >= w[j][q.order]
                       ELSE w[i][q.order] <= w[j][q.order]

\* The list of q over M: its rows, each once, the first ones in the order asked.
IsList(q, w, M) ==
  /\ ToSet(w) \subseteq M
  /\ Cardinality(ToSet(w)) = Len(w)
  /\ Len(w) = IF q.limit = -1 THEN Cardinality(M) ELSE Min({q.limit, Cardinality(M)})
  /\ q.order # 0 => \A r \in M \ ToSet(w) : Sorted(q, Append(w, r))
  /\ q.order # 0 => Sorted(q, w)

IsAnswer(q, w, table) ==
  LET M == Matching(q, table)
      column == {r[q.col] : r \in M}
  IN
  CASE q.op = "list"  -> IsList(q, w, M)
    [] q.op = "find"  -> IF M = {} THEN w = << >> ELSE \E r \in M : w = <<r>>
    [] q.op = "count" -> w = <<Cardinality(M)>>
    [] q.op = "sum"   -> w = <<Total(M, q.col)>>
    [] q.op = "avg"   -> w = IF M = {} THEN << >> ELSE <<Cardinality(M), Total(M, q.col)>>
    [] q.op = "min"   -> w = IF M = {} THEN << >> ELSE <<Min(column)>>
    [] q.op = "max"   -> w = IF M = {} THEN << >> ELSE <<Max(column)>>

\* SQLite orders a UInt as the signed cell it is stored in: an order, a bound or
\* an extreme over one is only the value's where no top bit is set.
OrdersUInt(q) ==
  \/ q.order # 0 /\ Cols[q.order] = "UInt"
  \/ q.op \in {"min", "max"} /\ Cols[q.col] = "UInt"
  \/ \E g \in DOMAIN q.groups : \E i \in DOMAIN q.groups[g] :
       q.groups[g][i].cmp \notin {"EQ", "NE"} /\ Cols[q.groups[g][i].col] = "UInt"
TopBitFree(q, table) ==
  /\ \A r \in table, i \in 1 .. NCols : Cols[i] = "UInt" => r[i] >= 0
  /\ \A g \in DOMAIN q.groups : \A i \in DOMAIN q.groups[g] :
       bind_one(q.groups[g][i].val.ty, q.groups[g][i].val.v) = q.groups[g][i].val.v

Exact(q, w, table) == (OrdersUInt(q) => TopBitFree(q, table)) => IsAnswer(q, w, table)

(***************************************************************************)
(* Inside an episode, or when nobody changed the table meanwhile, every    *)
(* query answers exactly what was asked of the table as its first walk met *)
(* it: the builders, their placeholders, the type map and the two walks    *)
(* together compute the reference.                                         *)
(***************************************************************************)
AnswersAreExact ==
  ans.op # "none" /\ (ans.episode \/ ans.seen[1] = ans.seen[2]) =>
    Exact(ans.q, ans.val, ans.seen[1])

(***************************************************************************)
(* A count, a sum, a mean and an extreme are the answer over one table     *)
(* that existed during the call, even when another instance wrote between  *)
(* the two walks of geas_store_query.                                      *)
(***************************************************************************)
AggregatesAreSnapshots ==
  ans.op \in {"count", "sum", "avg", "min", "max"} =>
    \E i \in 1 .. 2 : Exact(ans.q, ans.val, ans.seen[i])

(***************************************************************************)
(* An instance that signed operates on tables that all have its schemas'   *)
(* shape, whoever created them: two instances may sign at once, and        *)
(* another program may create a table of its own shape after the probe     *)
(* found none.                                                             *)
(***************************************************************************)
SignedMeansReconciled ==
  \A c \in Conns : phase[c] \in {"open", "closed"} => \A s \in Schemas : shape[s] = "match"

-----------------------------------------------------------------------------
(* What the documentation says and the code does not keep.                  *)

\* docs/database.md:84: a row is a record of the schema's columns, so find returns
\* Some(row) or None and a list holds rows.
RowsAreWhole ==
  ans.op \in {"find", "list"} => \A i \in DOMAIN ans.val : Len(ans.val[i]) = NCols

=============================================================================
