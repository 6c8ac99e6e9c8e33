--------------------------- MODULE StoreOps_proofs ---------------------------
(***************************************************************************)
(* What StoreOps keeps for any number of instances, schemas, rows and      *)
(* queries: the lock discipline, the shape of the tables a signed instance *)
(* operates on, and that a query answers what it was asked.                *)
(***************************************************************************)
EXTENDS StoreOps, StoreSql_proofs

\* Every step of a query or a write but the ones that change the store is one of
\* these; the entry points differ only in what they ask.
LEMMA QueryIsAsk ==
  ASSUME NEW c \in Conns, Query(c)
  PROVE  QueryFinish(c) \/ \E ok, q, s, params : Ask(c, ok, q, s, params)
PROOF
  BY Zenon DEF Query, geas_store_find, geas_store_query_eq, geas_store_query_where,
     geas_store_query_ordered, geas_store_query_page, geas_store_select,
     geas_store_count_any, geas_store_sum_any, geas_store_agg_any,
     geas_store_count_where, geas_store_sum_where

LEMMA WriteIsExec ==
  ASSUME NEW c \in Conns, Write(c)
  PROVE  \E ok, conflict, after : Exec(c, ok, conflict, after)
PROOF
  BY Zenon DEF Write, geas_store_insert, geas_store_update, geas_store_delete

\* While the loop of store_sign_reconcile runs, the schemas before the one it is
\* at have their shape.
ReconciledSoFar ==
  \A c \in Conns : phase[c] \in {"probe", "create"} =>
    \A s \in 1 .. (at[c] - 1) : shape[s] = "match"

\* The inductive invariant.
StoreInv ==
  /\ TypeOK
  /\ SignedMeansReconciled
  /\ ReconciledSoFar

LEMMA InitStoreInv == Init => StoreInv
PROOF
  BY SchemasAssumption DEF Init, StoreInv, TypeOK, Schemas,
     SignedMeansReconciled, ReconciledSoFar

\* The steps of a sign touch no lock and no row, and a table only from absent.
LEMMA SignKeepsInv ==
  ASSUME StoreInv, NEW c \in Conns, Open(c) \/ Reconcile(c) \/ CreateTable(c)
  PROVE  StoreInv'
PROOF
  <1> USE SchemasAssumption DEF StoreInv, Schemas, lockVars
  <1>1. db' = db /\ txn' = txn /\ shared' = shared
        /\ writer' = writer /\ call' = call
    BY DEF Open, Reconcile, CreateTable
  <1>3. phase[c] \notin {"open", "closed"}
    BY DEF Open, Reconcile, CreateTable
  <1>4. \A d \in Conns \ {c} : phase'[d] = phase[d] /\ at'[d] = at[d]
    BY DEF Open, Reconcile, CreateTable, Advance, SignFails, TypeOK
  <1>5. \A s \in 1 .. NSchemas : shape[s] = "match" => shape'[s] = "match"
    BY DEF Open, Reconcile, CreateTable, TypeOK
  <1>6. /\ phase'[c] \in {"probe", "create"} =>
             \A s \in 1 .. (at'[c] - 1) : shape'[s] = "match"
        /\ phase'[c] \in {"open", "closed"} =>
             \A s \in 1 .. NSchemas : shape'[s] = "match"
        /\ phase'[c] \in {"probe", "create", "failed", "open"}
        /\ at'[c] \in 1 .. NSchemas
    <2>1. CASE Open(c)
      BY <2>1 DEF Open, TypeOK
    <2>2. CASE Reconcile(c)
      BY <2>2 DEF Reconcile, Advance, SignFails, store_validate_table, TypeOK,
         ReconciledSoFar
    <2>3. CASE CreateTable(c)
      <3>1. at[c] \in 1 .. NSchemas /\ phase[c] = "create"
        BY <2>3 DEF CreateTable, TypeOK
      <3>2. CASE SignFails(c)
        BY <3>1, <3>2 DEF SignFails, TypeOK
      <3>3. CASE shape' = [shape EXCEPT ![at[c]] = "match"] /\ Advance(c)
        <4>1. \A s \in 1 .. at[c] : shape'[s] = "match"
          BY <3>1, <3>3 DEF TypeOK, ReconciledSoFar
        <4> QED
          BY <3>1, <3>3, <4>1 DEF Advance, TypeOK
      <3> QED
        BY <2>3, <3>2, <3>3 DEF CreateTable
    <2> QED
      BY <2>1, <2>2, <2>3
  <1>7. shape' \in [1 .. NSchemas -> {"absent", "match", "other"}]
    BY DEF Open, Reconcile, CreateTable, TypeOK
  <1>8. TypeOK'
    <2>1. c \notin txn /\ call[c] = None
      BY <1>3 DEF TypeOK
    <2>2. /\ phase' \in [Conns -> {"none", "probe", "create", "open", "failed", "closed"}]
          /\ at' \in [Conns -> 1 .. NSchemas]
      <3>1. PICK a \in 1 .. NSchemas, p \in {"probe", "create", "failed", "open"} :
              /\ at' = at \/ at' = [at EXCEPT ![c] = a]
              /\ phase' = [phase EXCEPT ![c] = p]
        <4>1. at[c] \in 1 .. NSchemas /\ 1 \in 1 .. NSchemas
          BY DEF TypeOK
        <4>2. at[c] < NSchemas => at[c] + 1 \in 1 .. NSchemas
          BY <4>1
        <4>3. CASE Open(c)
          BY <4>1, <4>3 DEF Open
        <4>4. CASE SignFails(c)
          BY <4>1, <4>4 DEF SignFails
        <4>5. CASE Advance(c)
          BY <4>1, <4>2, <4>5 DEF Advance
        <4> QED
          BY <4>1, <4>3, <4>4, <4>5 DEF Reconcile, CreateTable
      <3>2. at' \in [Conns -> 1 .. NSchemas]
        BY <3>1 DEF TypeOK
      <3>3. phase' \in [Conns -> {"none", "probe", "create", "open", "failed", "closed"}]
        BY <3>1 DEF TypeOK
      <3> QED
        BY <3>2, <3>3
    <2> QED
      BY <1>1, <1>4, <1>7, <2>1, <2>2 DEF TypeOK
  <1>9. SignedMeansReconciled'
    BY <1>4, <1>5, <1>6 DEF SignedMeansReconciled
  <1>10. ReconciledSoFar'
    <2> SUFFICES ASSUME NEW d \in Conns, phase'[d] \in {"probe", "create"},
                        NEW s \in 1 .. (at'[d] - 1)
                 PROVE  shape'[s] = "match"
      BY DEF ReconciledSoFar
    <2>1. CASE d = c
      BY <1>6, <2>1
    <2>2. CASE d # c
      <3>1. phase[d] \in {"probe", "create"} /\ s \in 1 .. (at[d] - 1)
        BY <1>4, <2>2
      <3>2. at[d] \in 1 .. NSchemas
        BY DEF TypeOK
      <3>3. shape[s] = "match" /\ s \in 1 .. NSchemas
        BY <3>1, <3>2 DEF ReconciledSoFar
      <3> QED
        BY <1>5, <3>3
    <2> QED
      BY <2>1, <2>2
  <1> QED
    BY <1>8, <1>9, <1>10

\* A table another program creates was absent, so nobody has reconciled it.
LEMMA OtherKeepsInv ==
  ASSUME StoreInv, NEW s \in Schemas, OtherCreates(s)
  PROVE  StoreInv'
PROOF
  <1>1. /\ shape' = [shape EXCEPT ![s] = "other"] /\ shape[s] = "absent"
        /\ phase' = phase /\ at' = at /\ txn' = txn /\ shared' = shared
        /\ writer' = writer /\ call' = call
    BY DEF OtherCreates, lockVars
  <1>2. TypeOK'
    BY <1>1 DEF StoreInv, TypeOK
  <1>3. \A t \in Schemas : shape[t] = "match" => shape'[t] = "match"
    BY <1>1 DEF StoreInv, TypeOK
  <1>4. \A c \in Conns : 1 .. (at[c] - 1) \subseteq Schemas
    BY SchemasAssumption DEF StoreInv, TypeOK, Schemas
  <1> QED
    BY <1>1, <1>2, <1>3, <1>4 DEF StoreInv, SignedMeansReconciled, ReconciledSoFar

\* A step that leaves the tables' shapes and the signs alone keeps what was reconciled.
LEMMA ShapesStand ==
  ASSUME StoreInv, shape' = shape, at' = at,
         \A c \in Conns : \/ phase'[c] = phase[c]
                          \/ phase[c] = "open" /\ phase'[c] = "closed"
  PROVE  SignedMeansReconciled' /\ ReconciledSoFar'
PROOF
  BY DEF StoreInv, SignedMeansReconciled, ReconciledSoFar, Schemas

LEMMA AskKeepsInv ==
  ASSUME StoreInv, NEW c \in Conns, NEW ok, NEW q, NEW s, NEW params,
         Ask(c, ok, q, s, params)
  PROVE  StoreInv'
PROOF
  <1>1. shape' = shape /\ phase' = phase /\ at' = at /\ db' = db /\ txn' = txn
        /\ writer' = writer
    BY DEF Ask, Answer, lockVars
  <1>2. SignedMeansReconciled' /\ ReconciledSoFar'
    BY <1>1, ShapesStand
  <1>3. CASE call' = call /\ shared' = shared
    BY <1>1, <1>2, <1>3 DEF StoreInv, TypeOK
  <1>4. CASE /\ phase[c] = "open"
             /\ TakeShared(c)
             /\ \E k : call' = [call EXCEPT ![c] = k]
    BY <1>1, <1>2, <1>4 DEF StoreInv, TypeOK, TakeShared
  <1> QED
    BY <1>3, <1>4 DEF Ask, Answer, lockVars

LEMMA FinishKeepsInv ==
  ASSUME StoreInv, NEW c \in Conns, QueryFinish(c)
  PROVE  StoreInv'
PROOF
  <1>1. shape' = shape /\ phase' = phase /\ at' = at /\ db' = db /\ txn' = txn
        /\ writer' = writer /\ shared' = shared
        /\ call' = [call EXCEPT ![c] = None]
    BY DEF QueryFinish, lockVars
  <1>2. SignedMeansReconciled' /\ ReconciledSoFar'
    BY <1>1, ShapesStand
  <1> QED
    BY <1>1, <1>2 DEF StoreInv, TypeOK

LEMMA ExecKeepsInv ==
  ASSUME StoreInv, NEW c \in Conns, NEW ok, NEW conflict, NEW after,
         Exec(c, ok, conflict, after)
  PROVE  StoreInv'
PROOF
  <1>1. shape' = shape /\ phase' = phase /\ at' = at /\ txn' = txn /\ call' = call
    BY DEF Exec, Answer, lockVars
  <1>2. SignedMeansReconciled' /\ ReconciledSoFar'
    BY <1>1, ShapesStand
  <1>3. CASE db' = db /\ shared' = shared /\ writer' = writer
    BY <1>1, <1>2, <1>3 DEF StoreInv, TypeOK
  <1>4. CASE /\ c \in txn
             /\ phase[c] = "open"
             /\ TakeShared(c)
             /\ writer' = c
             /\ db' = db
    BY <1>1, <1>2, <1>4 DEF StoreInv, TypeOK, TakeShared
  <1>5. CASE c \notin txn /\ shared = {} /\ TakeShared(c) /\ writer' = writer
    BY <1>1, <1>2, <1>5 DEF StoreInv, TypeOK, TakeShared
  <1> QED
    BY <1>3, <1>4, <1>5 DEF Exec, Answer, WriteBlocked, lockVars

LEMMA EpisodeKeepsInv ==
  ASSUME StoreInv, NEW c \in Conns,
         \/ geas_store_begin(c) \/ geas_store_commit(c)
         \/ geas_store_rollback(c) \/ geas_store_close(c)
  PROVE  StoreInv'
PROOF
  <1> USE DEF StoreInv
  <1>1. SignedMeansReconciled' /\ ReconciledSoFar'
    BY ShapesStand DEF geas_store_begin, geas_store_commit, geas_store_rollback,
       geas_store_close, TypeOK
  <1>2. CASE geas_store_begin(c)
    BY <1>1, <1>2 DEF geas_store_begin, TypeOK
  <1>3. CASE geas_store_commit(c)
    BY <1>1, <1>3 DEF geas_store_commit, Release, TypeOK
  <1>4. CASE geas_store_rollback(c)
    BY <1>1, <1>4 DEF geas_store_rollback, Release, TypeOK
  <1>5. CASE geas_store_close(c)
    BY <1>1, <1>5 DEF geas_store_close, Release, TypeOK
  <1> QED
    BY <1>2, <1>3, <1>4, <1>5

LEMMA NextStoreInv == StoreInv /\ [Next]_vars => StoreInv'
PROOF
  <1> SUFFICES ASSUME StoreInv, [Next]_vars PROVE StoreInv'
    OBVIOUS
  <1>1. CASE UNCHANGED vars
    BY <1>1 DEF vars, lockVars, StoreInv, TypeOK,
       SignedMeansReconciled, ReconciledSoFar
  <1>2. ASSUME NEW c \in Conns, Query(c) PROVE StoreInv'
    BY <1>2, QueryIsAsk, AskKeepsInv, FinishKeepsInv
  <1>3. ASSUME NEW c \in Conns, Write(c) PROVE StoreInv'
    BY <1>3, WriteIsExec, ExecKeepsInv
  <1> QED
    BY <1>1, <1>2, <1>3, SignKeepsInv, OtherKeepsInv, EpisodeKeepsInv DEF Next

\* The inductive invariant holds in every state.
THEOREM StoreInvariant == Spec => []StoreInv
PROOF
  BY InitStoreInv, NextStoreInv, PTL DEF Spec

\* The connections, their locks and their calls are well formed: only an open
\* connection is in a transaction and only a transaction holds a lock.
THEOREM StoreTypeOK == Spec => []TypeOK
PROOF
  <1>1. StoreInv => TypeOK
    BY DEF StoreInv
  <1> QED
    BY <1>1, StoreInvariant, PTL

\* For any number of schemas, racing signs and tables other programs create: a signed
\* instance operates on tables of its schemas' shape.
THEOREM Reconciled == Spec => []SignedMeansReconciled
PROOF
  <1>1. StoreInv => SignedMeansReconciled
    BY DEF StoreInv
  <1> QED
    BY <1>1, StoreInvariant, PTL

-----------------------------------------------------------------------------
(***************************************************************************)
(* The two walks of a query.  In autocommit they may meet two tables,      *)
(* which is how a list comes to hold a slot that is no row; inside an      *)
(* episode the first walk took the shared lock, and nobody's write lands   *)
(* before the second.                                                      *)
(***************************************************************************)
\* A query under way inside an episode would walk the table it has walked.
WalkPinned ==
  \A c \in Conns : call[c] # None /\ c \in txn =>
    c \in shared /\ call[c].seen = View(c)

\* geas_store_query inside an episode: whatever the other connections did meanwhile,
\* both walks behind an answer met the same table.
EpisodeWalksAgree ==
  ans.op # "none" /\ ans.episode => ans.seen[1] = ans.seen[2]

\* The inductive invariant of the walks.
WalkInv == StoreInv /\ WalkPinned /\ EpisodeWalksAgree

\* A call that answers a bare status, or moves on with none, says nothing of walks.
LEMMA BareAgrees ==
  ASSUME NEW st, ans' = Bare(st)
  PROVE  EpisodeWalksAgree'
PROOF
  BY DEF EpisodeWalksAgree, Bare

\* No step of one connection moves what another one's transaction sees while that
\* transaction holds a shared lock.
LEMMA OthersStand ==
  ASSUME WalkInv, NEW c \in Conns, call' = call \/ \E k : call' = [call EXCEPT ![c] = k],
         \A d \in Conns \ {c} : d \in txn' => d \in txn,
         \A d \in shared \ {c} : d \in shared' /\ View(d)' = View(d),
         c \in txn' /\ call'[c] # None => c \in shared' /\ call'[c].seen = View(c)'
  PROVE  WalkPinned'
PROOF
  <1> SUFFICES ASSUME NEW d \in Conns, call'[d] # None, d \in txn'
               PROVE  d \in shared' /\ call'[d].seen = View(d)'
    BY DEF WalkPinned
  <1>1. CASE d = c
    BY <1>1
  <1>2. CASE d # c
    <2>1. call'[d] = call[d] /\ d \in txn
      BY <1>2 DEF WalkInv, StoreInv, TypeOK
    <2>2. d \in shared \ {c} /\ call[d].seen = View(d)
      BY <1>2, <2>1 DEF WalkInv, WalkPinned
    <2> QED
      BY <2>1, <2>2
  <1> QED
    BY <1>1, <1>2

LEMMA SignWalks ==
  ASSUME WalkInv, NEW c \in Conns, Open(c) \/ Reconcile(c) \/ CreateTable(c)
  PROVE  WalkPinned' /\ EpisodeWalksAgree'
PROOF
  <1>1. ans' = Bare("OK") /\ db' = db /\ txn' = txn /\ shared' = shared
        /\ writer' = writer /\ pend' = pend /\ call' = call
    BY DEF Open, Reconcile, CreateTable, lockVars
  <1> QED
    BY <1>1, BareAgrees DEF WalkInv, WalkPinned, View

LEMMA OtherWalks ==
  ASSUME WalkInv, NEW s \in Schemas, OtherCreates(s)
  PROVE  WalkPinned' /\ EpisodeWalksAgree'
PROOF
  <1>1. ans' = Bare("OK") /\ db' = db /\ txn' = txn /\ shared' = shared
        /\ writer' = writer /\ pend' = pend /\ call' = call
    BY DEF OtherCreates, lockVars
  <1> QED
    BY <1>1, BareAgrees DEF WalkInv, WalkPinned, View

\* The first walk keeps the table it met, under the lock it took.
LEMMA AskWalks ==
  ASSUME WalkInv, NEW c \in Conns, NEW ok, NEW q, NEW s, NEW params,
         Ask(c, ok, q, s, params)
  PROVE  WalkPinned' /\ EpisodeWalksAgree'
PROOF
  <1>1. \E st : ans' = Bare(st)
    BY DEF Ask, Answer
  <1>2. db' = db /\ txn' = txn /\ writer' = writer /\ pend' = pend
    BY DEF Ask, Answer, lockVars
  <1>3. \A d \in Conns : View(d)' = View(d)
    BY <1>2 DEF View
  <1>4. ASSUME NEW k, TakeShared(c), call' = [call EXCEPT ![c] = k], k.seen = View(c)
        PROVE  WalkPinned'
    <2>1. call'[c] = k
      BY <1>4 DEF WalkInv, StoreInv, TypeOK
    <2>2. c \in txn => c \in shared'
      BY <1>4 DEF TakeShared
    <2>3. \A d \in shared \ {c} : d \in shared' /\ View(d)' = View(d)
      BY <1>3, <1>4 DEF TakeShared, WalkInv, StoreInv, TypeOK
    <2> QED
      BY <1>2, <1>3, <1>4, <2>1, <2>2, <2>3, OthersStand
  <1>5. CASE \E st : Answer(st)
    <2>1. call' = call /\ shared' = shared
      BY <1>5 DEF Answer, lockVars
    <2>2. WalkPinned'
      BY <1>2, <2>1 DEF WalkInv, WalkPinned, View
    <2> QED
      BY <1>1, <2>2, BareAgrees
  <1>6. CASE ~ \E st : Answer(st)
    <2>1. PICK k : TakeShared(c) /\ call' = [call EXCEPT ![c] = k] /\ k.seen = View(c)
      <3>1. PICK n, ps : /\ TakeShared(c)
                         /\ call' = [call EXCEPT ![c] =
                              [q |-> q, s |-> s, ps |-> ps, seen |-> View(c), n |-> n]]
        BY <1>6, Zenon DEF Ask
      <3>2. PICK k : k = [q |-> q, s |-> s, ps |-> ps, seen |-> View(c), n |-> n]
        OBVIOUS
      <3>3. k.seen = View(c) /\ call' = [call EXCEPT ![c] = k]
        BY <3>1, <3>2
      <3> QED
        BY <3>1, <3>3
    <2> QED
      BY <1>1, <1>4, <2>1, BareAgrees
  <1> QED
    BY <1>5, <1>6

\* The second walk meets the table the first one kept.
LEMMA FinishWalks ==
  ASSUME WalkInv, NEW c \in Conns, QueryFinish(c)
  PROVE  WalkPinned' /\ EpisodeWalksAgree'
PROOF
  <1>1. call[c] # None /\ db' = db /\ txn' = txn /\ writer' = writer /\ pend' = pend
        /\ shared' = shared /\ call' = [call EXCEPT ![c] = None]
    BY DEF QueryFinish, lockVars
  <1>2. \A d \in Conns : View(d)' = View(d)
    BY <1>1 DEF View
  <1>3. call'[c] = None
    BY <1>1 DEF WalkInv, StoreInv, TypeOK
  <1>4. WalkPinned'
    BY <1>1, <1>2, <1>3, OthersStand DEF WalkInv, StoreInv, TypeOK
  <1>5. CASE \E st : ans' = Bare(st)
    BY <1>4, <1>5, BareAgrees
  <1>6. CASE ~ \E st : ans' = Bare(st)
    <2>1. ans'.seen = <<call[c].seen, View(c)>> /\ ans'.episode = (c \in txn)
      BY <1>6 DEF QueryFinish
    <2>2. c \in txn => call[c].seen = View(c)
      BY <1>1 DEF WalkInv, WalkPinned
    <2>3. ans'.seen[1] = call[c].seen /\ ans'.seen[2] = View(c)
      BY <2>1
    <2>4. ans'.episode => c \in txn
      BY <2>1, Zenon
    <2>5. ans'.episode => ans'.seen[1] = ans'.seen[2]
      BY <2>2, <2>3, <2>4
    <2> QED
      BY <1>4, <2>5 DEF EpisodeWalksAgree
  <1> QED
    BY <1>5, <1>6

\* A write inside a transaction is the writer's own; one in autocommit is refused
\* while anybody holds a shared lock.
LEMMA ExecWalks ==
  ASSUME WalkInv, NEW c \in Conns, NEW ok, NEW conflict, NEW after,
         Exec(c, ok, conflict, after)
  PROVE  WalkPinned' /\ EpisodeWalksAgree'
PROOF
  <1>1. \E st : ans' = Bare(st)
    BY DEF Exec, Answer
  <1>2. call' = call /\ txn' = txn /\ call[c] = None
    BY DEF Exec, Answer, lockVars, Ready
  <1>3. ASSUME db' = db, shared' = shared, writer' = writer, pend' = pend
        PROVE  WalkPinned'
    BY <1>2, <1>3 DEF WalkInv, WalkPinned, View
  <1>4. ASSUME c \in txn, ~WriteBlocked(c), TakeShared(c), writer' = c, db' = db
        PROVE  WalkPinned'
    <2>1. \A d \in shared \ {c} : d \in shared' /\ View(d)' = View(d)
      BY <1>4, NoneAssumption DEF WriteBlocked, TakeShared, View, WalkInv, StoreInv, TypeOK
    <2>2. call'[c] = None
      BY <1>2
    <2> QED
      BY <1>2, <2>1, <2>2, OthersStand
  <1>5. ASSUME c \notin txn, shared = {}, TakeShared(c)
        PROVE  WalkPinned'
    BY <1>2, <1>5 DEF WalkInv, WalkPinned, TakeShared
  <1>6. WalkPinned'
    <2>1. CASE \E st : Answer(st)
      BY <1>3, <2>1 DEF Answer, lockVars
    <2>2. CASE ~ \E st : Answer(st)
      BY <1>4, <1>5, <2>2 DEF Exec, WriteBlocked
    <2> QED
      BY <2>1, <2>2
  <1> QED
    BY <1>1, <1>6, BareAgrees

\* A commit reaches the database when no other transaction reads; a rollback never.
LEMMA EpisodeWalks ==
  ASSUME WalkInv, NEW c \in Conns,
         \/ geas_store_begin(c) \/ geas_store_commit(c)
         \/ geas_store_rollback(c) \/ geas_store_close(c)
  PROVE  WalkPinned' /\ EpisodeWalksAgree'
PROOF
  <1>1. \E st : ans' = Bare(st)
    BY DEF geas_store_begin, geas_store_commit, geas_store_rollback, geas_store_close
  <1>2. call' = call /\ call[c] = None
    BY DEF geas_store_begin, geas_store_commit, geas_store_rollback, geas_store_close
  <1>3. \A d \in Conns \ {c} : d \in txn' => d \in txn
    BY DEF geas_store_begin, geas_store_commit, geas_store_rollback, geas_store_close,
       Release
  <1>4. \A d \in shared \ {c} : d \in shared' /\ View(d)' = View(d)
    <2>1. CASE geas_store_begin(c)
      BY <2>1 DEF geas_store_begin, View
    <2>2. CASE Release(c) /\ (db' = db \/ shared \ {c} = {})
      BY <2>2, NoneAssumption DEF Release, View, WalkInv, StoreInv, TypeOK
    <2> QED
      BY <2>1, <2>2 DEF geas_store_commit, CommitBlocked, geas_store_rollback,
         geas_store_close
  <1> QED
    BY <1>1, <1>2, <1>3, <1>4, BareAgrees, OthersStand

LEMMA NextWalkInv == WalkInv /\ [Next]_vars => WalkInv'
PROOF
  <1> SUFFICES ASSUME WalkInv, [Next]_vars PROVE WalkInv'
    OBVIOUS
  <1>1. StoreInv'
    BY NextStoreInv DEF WalkInv
  <1>2. CASE UNCHANGED vars
    BY <1>1, <1>2 DEF vars, lockVars, WalkInv, WalkPinned, EpisodeWalksAgree, View
  <1>3. ASSUME NEW c \in Conns, Query(c) PROVE WalkPinned' /\ EpisodeWalksAgree'
    BY <1>3, QueryIsAsk, AskWalks, FinishWalks
  <1>4. ASSUME NEW c \in Conns, Write(c) PROVE WalkPinned' /\ EpisodeWalksAgree'
    BY <1>4, WriteIsExec, ExecWalks
  <1>5. Next => WalkPinned' /\ EpisodeWalksAgree'
    BY <1>3, <1>4, SignWalks, OtherWalks, EpisodeWalks DEF Next
  <1> QED
    BY <1>1, <1>2, <1>5 DEF WalkInv

\* For any number of instances and any statements: an answer given inside an episode
\* comes from two walks over one table.
THEOREM EpisodeQueriesAreStill == Spec => []EpisodeWalksAgree
PROOF
  <1>1. Init => WalkInv
    BY InitStoreInv, BareAgrees
       DEF Init, WalkInv, WalkPinned, EpisodeWalksAgree, Bare
  <1>2. WalkInv => EpisodeWalksAgree
    BY DEF WalkInv
  <1> QED
    BY <1>1, <1>2, NextWalkInv, PTL DEF Spec

-----------------------------------------------------------------------------
(***************************************************************************)
(* What a query answers.  The statement an entry point builds asks of the  *)
(* cells what the request asks of the values; a table holds cells only; so *)
(* what the two walks return, read back through the type map, is the       *)
(* answer by reference.                                                    *)
(***************************************************************************)
\* The rows SQLite holds: a cell of its column's type in every column.
CellRows == {r \in [1 .. NCols -> Int] : \A i \in 1 .. NCols : r[i] \in Cells(Cols[i])}

Stored(table) == IsFiniteSet(table) /\ table \subseteq CellRows

\* read_row over the whole schema, as a function.
Reads == [r \in CellRows |-> read_row(Cols, r)]

\* Every comparison of the statement is one of the request, and the parameter it
\* reads is the value that was compared with.
SameWhere(q, s, ps) ==
  /\ DOMAIN s.where = DOMAIN q.groups
  /\ \A g \in DOMAIN q.groups :
       /\ DOMAIN s.where[g] = DOMAIN q.groups[g]
       /\ \A i \in DOMAIN q.groups[g] :
            /\ q.groups[g][i].val \in GeasValues
            /\ TermOK(q.groups[g][i])
            /\ s.where[g][i].col = q.groups[g][i].col
            /\ s.where[g][i].cmp = q.groups[g][i].cmp
            /\ ps[s.where[g][i].ph] =
                 bind_one(q.groups[g][i].val.ty, q.groups[g][i].val.v)

\* The statement selects, orders and bounds as the request does.
SameResult(q, s, ps) ==
  \/ /\ q.op = "list" /\ s.what = "rows"
     /\ q.order \in 0 .. NCols /\ s.order = q.order /\ s.desc = q.desc
     /\ \/ q.limit = -1 /\ s.lim = 0
        \/ q.limit \in Nat /\ s.lim \in Nat \ {0} /\ ps[s.lim] = q.limit
  \/ q.op = "find" /\ s.what = "rows" /\ s.lim = 0
  \/ q.op = "count" /\ s.what = "count"
  \/ q.op \in {"sum", "avg"} /\ s.what = q.op /\ s.col = q.col /\ Numeric(q.col)
  \/ /\ q.op \in {"min", "max"} /\ s.what = "col" /\ s.lim = -1
     /\ q.col \in 1 .. NCols /\ s.col = q.col /\ s.order = q.col
     /\ s.desc <=> q.op = "max"

Faithful(q, s, ps) == SameWhere(q, s, ps) /\ SameResult(q, s, ps)

\* The committed rows and the writer's are rows of cells.
TablesHold == Stored(db) /\ Stored(pend)

\* A call under way has walked a table of cells with a statement that is faithful to
\* its request, and counted one of its answers.
CallsHold ==
  \A c \in Conns : call[c] # None =>
    /\ Stored(call[c].seen)
    /\ Faithful(call[c].q, call[c].s, call[c].ps)
    /\ \E a \in Answers(call[c].s, call[c].ps, call[c].seen) : call[c].n = Len(a)

\* The inductive invariant of the answers.
AnswerInv ==
  WalkInv /\ TablesHold /\ CallsHold /\ AnswersAreExact /\ AggregatesAreSnapshots

\* What reading a row back gives.
LEMMA ReadRows ==
  ASSUME NEW r \in CellRows
  PROVE  /\ Reads[r] = read_row(Cols, r)
         /\ Reads[r] \in [1 .. NCols -> Int]
         /\ \A i \in 1 .. NCols : /\ Cols[i] \in Scalars
                                  /\ r[i] \in Cells(Cols[i])
                                  /\ r[i] \in Int
                                  /\ Reads[r][i] = read_cell(Cols[i], r[i])
PROOF
  <1>1. DOMAIN Cols = 1 .. NCols /\ \A i \in 1 .. NCols : Cols[i] \in Scalars
    BY ColsAssumption DEF NCols
  <1>2. \A i \in 1 .. NCols : r[i] \in Cells(Cols[i]) /\ r[i] \in Int
    BY DEF CellRows
  <1>3. \A i \in 1 .. NCols : read_cell(Cols[i], r[i]) \in Int
    BY <1>1, <1>2, ReadThenBind
  <1>4. read_row(Cols, r) = [i \in 1 .. NCols |-> read_cell(Cols[i], r[i])]
    BY <1>1 DEF read_row
  <1>5. Reads[r] = read_row(Cols, r)
    BY DEF Reads
  <1> QED
    BY <1>1, <1>2, <1>3, <1>4, <1>5

\* Rows that read the same are the same.
LEMMA ReadsApart ==
  ASSUME NEW x \in CellRows, NEW y \in CellRows, Reads[x] = Reads[y]
  PROVE  x = y
PROOF
  <1>1. \A i \in 1 .. NCols : x[i] = y[i]
    <2> SUFFICES ASSUME NEW i \in 1 .. NCols PROVE x[i] = y[i]
      OBVIOUS
    <2>1. /\ Cols[i] \in Scalars /\ x[i] \in Cells(Cols[i]) /\ y[i] \in Cells(Cols[i])
          /\ read_cell(Cols[i], x[i]) = read_cell(Cols[i], y[i])
      BY ReadRows
    <2>2. /\ bind_one(Cols[i], read_cell(Cols[i], x[i])) = x[i]
          /\ bind_one(Cols[i], read_cell(Cols[i], y[i])) = y[i]
      BY <2>1, ReadThenBind
    <2> QED
      BY <2>1, <2>2
  <1>2. x \in [1 .. NCols -> Int] /\ y \in [1 .. NCols -> Int]
    BY DEF CellRows
  <1>3. x = [i \in 1 .. NCols |-> x[i]] /\ y = [i \in 1 .. NCols |-> y[i]]
    BY <1>2
  <1>4. [i \in 1 .. NCols |-> x[i]] = [i \in 1 .. NCols |-> y[i]]
    BY <1>1
  <1> QED
    BY <1>3, <1>4

\* A column that is no UInt, or holds none with the top bit, reads as it is stored.
LEMMA ColumnKept ==
  ASSUME NEW r \in CellRows, NEW col \in 1 .. NCols, Cols[col] # "UInt" \/ r[col] >= 0
  PROVE  Reads[r][col] = r[col]
PROOF
  BY ReadRows, ReadThenBind

\* The rows SQLite finds are the ones the request means.
LEMMA HitsAreMatching ==
  ASSUME NEW q, NEW s, NEW ps, NEW table, Stored(table), SameWhere(q, s, ps),
         OrdersUInt(q) => TopBitFree(q, table)
  PROVE  Matching(q, table) = {Reads[r] : r \in Hits(s, ps, table)}
PROOF
  <1>1. ASSUME NEW r \in table, NEW g \in DOMAIN q.groups, NEW i \in DOMAIN q.groups[g]
        PROVE  Compare(s.where[g][i].cmp, r[s.where[g][i].col], ps[s.where[g][i].ph])
               <=> Compare(q.groups[g][i].cmp, Reads[r][q.groups[g][i].col],
                           q.groups[g][i].val.v)
    <2>1. PICK t : t = q.groups[g][i]
      OBVIOUS
    <2>2. t.val \in GeasValues /\ t.col \in 1 .. NCols /\ t.cmp \in Cmps
          /\ t.val.ty = Cols[t.col]
      BY <2>1 DEF SameWhere, TermOK
    <2>3. PICK ty, v, x : ty = t.val.ty /\ v = t.val.v /\ x = r[t.col]
      OBVIOUS
    <2>4. ty = Cols[t.col] /\ ty \in Scalars /\ v \in Payloads(ty)
      BY <2>2, <2>3 DEF GeasValues
    <2>5. r \in CellRows
      BY DEF Stored
    <2>6. x \in Cells(ty) /\ Reads[r][t.col] = read_cell(ty, x)
      BY <2>2, <2>3, <2>4, <2>5, ReadRows
    <2>7. t.cmp \in {"EQ", "NE"} \/ ty # "UInt" \/ (x >= 0 /\ bind_one(ty, v) = v)
      <3> SUFFICES ASSUME t.cmp \notin {"EQ", "NE"}, ty = "UInt"
                   PROVE  x >= 0 /\ bind_one(ty, v) = v
        OBVIOUS
      <3>1. OrdersUInt(q)
        BY <2>1, <2>4 DEF OrdersUInt
      <3>2. TopBitFree(q, table)
        BY <3>1
      <3> QED
        BY <2>1, <2>2, <2>3, <2>4, <3>2 DEF TopBitFree
    <2>8. Compare(t.cmp, x, bind_one(ty, v)) <=> Compare(t.cmp, read_cell(ty, x), v)
      BY <2>2, <2>4, <2>6, <2>7, CompareSame
    <2>9. s.where[g][i].col = t.col /\ s.where[g][i].cmp = t.cmp
          /\ ps[s.where[g][i].ph] = bind_one(ty, v)
      BY <2>1, <2>3 DEF SameWhere
    <2> QED
      BY <2>1, <2>3, <2>6, <2>8, <2>9
  <1> DEFINE Meant(r) ==
        \E g \in DOMAIN q.groups : \A i \in DOMAIN q.groups[g] :
          Compare(q.groups[g][i].cmp, r[q.groups[g][i].col], q.groups[g][i].val.v)
  <1>2. ASSUME NEW r \in table PROVE r \in Hits(s, ps, table) <=> Meant(Reads[r])
    BY <1>1 DEF Hits, SameWhere
  <1>3. Matching(q, table) = {r \in {read_row(Cols, t) : t \in table} : Meant(r)}
    BY DEF Matching
  <1>4. \A r \in table : Reads[r] = read_row(Cols, r)
    BY ReadRows DEF Stored
  <1>5. Hits(s, ps, table) \subseteq table
    BY DEF Hits
  <1> HIDE DEF Meant
  <1> QED
    BY <1>2, <1>3, <1>4, <1>5

\* There are as many of them, and they total the same.
LEMMA HitsCount ==
  ASSUME NEW s, NEW ps, NEW table, Stored(table), NEW hits, hits = Hits(s, ps, table)
  PROVE  /\ IsFiniteSet(hits) /\ hits \subseteq CellRows /\ hits \subseteq table
         /\ Cardinality(hits) \in Nat
         /\ Cardinality({Reads[r] : r \in hits}) = Cardinality(hits)
         /\ hits = {} <=> Cardinality(hits) = 0
         /\ \A col : Numeric(col) =>
              Total({Reads[r] : r \in hits}, col) = Total(hits, col) /\ Total(hits, col) \in Int
PROOF
  <1>1. hits \subseteq table /\ hits \subseteq CellRows
    BY DEF Hits, Stored
  <1>2. IsFiniteSet(hits)
    BY <1>1, FS_Subset DEF Stored
  <1>3. \A x, y \in hits : Reads[x] = Reads[y] => x = y
    BY <1>1, ReadsApart
  <1>4. Cardinality({Reads[r] : r \in hits}) = Cardinality(hits)
    BY <1>2, <1>3, SameCount
  <1>5. ASSUME NEW col, Numeric(col)
        PROVE  Total({Reads[r] : r \in hits}, col) = Total(hits, col)
               /\ Total(hits, col) \in Int
    <2>1. col \in 1 .. NCols /\ Cols[col] # "UInt"
      BY <1>5 DEF Numeric
    <2>2. \A r \in hits : Reads[r][col] = r[col] /\ r[col] \in Int
      BY <1>1, <2>1, ColumnKept, ReadRows
    <2>3. Summed(hits, col)
      BY <1>2, <2>2 DEF Summed
    <2> QED
      BY <1>3, <2>2, <2>3, TotalOfImage, TotalInt
  <1>6. Cardinality(hits) \in Nat /\ (hits = {} <=> Cardinality(hits) = 0)
    BY <1>2, FS_CardinalityType, FS_EmptySet
  <1> QED
    BY <1>1, <1>2, <1>4, <1>5, <1>6

\* The values of an ordered column are the cells that were ordered.
LEMMA OrderKept ==
  ASSUME NEW q, NEW table, Stored(table), OrdersUInt(q) => TopBitFree(q, table),
         NEW col \in 1 .. NCols, NEW r \in table,
         col = q.order \/ (q.op \in {"min", "max"} /\ col = q.col)
  PROVE  Reads[r][col] = r[col] /\ r[col] \in Int
PROOF
  <1>1. r \in CellRows
    BY DEF Stored
  <1>2. ASSUME Cols[col] = "UInt" PROVE r[col] >= 0
    <2>1. OrdersUInt(q)
      BY <1>2 DEF OrdersUInt
    <2> QED
      BY <1>2, <2>1 DEF TopBitFree
  <1> QED
    BY <1>1, <1>2, ColumnKept, ReadRows

\* A sequence without repetitions has as many elements as places.
LEMMA DistinctCount ==
  ASSUME NEW n \in Nat, NEW w, DOMAIN w = 1 .. n, \A i, j \in 1 .. n : w[i] = w[j] => i = j
  PROVE  Cardinality(ToSet(w)) = n
PROOF
  <1>1. PICK D : D = 1 .. n
    OBVIOUS
  <1>2. IsFiniteSet(D) /\ Cardinality(D) = n
    BY <1>1, FS_Interval
  <1>3. Cardinality({w[i] : i \in D}) = Cardinality(D)
    BY <1>1, <1>2, SameCount
  <1> QED
    BY <1>1, <1>2, <1>3 DEF ToSet

\* A walk cut at its bound, read back, is the list that was asked for.
LEMMA WalkIsList ==
  ASSUME NEW q, NEW s, NEW ps, NEW table, Stored(table), Faithful(q, s, ps),
         OrdersUInt(q) => TopBitFree(q, table), q.op = "list",
         NEW v, NEW n, IsWalk(s, ps, Hits(s, ps, table), v, n),
         NEW w, w = [i \in 1 .. n |-> Reads[v[i]]]
  PROVE  IsList(q, w, Matching(q, table))
PROOF
  <1>1. PICK hits, M : hits = Hits(s, ps, table) /\ M = Matching(q, table)
    OBVIOUS
  <1>2. M = {Reads[r] : r \in hits}
    BY <1>1, HitsAreMatching DEF Faithful
  <1>3. hits \subseteq CellRows /\ hits \subseteq table /\ Cardinality(M) = Cardinality(hits)
    BY <1>1, <1>2, HitsCount
  <1>4. PICK N \in Nat : N = Cardinality(hits)
    BY <1>1 DEF IsWalk
  <1>5. /\ v \in [1 .. N -> hits] /\ n \in 0 .. N /\ n \in Nat
        /\ \A i, j \in 1 .. N : i # j => v[i] # v[j]
        /\ \A r \in hits : \E i \in 1 .. N : v[i] = r
        /\ n = Bound(s, ps, N)
    BY <1>1, <1>4 DEF IsWalk
  <1>6. w \in [1 .. n -> M] /\ w \in Seq(M) /\ Len(w) = n /\ DOMAIN w = 1 .. n
    <2>1. \A i \in 1 .. n : i \in 1 .. N /\ v[i] \in hits
      BY <1>5
    <2>2. w \in [1 .. n -> M]
      BY <1>2, <2>1
    <2> QED
      BY <1>5, <2>2
  <1>7. ToSet(w) \subseteq M /\ Cardinality(ToSet(w)) = n
    <2>1. ToSet(w) = {w[i] : i \in 1 .. n}
      BY <1>6 DEF ToSet
    <2>2. \A i, j \in 1 .. n : w[i] = w[j] => i = j
      <3> SUFFICES ASSUME NEW i \in 1 .. n, NEW j \in 1 .. n, w[i] = w[j] PROVE i = j
        OBVIOUS
      <3>1. i \in 1 .. N /\ j \in 1 .. N
        BY <1>5
      <3>2. v[i] \in CellRows /\ v[j] \in CellRows /\ Reads[v[i]] = Reads[v[j]]
        BY <1>3, <1>5, <3>1
      <3>3. v[i] = v[j]
        BY <3>2, ReadsApart
      <3> QED
        BY <1>5, <3>1, <3>3
    <2>3. Cardinality(ToSet(w)) = n
      BY <1>5, <1>6, <2>2, DistinctCount
    <2> QED
      BY <1>6, <2>1, <2>3
  <1>8. n = IF q.limit = -1 THEN N ELSE Min({q.limit, N})
    <2>1. \/ q.limit = -1 /\ s.lim = 0
          \/ q.limit \in Nat /\ s.lim \in Nat \ {0} /\ ps[s.lim] = q.limit
      BY DEF Faithful, SameResult
    <2>2. LimOK(s, ps)
      BY <2>1 DEF LimOK
    <2>3. CASE q.limit = -1 /\ s.lim = 0
      <3>1. Bound(s, ps, N) = N
        BY <2>3 DEF Bound
      <3> QED
        BY <1>5, <2>3, <3>1
    <2>4. CASE q.limit \in Nat /\ s.lim \in Nat \ {0} /\ ps[s.lim] = q.limit
      <3>1. s.lim \notin {0, -1} /\ q.limit # -1
        BY <2>4
      <3>2. Bound(s, ps, N) = Min({ps[s.lim], N})
        BY <2>2, <3>1, BoundFits
      <3> QED
        BY <1>5, <2>4, <3>1, <3>2
    <2> QED
      BY <2>1, <2>3, <2>4
  <1>9. ASSUME q.order # 0
        PROVE  Sorted(q, w) /\ \A r \in M \ ToSet(w) : Sorted(q, Append(w, r))
    <2>1. PICK o \in 1 .. NCols : o = q.order /\ s.order = o /\ s.desc = q.desc
      <3>1. q.order \in 0 .. NCols /\ s.order = q.order /\ s.desc = q.desc
        BY DEF Faithful, SameResult
      <3>2. NCols \in Nat
        BY ColsAssumption DEF NCols
      <3> QED
        BY <1>9, <3>1, <3>2
    <2>2. \A i \in 1 .. N : Reads[v[i]][o] = v[i][o] /\ v[i][o] \in Int
      BY <1>3, <1>5, <2>1, OrderKept
    <2>3. \A i, j \in 1 .. N :
            i < j => IF q.desc THEN Reads[v[i]][o] >= Reads[v[j]][o]
                               ELSE Reads[v[i]][o] <= Reads[v[j]][o]
      <3>1. InOrder(s, v)
        BY DEF IsWalk
      <3>2. \A i, j \in 1 .. N :
              i < j => IF q.desc THEN v[i][o] >= v[j][o] ELSE v[i][o] <= v[j][o]
        <4>1. DOMAIN v = 1 .. N /\ s.order # 0
          BY <1>5, <2>1
        <4>2. \A i, j \in DOMAIN v :
                i < j => IF s.desc THEN v[i][s.order] >= v[j][s.order]
                                   ELSE v[i][s.order] <= v[j][s.order]
          BY <3>1, <4>1 DEF InOrder
        <4> QED
          BY <2>1, <4>1, <4>2
      <3> QED
        BY <2>2, <3>2
    <2>4. Sorted(q, w)
      <3> SUFFICES ASSUME NEW i \in 1 .. n, NEW j \in 1 .. n, i < j
                   PROVE  IF q.desc THEN w[i][o] >= w[j][o] ELSE w[i][o] <= w[j][o]
        BY <1>6, <2>1 DEF Sorted
      <3>1. i \in 1 .. N /\ j \in 1 .. N /\ w[i] = Reads[v[i]] /\ w[j] = Reads[v[j]]
        BY <1>5
      <3> QED
        BY <2>3, <3>1
    <2>5. ASSUME NEW r \in M \ ToSet(w) PROVE Sorted(q, Append(w, r))
      <3>1. PICK x \in hits : r = Reads[x]
        BY <1>2
      <3>2. PICK m \in 1 .. N : v[m] = x
        BY <1>5
      <3>3. m > n
        <4> SUFFICES ASSUME m \in 1 .. n PROVE FALSE
          BY <1>5
        <4>1. w[m] = r
          BY <3>1, <3>2
        <4> QED
          BY <1>6, <4>1 DEF ToSet
      <3>4. PICK u : u = Append(w, r)
        OBVIOUS
      <3>5. DOMAIN u = 1 .. (n + 1) /\ u[n + 1] = r /\ \A i \in 1 .. n : u[i] = w[i]
        BY <1>5, <1>6, <3>4
      <3> SUFFICES ASSUME NEW i \in 1 .. (n + 1), NEW j \in 1 .. (n + 1), i < j
                   PROVE  IF q.desc THEN u[i][o] >= u[j][o] ELSE u[i][o] <= u[j][o]
        BY <2>1, <3>4, <3>5 DEF Sorted
      <3>6. i \in 1 .. n /\ i \in 1 .. N /\ u[i] = Reads[v[i]]
        BY <1>5, <3>5
      <3>7. CASE j = n + 1
        <4>1. i < m /\ u[j] = Reads[v[m]]
          BY <1>5, <3>1, <3>2, <3>3, <3>5, <3>6, <3>7
        <4> QED
          BY <2>3, <3>6, <4>1
      <3>8. CASE j # n + 1
        <4>1. j \in 1 .. n /\ j \in 1 .. N /\ u[j] = Reads[v[j]]
          BY <1>5, <3>5, <3>8
        <4> QED
          BY <2>3, <3>6, <4>1
      <3> QED
        BY <3>7, <3>8
    <2> QED
      BY <2>4, <2>5
  <1> QED
    BY <1>1, <1>3, <1>4, <1>6, <1>7, <1>8, <1>9 DEF IsList

\* read_row over the result types of the aggregates.
LEMMA ReadNarrow ==
  ASSUME NEW ty, NEW x, NEW y
  PROVE  /\ read_row(<<ty>>, <<x>>) = <<read_cell(ty, x)>>
         /\ read_row(<<"Int", ty>>, <<x, y>>) = <<x, read_cell(ty, y)>>
PROOF
  BY DEF read_row, read_cell

\* The second walk fills the backbone the first one sized.
LEMMA BackboneFilled ==
  ASSUME NEW k, NEW a, NEW n \in Nat, k.n = n, Len(a) = n
  PROVE  Backbone(k, a) = [i \in 1 .. n |-> read_row(Types(k.s), a[i])]
PROOF
  BY DEF Backbone

\* The first of a list, as an Option.
LEMMA HeadOnly ==
  ASSUME NEW T, NEW w \in Seq(T), Len(w) # 0
  PROVE  SubSeq(w, 1, 1) = <<w[1]>>
PROOF
  <1>1. Len(w) \in Nat /\ Len(w) >= 1
    OBVIOUS
  <1>2. PICK u : u = SubSeq(w, 1, 1)
    OBVIOUS
  <1>3. u \in Seq(T) /\ Len(u) = 1 /\ u[1] = w[1]
    BY <1>1, <1>2
  <1>4. PICK x : x = <<w[1]>>
    OBVIOUS
  <1>5. x \in Seq({w[1]}) /\ Len(x) = 1 /\ x[1] = w[1]
    BY <1>4
  <1>6. u = [i \in 1 .. 1 |-> u[i]] /\ x = [i \in 1 .. 1 |-> x[i]]
    BY <1>3, <1>5
  <1>7. [i \in 1 .. 1 |-> u[i]] = [i \in 1 .. 1 |-> x[i]]
    BY <1>3, <1>5
  <1> QED
    BY <1>2, <1>4, <1>6, <1>7

\* A faithful statement is bounded by none, one, or a number it was given.
LEMMA FaithfulBounds ==
  ASSUME NEW q, NEW s, NEW ps, Faithful(q, s, ps), q.op \in {"list", "find", "min", "max"}
  PROVE  LimOK(s, ps)
PROOF
  BY DEF Faithful, SameResult, LimOK

\* geas_store_find and the lists: both walks over one table give what was asked for.
LEMMA RowsExact ==
  ASSUME NEW q, NEW s, NEW ps, NEW table, Stored(table), Faithful(q, s, ps),
         q.op \in {"list", "find"},
         NEW a1 \in Answers(s, ps, table), NEW a2 \in Answers(s, ps, table),
         NEW k, k.s = s, k.n = Len(a1)
  PROVE  Exact(q, Unwrap(q.op, Backbone(k, a2)), table)
PROOF
  <1> SUFFICES ASSUME OrdersUInt(q) => TopBitFree(q, table)
               PROVE  IsAnswer(q, Unwrap(q.op, Backbone(k, a2)), table)
    BY DEF Exact
  <1>1. PICK hits, N, M : hits = Hits(s, ps, table) /\ N = Cardinality(hits)
                          /\ M = Matching(q, table)
    OBVIOUS
  <1>2. IsFiniteSet(table) /\ LimOK(s, ps) /\ s.what = "rows" /\ SameWhere(q, s, ps)
    BY FaithfulBounds DEF Stored, Faithful, SameResult
  <1>3. PICK v1, n1 : IsWalk(s, ps, hits, v1, n1) /\ a1 = [i \in 1 .. n1 |-> v1[i]]
    BY <1>1, <1>2, AnswerIsWalk
  <1>4. PICK v, n : IsWalk(s, ps, hits, v, n) /\ a2 = [i \in 1 .. n |-> v[i]]
    BY <1>1, <1>2, AnswerIsWalk
  <1>5. n \in Nat /\ n1 = n /\ n \in 0 .. N /\ N \in Nat
    BY <1>1, <1>3, <1>4 DEF IsWalk
  <1>6. Len(a1) = n /\ Len(a2) = n
    BY <1>3, <1>4, <1>5
  <1>7. PICK w : w = Backbone(k, a2)
    OBVIOUS
  <1>8. w = [i \in 1 .. n |-> Reads[v[i]]]
    <2>1. w = [i \in 1 .. n |-> read_row(Types(s), a2[i])]
      BY <1>5, <1>6, <1>7, BackboneFilled
    <2>2. Types(s) = Cols
      BY <1>2 DEF Types
    <2>3. \A i \in 1 .. n : v[i] \in hits
      BY <1>1, <1>4, <1>5 DEF IsWalk
    <2>4. hits \subseteq CellRows
      BY <1>1, HitsCount
    <2>5. \A i \in 1 .. n : read_row(Cols, a2[i]) = Reads[v[i]]
      BY <1>4, <2>3, <2>4, ReadRows
    <2> QED
      BY <2>1, <2>2, <2>5
  <1>9. CASE q.op = "list"
    <2>1. IsList(q, w, M)
      BY <1>1, <1>4, <1>8, <1>9, WalkIsList
    <2> QED
      BY <1>1, <1>7, <1>9, <2>1 DEF Unwrap, IsAnswer
  <1>10. CASE q.op = "find"
    <2>1. n = N
      <3>1. s.lim = 0
        BY <1>10 DEF Faithful, SameResult
      <3> QED
        BY <1>1, <1>4, <3>1 DEF IsWalk, Bound
    <2>2. M = {Reads[r] : r \in hits} /\ (hits = {} <=> N = 0)
      BY <1>1, <1>2, HitsAreMatching, HitsCount
    <2>3. PICK u : u = Unwrap(q.op, w)
      OBVIOUS
    <2>4. w \in Seq(M) /\ Len(w) = n
      <3>1. \A i \in 1 .. n : v[i] \in hits
        BY <1>1, <1>4, <1>5 DEF IsWalk
      <3>2. w \in [1 .. n -> M]
        BY <1>8, <2>2, <3>1
      <3> QED
        BY <1>5, <3>2
    <2>5. u = SubSeq(w, 1, Min({1, n}))
      BY <1>10, <2>3, <2>4 DEF Unwrap
    <2>6. Min({1, n}) = IF 1 <= n THEN 1 ELSE n
      BY <1>5, MinOfTwo
    <2>7. CASE n = 0
      <3>1. M = {}
        BY <2>1, <2>2, <2>7
      <3>2. u = << >>
        BY <2>4, <2>5, <2>6, <2>7
      <3> QED
        BY <1>1, <1>7, <1>10, <2>3, <3>1, <3>2 DEF IsAnswer
    <2>8. CASE n # 0
      <3>1. 1 \in 1 .. n /\ Min({1, n}) = 1
        BY <1>5, <2>6, <2>8
      <3>2. w[1] \in M
        BY <2>4, <3>1
      <3>3. u = <<w[1]>>
        <4>1. SubSeq(w, 1, 1) = <<w[1]>>
          BY <2>4, <2>8, HeadOnly
        <4> QED
          BY <2>5, <3>1, <4>1
      <3> QED
        BY <1>1, <1>7, <1>10, <2>3, <3>2, <3>3 DEF IsAnswer
    <2> QED
      BY <2>7, <2>8
  <1> QED
    BY <1>9, <1>10

\* A count, a sum and a mean are the ones of the table the second walk met.
LEMMA FiguresExact ==
  ASSUME NEW q, NEW s, NEW ps, NEW t1, NEW t2, Stored(t2), Faithful(q, s, ps),
         q.op \in {"count", "sum", "avg"},
         NEW a1 \in Answers(s, ps, t1), NEW a2 \in Answers(s, ps, t2),
         NEW k, k.s = s, k.n = Len(a1)
  PROVE  Exact(q, Unwrap(q.op, Backbone(k, a2)), t2)
PROOF
  <1> SUFFICES ASSUME OrdersUInt(q) => TopBitFree(q, t2)
               PROVE  IsAnswer(q, Unwrap(q.op, Backbone(k, a2)), t2)
    BY DEF Exact
  <1>1. PICK hits, M : hits = Hits(s, ps, t2) /\ M = Matching(q, t2)
    OBVIOUS
  <1>2. M = {Reads[r] : r \in hits}
    BY <1>1, HitsAreMatching DEF Faithful
  <1>3. PICK N \in Nat : N = Cardinality(hits) /\ N = Cardinality(M) /\ (M = {} <=> N = 0)
    <2>1. Cardinality(M) = Cardinality(hits)
      BY <1>1, <1>2, HitsCount
    <2>2. IsFiniteSet(hits)
      BY <1>1, HitsCount
    <2>3. Cardinality(hits) \in Nat /\ (Cardinality(hits) = 0 <=> hits = {})
      BY <2>2, FS_CardinalityType, FS_EmptySet
    <2> QED
      BY <1>2, <2>1, <2>3
  <1>4. PICK sum : sum = Total(hits, s.col)
    OBVIOUS
  <1>5. q.op # "count" => /\ s.col = q.col /\ sum = Total(M, q.col) /\ sum \in Int
                          /\ Cols[s.col] \in {"Int", "Float"}
    <2> SUFFICES ASSUME q.op # "count"
                 PROVE  /\ s.col = q.col /\ sum = Total(M, q.col) /\ sum \in Int
                        /\ Cols[s.col] \in {"Int", "Float"}
      OBVIOUS
    <2>1. s.col = q.col /\ Numeric(q.col)
      BY DEF Faithful, SameResult
    <2>2. Total({Reads[r] : r \in hits}, q.col) = Total(hits, q.col)
          /\ Total(hits, q.col) \in Int
      BY <1>1, <2>1, HitsCount
    <2> QED
      BY <1>2, <1>4, <2>1, <2>2 DEF Numeric
  <1>6. s.what = q.op
    BY DEF Faithful, SameResult
  <1>7. /\ q.op = "count" => a2 = << <<N>> >>
        /\ q.op = "sum" => a2 = << <<sum>> >>
        /\ q.op = "avg" => a2 = << <<N, sum>> >>
    BY <1>1, <1>3, <1>4, <1>6 DEF Answers
  <1>8. Len(a1) = 1 /\ Len(a2) = 1
    <2>1. \E x : a1 = <<x>>
      BY <1>6 DEF Answers
    <2> QED
      BY <1>7, <2>1
  <1>9. PICK w : w = Backbone(k, a2)
    OBVIOUS
  <1>10. Len(w) = 1 /\ w[1] = read_row(Types(s), a2[1])
    <2>1. w = [i \in 1 .. 1 |-> read_row(Types(s), a2[i])]
      <3>1. k.n = 1 /\ 1 \in Nat
        BY <1>8
      <3>2. Backbone(k, a2) = [i \in 1 .. 1 |-> read_row(Types(k.s), a2[i])]
        BY <1>8, <3>1 DEF Backbone
      <3> QED
        BY <1>9, <3>2
    <2> QED
      BY <2>1
  <1>11. CASE q.op = "count"
    <2>1. Types(s) = <<"Int">> /\ a2[1] = <<N>>
      BY <1>6, <1>7, <1>11 DEF Types
    <2>2. w[1] = <<read_cell("Int", N)>>
      BY <1>10, <2>1, ReadNarrow
    <2>3. w[1] = <<N>>
      BY <2>2 DEF read_cell
    <2> QED
      BY <1>1, <1>3, <1>9, <1>11, <2>3 DEF Unwrap, IsAnswer
  <1>12. CASE q.op = "sum"
    <2>1. Types(s) = <<Cols[s.col]>> /\ a2[1] = <<sum>>
      BY <1>6, <1>7, <1>12 DEF Types
    <2>2. w[1] = <<read_cell(Cols[s.col], sum)>>
      BY <1>10, <2>1, ReadNarrow
    <2>3. w[1] = <<sum>>
      BY <1>5, <1>12, <2>2 DEF read_cell
    <2> QED
      BY <1>1, <1>5, <1>9, <1>12, <2>3 DEF Unwrap, IsAnswer
  <1>13. CASE q.op = "avg"
    <2>1. Types(s) = <<"Int", Cols[s.col]>> /\ a2[1] = <<N, sum>>
      BY <1>6, <1>7, <1>13 DEF Types
    <2>2. w[1] = <<N, read_cell(Cols[s.col], sum)>>
      <3>1. PICK ty : ty = Cols[s.col]
        OBVIOUS
      <3>2. read_row(<<"Int", ty>>, <<N, sum>>) = <<N, read_cell(ty, sum)>>
        BY ReadNarrow
      <3> QED
        BY <1>10, <2>1, <3>1, <3>2
    <2>3. w[1] = <<N, sum>> /\ w[1][1] = N
      BY <1>5, <1>13, <2>2 DEF read_cell
    <2>4. Unwrap(q.op, w) = IF N = 0 THEN << >> ELSE <<N, sum>>
      BY <1>13, <2>3 DEF Unwrap
    <2>5. Unwrap(q.op, w) = IF M = {} THEN << >> ELSE <<Cardinality(M), Total(M, q.col)>>
      BY <1>3, <1>5, <1>13, <2>4
    <2> QED
      BY <1>1, <1>9, <1>13, <2>5 DEF IsAnswer
  <1> QED
    BY <1>11, <1>12, <1>13

LEMMA ExtremeIs ==
  ASSUME NEW S \in SUBSET Int, NEW x \in S
  PROVE  /\ (\A y \in S : x <= y) => Min(S) = x
         /\ (\A y \in S : x >= y) => Max(S) = x
PROOF
  <1>1. ASSUME \A y \in S : x <= y PROVE Min(S) = x
    <2>1. PICK m : m = Min(S)
      OBVIOUS
    <2>2. m \in S /\ \A y \in S : m <= y
      BY <1>1, <2>1 DEF Min
    <2> QED
      BY <1>1, <2>1, <2>2
  <1>2. ASSUME \A y \in S : x >= y PROVE Max(S) = x
    <2>1. PICK m : m = Max(S)
      OBVIOUS
    <2>2. m \in S /\ \A y \in S : m >= y
      BY <1>2, <2>1 DEF Max
    <2> QED
      BY <1>2, <2>1, <2>2
  <1> QED
    BY <1>1, <1>2

\* The first row of a walk ordered by a column has the extreme value of it.
LEMMA FirstIsExtreme ==
  ASSUME NEW q, NEW s, NEW ps, NEW table, Stored(table), Faithful(q, s, ps),
         q.op \in {"min", "max"}, OrdersUInt(q) => TopBitFree(q, table),
         NEW v, NEW n, IsWalk(s, ps, Hits(s, ps, table), v, n),
         Cardinality(Hits(s, ps, table)) # 0
  PROVE  IsAnswer(q, <<Reads[v[1]][q.col]>>, table)
PROOF
  <1>1. PICK hits, M, col, N :
          /\ hits = Hits(s, ps, table) /\ M = Matching(q, table)
          /\ col = q.col /\ N = Cardinality(hits)
    OBVIOUS
  <1>2. /\ col \in 1 .. NCols /\ s.col = col /\ s.order = col /\ SameWhere(q, s, ps)
        /\ s.desc <=> q.op = "max"
    BY <1>1 DEF Faithful, SameResult
  <1>3. M = {Reads[r] : r \in hits} /\ hits \subseteq table
    BY <1>1, <1>2, HitsAreMatching, HitsCount
  <1>4. /\ N \in Nat /\ v \in [1 .. N -> hits] /\ InOrder(s, v)
        /\ \A r \in hits : \E i \in 1 .. N : v[i] = r
    BY <1>1 DEF IsWalk
  <1>5. 1 \in 1 .. N /\ v[1] \in hits
    BY <1>1, <1>4
  <1>6. \A r \in hits : Reads[r][col] = r[col] /\ r[col] \in Int
    BY <1>1, <1>2, <1>3, OrderKept
  <1>7. PICK column : column = {r[col] : r \in M}
    OBVIOUS
  <1>8. column = {r[col] : r \in hits}
    BY <1>3, <1>6, <1>7
  <1>9. PICK x : x = v[1][col]
    OBVIOUS
  <1>10. x = Reads[v[1]][col] /\ x \in column /\ column \in SUBSET Int /\ M # {}
    BY <1>3, <1>5, <1>6, <1>8, <1>9
  <1>11. ASSUME NEW y \in column
         PROVE  (q.op = "min" => x <= y) /\ (q.op = "max" => x >= y)
    <2>1. PICK j \in 1 .. N : y = v[j][col]
      BY <1>4, <1>8
    <2>2. CASE j = 1
      <3>1. y = x /\ x \in Int
        BY <1>9, <1>10, <2>1, <2>2
      <3> QED
        BY <3>1
    <2>3. CASE j # 1
      <3>1. 1 < j /\ 1 \in DOMAIN v /\ j \in DOMAIN v /\ s.order # 0
        BY <1>2, <1>4, <1>5, <2>3
      <3>2. IF s.desc THEN v[1][s.order] >= v[j][s.order] ELSE v[1][s.order] <= v[j][s.order]
        BY <1>4, <3>1 DEF InOrder
      <3> QED
        BY <1>2, <1>9, <2>1, <3>2
    <2> QED
      BY <2>2, <2>3
  <1>12. CASE q.op = "min"
    <2>1. Min(column) = x
      BY <1>10, <1>11, <1>12, ExtremeIs
    <2> QED
      BY <1>1, <1>7, <1>10, <1>12, <2>1 DEF IsAnswer
  <1>13. CASE q.op = "max"
    <2>1. Max(column) = x
      BY <1>10, <1>11, <1>13, ExtremeIs
    <2> QED
      BY <1>1, <1>7, <1>10, <1>13, <2>1 DEF IsAnswer
  <1> QED
    BY <1>12, <1>13

LEMMA NoHits ==
  ASSUME NEW q, NEW s, NEW ps, NEW table, Stored(table), SameWhere(q, s, ps),
         OrdersUInt(q) => TopBitFree(q, table), Hits(s, ps, table) = {}
  PROVE  Matching(q, table) = {}
PROOF
  <1>1. Matching(q, table) = {Reads[r] : r \in Hits(s, ps, table)}
    BY HitsAreMatching
  <1> QED
    BY <1>1

\* A minimum and a maximum are those of the table the first walk met when it held no
\* row, and of the one the second walk met otherwise; the slot is refused.
LEMMA ExtremesExact ==
  ASSUME NEW q, NEW s, NEW ps, NEW t1, NEW t2, Stored(t1), Stored(t2), Faithful(q, s, ps),
         q.op \in {"min", "max"},
         NEW a1 \in Answers(s, ps, t1), NEW a2 \in Answers(s, ps, t2),
         NEW k, k.s = s, k.n = Len(a1), ~Refuses(q.op, Backbone(k, a2))
  PROVE  \/ Exact(q, Unwrap(q.op, Backbone(k, a2)), t1)
         \/ Exact(q, Unwrap(q.op, Backbone(k, a2)), t2)
PROOF
  <1>1. PICK h1, h2, w :
          h1 = Hits(s, ps, t1) /\ h2 = Hits(s, ps, t2) /\ w = Backbone(k, a2)
    OBVIOUS
  <1>2. /\ IsFiniteSet(t1) /\ IsFiniteSet(t2) /\ LimOK(s, ps) /\ s.what = "col"
        /\ SameWhere(q, s, ps) /\ s.lim = -1 /\ s.col = q.col /\ q.col \in 1 .. NCols
    BY FaithfulBounds DEF Stored, Faithful, SameResult
  <1>3. PICK v1, n1 : IsWalk(s, ps, h1, v1, n1) /\ a1 = [i \in 1 .. n1 |-> <<v1[i][s.col]>>]
    BY <1>1, <1>2, AnswerIsWalk
  <1>4. PICK v2, n2 : IsWalk(s, ps, h2, v2, n2) /\ a2 = [i \in 1 .. n2 |-> <<v2[i][s.col]>>]
    BY <1>1, <1>2, AnswerIsWalk
  <1>5. /\ Cardinality(h1) \in Nat /\ n1 = IF Cardinality(h1) = 0 THEN 0 ELSE 1
        /\ Cardinality(h2) \in Nat /\ n2 = IF Cardinality(h2) = 0 THEN 0 ELSE 1
    <2>1. ASSUME NEW h, NEW v, NEW n, IsWalk(s, ps, h, v, n)
          PROVE  Cardinality(h) \in Nat /\ n = IF Cardinality(h) = 0 THEN 0 ELSE 1
      <3>1. PICK N \in Nat : N = Cardinality(h) /\ n = Bound(s, ps, N)
        BY <2>1 DEF IsWalk
      <3>2. Bound(s, ps, N) = IF N = 0 THEN 0 ELSE 1
        BY <1>2, BoundFits
      <3> QED
        BY <3>1, <3>2
    <2> QED
      BY <1>3, <1>4, <2>1
  <1>6. k.n = n1 /\ Len(a2) = n2
    BY <1>3, <1>4, <1>5
  <1>7. CASE n1 = 0
    <2>1. Unwrap(q.op, w) = << >>
      <3>1. w = << >>
        BY <1>1, <1>6, <1>7 DEF Backbone
      <3> QED
        BY <3>1 DEF Unwrap
    <2>2. ASSUME OrdersUInt(q) => TopBitFree(q, t1) PROVE IsAnswer(q, << >>, t1)
      <3>1. h1 = {}
        <4>1. IsFiniteSet(h1)
          BY <1>1, HitsCount
        <4> QED
          BY <1>5, <1>7, <4>1, FS_EmptySet
      <3>2. Matching(q, t1) = {}
        BY <1>1, <1>2, <2>2, <3>1, NoHits
      <3> QED
        BY <3>2 DEF IsAnswer
    <2> QED
      BY <1>1, <2>1, <2>2 DEF Exact
  <1>8. CASE n1 = 1 /\ n2 = 0
    <2>1. w = [i \in 1 .. 1 |-> Zeroed]
      BY <1>1, <1>6, <1>8 DEF Backbone
    <2>2. w[1] = Zeroed /\ w # << >>
      BY <2>1
    <2> QED
      BY <1>1, <2>2 DEF Refuses
  <1>9. CASE n1 = 1 /\ n2 = 1
    <2>1. PICK x : x = Reads[v2[1]][q.col]
      OBVIOUS
    <2>2. w = [i \in 1 .. 1 |-> read_row(Types(s), a2[i])]
      BY <1>1, <1>6, <1>9 DEF Backbone
    <2>3. Types(s) = <<Cols[q.col]>> /\ a2[1] = <<v2[1][q.col]>>
      BY <1>2, <1>4, <1>9 DEF Types
    <2>4. v2[1] \in CellRows
      <3>1. v2[1] \in h2
        BY <1>4, <1>5, <1>9 DEF IsWalk
      <3> QED
        BY <1>1, <3>1, HitsCount
    <2>5. w[1] = <<x>> /\ w # << >>
      <3>1. PICK ty, y : ty = Cols[q.col] /\ y = v2[1][q.col]
        OBVIOUS
      <3>2. read_row(<<ty>>, <<y>>) = <<read_cell(ty, y)>>
        BY ReadNarrow
      <3>3. read_cell(ty, y) = x
        BY <1>2, <2>1, <2>4, <3>1, ReadRows
      <3> QED
        BY <2>2, <2>3, <3>1, <3>2, <3>3
    <2>6. Unwrap(q.op, w) = <<x>>
      BY <2>5 DEF Unwrap
    <2>7. ASSUME OrdersUInt(q) => TopBitFree(q, t2) PROVE IsAnswer(q, <<x>>, t2)
      BY <1>1, <1>4, <1>5, <1>9, <2>1, <2>7, FirstIsExtreme
    <2> QED
      BY <1>1, <2>6, <2>7 DEF Exact
  <1> QED
    BY <1>5, <1>7, <1>8, <1>9

-----------------------------------------------------------------------------
(* The builders: every entry point prepares a statement that is faithful to *)
(* what it was asked, whatever the predicate.                               *)

\* The terms of all the groups are terms.
LEMMA FlattenTerms ==
  ASSUME NEW gs \in Seq(Seq(Terms))
  PROVE  FlattenSeq(gs) \in Seq(Terms)
PROOF
  <1>1. PICK f : Laid(gs, Terms, f)
    BY LaidExists
  <1>2. PICK n \in Nat : n = Len(gs)
    OBVIOUS
  <1>3. f[n] \in Seq(Terms)
    BY <1>1, <1>2 DEF Laid
  <1> QED
    BY <1>1, <1>2, <1>3, FlattenIsLaid

\* The parameters of the terms, alone or with a bound behind them.
LEMMA TermParamsAlone ==
  ASSUME NEW gs \in Seq(Seq(Terms))
  PROVE  TermParams(gs) \o << >> = TermParams(gs)
PROOF
  <1>1. PICK terms \in Seq(Terms) : terms = FlattenSeq(gs)
    BY FlattenTerms
  <1>2. PICK n \in Nat : n = Len(terms)
    BY <1>1
  <1>3. PICK p : p = TermParams(gs)
    OBVIOUS
  <1>4. p = [i \in 1 .. n |-> terms[i].val]
    BY <1>1, <1>2, <1>3 DEF TermParams
  <1>5. PICK V : V = {p[i] : i \in 1 .. n}
    OBVIOUS
  <1>6. p \in [1 .. n -> V]
    BY <1>4, <1>5
  <1>7. p \in Seq(V)
    BY <1>6
  <1> QED
    BY <1>3, <1>7

\* The comparisons of an or of ands.
LEMMA AnyWhereSame ==
  ASSUME NEW gs \in Seq(Seq(Terms)), TermsOK(gs), NEW extra \in Seq(GeasValues),
         NEW ps, ps = bind_params(TermParams(gs) \o extra),
         NEW q, q.groups = gs, NEW s, s.where = store_sql_emit_any_where(gs)
  PROVE  SameWhere(q, s, ps)
PROOF
  <1>1. DOMAIN s.where = DOMAIN gs /\ \A g \in DOMAIN gs : DOMAIN s.where[g] = DOMAIN gs[g]
    BY DEF store_sql_emit_any_where
  <1>2. ASSUME NEW g \in DOMAIN gs, NEW i \in DOMAIN gs[g]
        PROVE  /\ gs[g][i].val \in GeasValues
               /\ TermOK(gs[g][i])
               /\ s.where[g][i].col = gs[g][i].col
               /\ s.where[g][i].cmp = gs[g][i].cmp
               /\ ps[s.where[g][i].ph] = bind_one(gs[g][i].val.ty, gs[g][i].val.v)
    <2>1. gs[g][i] \in Terms
      <3>1. gs[g] \in Seq(Terms)
        OBVIOUS
      <3> QED
        BY <3>1
    <2>2. gs[g][i].val \in GeasValues /\ TermOK(gs[g][i])
      BY <2>1 DEF Terms, TermsOK
    <2> QED
      BY <2>2, ParamsReach
  <1> QED
    BY <1>1, <1>2 DEF SameWhere

\* The comparison of an equality query and of a find.
LEMMA OneWhereSame ==
  ASSUME NEW col \in 1 .. NCols, NEW value \in GeasValues, value.ty = Cols[col],
         NEW ps, ps = bind_params(<<value>>),
         NEW q, q.groups = << <<[col |-> col, cmp |-> "EQ", val |-> value]>> >>,
         NEW s, s.where = One(col, "EQ")
  PROVE  SameWhere(q, s, ps)
PROOF
  <1>1. PICK t : t = [col |-> col, cmp |-> "EQ", val |-> value]
    OBVIOUS
  <1>2. DOMAIN q.groups = 1 .. 1 /\ DOMAIN q.groups[1] = 1 .. 1 /\ q.groups[1][1] = t
    BY <1>1
  <1>3. PICK w : w = [col |-> col, cmp |-> "EQ", ph |-> 1]
    OBVIOUS
  <1>4. DOMAIN s.where = 1 .. 1 /\ DOMAIN s.where[1] = 1 .. 1 /\ s.where[1][1] = w
    BY <1>3 DEF One
  <1>5. ps[1] = bind_one(value.ty, value.v)
    BY DEF bind_params
  <1>6. TermOK(t) /\ t.val \in GeasValues /\ w.col = t.col /\ w.cmp = t.cmp
        /\ ps[w.ph] = bind_one(t.val.ty, t.val.v)
    BY <1>1, <1>3, <1>5 DEF TermOK, Cmps
  <1> QED
    BY <1>2, <1>4, <1>6 DEF SameWhere

\* geas_store_select, and with it the conjunctive, ordered and paged lists.
LEMMA SelectFaithful ==
  ASSUME NEW gs \in Seq(Seq(Terms)), TermsOK(gs), NEW order \in 0 .. NCols, NEW desc,
         NEW limit \in Payloads("Int"), limit >= -1,
         NEW ps, ps = bind_params(TermParams(gs) \o
                        IF limit = -1 THEN << >> ELSE <<IntValue(limit)>>),
         NEW q, q = Request("list", gs, 0, order, desc, limit),
         NEW s, s = Stmt("rows", 0, store_sql_emit_any_where(gs), order, desc,
                         IF limit # -1 THEN Len(FlattenSeq(gs)) + 1 ELSE 0)
  PROVE  Faithful(q, s, ps)
PROOF
  <1>1. PICK extra : extra = IF limit = -1 THEN << >> ELSE <<IntValue(limit)>>
    OBVIOUS
  <1>2. extra \in Seq(GeasValues)
    <2>1. limit \in Int
      BY TopBitPositive DEF Payloads
    <2>2. IntValue(limit) \in GeasValues
      BY <2>1 DEF IntValue, GeasValues, Scalars
    <2> QED
      BY <1>1, <2>2
  <1>3. q.groups = gs /\ s.where = store_sql_emit_any_where(gs)
    BY DEF Request, Stmt
  <1>4. SameWhere(q, s, ps)
    BY <1>1, <1>2, <1>3, AnyWhereSame
  <1>5. \/ q.limit = -1 /\ s.lim = 0
        \/ q.limit \in Nat /\ s.lim \in Nat \ {0} /\ ps[s.lim] = q.limit
    <2>1. CASE limit = -1
      BY <2>1 DEF Request, Stmt
    <2>2. CASE limit # -1
      <3>1. limit \in Int
        BY TopBitPositive DEF Payloads
      <3>2. limit \in Nat
        BY <2>2, <3>1
      <3>3. ps = bind_params(TermParams(gs) \o << [ty |-> "Int", v |-> limit] >>)
        BY <2>2 DEF IntValue
      <3>4. ps[Len(FlattenSeq(gs)) + 1] = limit
        BY <3>1, <3>3, BoundReaches
      <3>5. Len(FlattenSeq(gs)) \in Nat
        <4>1. FlattenSeq(gs) \in Seq(Terms)
          BY FlattenTerms
        <4> QED
          BY <4>1
      <3>6. q.limit = limit /\ s.lim = Len(FlattenSeq(gs)) + 1
        BY <2>2 DEF Request, Stmt
      <3> QED
        BY <3>2, <3>4, <3>5, <3>6
    <2> QED
      BY <2>1, <2>2
  <1>6. q.op = "list" /\ s.what = "rows" /\ q.order = order /\ s.order = order
        /\ s.desc = q.desc
    BY DEF Request, Stmt
  <1> QED
    BY <1>4, <1>5, <1>6 DEF Faithful, SameResult

\* The counts, the sums, the means and the extremes.
LEMMA AggregateFaithful ==
  ASSUME NEW gs \in Seq(Seq(Terms)), TermsOK(gs), NEW op, NEW col,
         NEW ps, ps = bind_params(TermParams(gs)),
         NEW q, q = Request(op, gs, col, 0, FALSE, -1), NEW s,
         \/ op = "count" /\ s = store_sql_count_any(gs)
         \/ op = "sum" /\ Numeric(col) /\ s = store_sql_sum_any(col, gs)
         \/ op = "avg" /\ Numeric(col) /\ s = store_sql_avg_any(col, gs)
         \/ /\ op \in {"min", "max"} /\ col \in 1 .. NCols
            /\ s = store_sql_extreme_any(col, op = "max", gs)
  PROVE  Faithful(q, s, ps)
PROOF
  <1>1. q.groups = gs /\ q.op = op /\ q.col = col
    BY DEF Request
  <1>2. s.where = store_sql_emit_any_where(gs)
    BY DEF store_sql_count_any, store_sql_sum_any, store_sql_avg_any,
       store_sql_extreme_any, Stmt
  <1>3. ps = bind_params(TermParams(gs) \o << >>) /\ << >> \in Seq(GeasValues)
    BY TermParamsAlone
  <1>4. SameWhere(q, s, ps)
    BY <1>1, <1>2, <1>3, AnyWhereSame
  <1>5. SameResult(q, s, ps)
    <2>1. CASE op = "count"
      <3>1. s = store_sql_count_any(gs)
        BY <2>1
      <3>2. s.what = "count"
        BY <3>1 DEF store_sql_count_any, Stmt
      <3> QED
        BY <1>1, <2>1, <3>1, <3>2 DEF SameResult
    <2>2. CASE op = "sum"
      <3>1. s = store_sql_sum_any(col, gs) /\ Numeric(col)
        BY <2>2
      <3>2. s.what = "sum" /\ s.col = col
        BY <3>1 DEF store_sql_sum_any, Stmt
      <3> QED
        BY <1>1, <2>2, <3>1, <3>2 DEF SameResult
    <2>3. CASE op = "avg"
      <3>1. s = store_sql_avg_any(col, gs) /\ Numeric(col)
        BY <2>3
      <3>2. s.what = "avg" /\ s.col = col
        BY <3>1 DEF store_sql_avg_any, Stmt
      <3> QED
        BY <1>1, <2>3, <3>1, <3>2 DEF SameResult
    <2>4. CASE op \in {"min", "max"}
      <3>1. PICK d : d = (op = "max")
        OBVIOUS
      <3>2. d <=> op = "max"
        BY <3>1, Zenon
      <3>3. s = Stmt("col", col, store_sql_emit_any_where(gs), col, d, -1)
        BY <2>4, <3>1, Zenon DEF store_sql_extreme_any
      <3>4. s.what = "col" /\ s.col = col /\ s.order = col /\ s.lim = -1 /\ s.desc = d
        BY <3>3 DEF Stmt
      <3>5. s.desc <=> q.op = "max"
        BY <1>1, <3>2, <3>4
      <3> QED
        BY <1>1, <2>4, <3>4, <3>5 DEF SameResult
    <2> QED
      BY <2>1, <2>2, <2>3, <2>4
  <1> QED
    BY <1>4, <1>5 DEF Faithful

\* The lists without a bound.
LEMMA ListFaithful ==
  ASSUME NEW gs \in Seq(Seq(Terms)), TermsOK(gs), NEW order \in 0 .. NCols, NEW desc,
         NEW ps, ps = bind_params(TermParams(gs)),
         NEW q, q = Request("list", gs, 0, order, desc, -1),
         NEW s, s = Stmt("rows", 0, store_sql_emit_any_where(gs), order, desc, 0)
  PROVE  Faithful(q, s, ps)
PROOF
  <1>1. PICK limit : limit = -1
    OBVIOUS
  <1>2. limit \in Payloads("Int") /\ limit >= -1
    BY <1>1, TopBitPositive DEF Payloads
  <1>3. ps = bind_params(TermParams(gs) \o IF limit = -1 THEN << >> ELSE <<IntValue(limit)>>)
    BY <1>1, TermParamsAlone
  <1>4. s = Stmt("rows", 0, store_sql_emit_any_where(gs), order, desc,
                 IF limit # -1 THEN Len(FlattenSeq(gs)) + 1 ELSE 0)
    BY <1>1
  <1> QED
    BY <1>1, <1>2, <1>3, <1>4, SelectFaithful

\* geas_store_query_page: the bound has the number after the terms of its one group.
LEMMA PageFaithful ==
  ASSUME NEW terms \in Seq(Terms), TermsOK(<<terms>>), NEW col \in 1 .. NCols, NEW desc,
         NEW limit \in Payloads("Int"), limit >= 0,
         NEW ps, ps = bind_params(TermParams(<<terms>>) \o <<IntValue(limit)>>),
         NEW q, q = Request("list", <<terms>>, 0, col, desc, limit),
         NEW s, s = store_sql_select_page(terms, col, desc)
  PROVE  Faithful(q, s, ps)
PROOF
  <1>1. PICK gs : gs = <<terms>>
    OBVIOUS
  <1>2. gs \in Seq(Seq(Terms)) /\ TermsOK(gs)
    BY <1>1
  <1>3. limit \in Int /\ limit # -1 /\ limit >= -1 /\ col \in 0 .. NCols
    BY TopBitPositive DEF Payloads
  <1>4. ps = bind_params(TermParams(gs) \o IF limit = -1 THEN << >> ELSE <<IntValue(limit)>>)
    BY <1>1, <1>3
  <1>5. FlattenSeq(gs) = terms
    BY <1>1, FlattenOne
  <1>6. s = Stmt("rows", 0, store_sql_emit_any_where(gs), col, desc,
                 IF limit # -1 THEN Len(FlattenSeq(gs)) + 1 ELSE 0)
    BY <1>1, <1>3, <1>5 DEF store_sql_select_page, where_and
  <1> QED
    BY <1>1, <1>2, <1>3, <1>4, <1>6, SelectFaithful

\* An entry point that accepts its arguments asks what it was asked.
FaithfulAsk(c) ==
  \E ok, q, s, params :
    Ask(c, ok, q, s, params) /\ (ok => Faithful(q, s, bind_params(params)))

LEMMA PredsAreTerms ==
  /\ Preds \subseteq Seq(Seq(Terms))
  /\ \A terms \in Conjunctions : terms \in Seq(Terms) /\ <<terms>> \in Seq(Seq(Terms))
PROOF
  <1>1. Preds \subseteq Seq(Seq(Terms))
    BY ArgsAssumption DEF Terms
  <1>2. ASSUME NEW terms \in Conjunctions
        PROVE  terms \in Seq(Terms) /\ <<terms>> \in Seq(Seq(Terms))
    <2>1. PICK p \in Preds : Len(p) = 1 /\ terms = p[1]
      BY DEF Conjunctions
    <2>2. terms \in Seq(Terms)
      BY <1>1, <2>1
    <2> QED
      BY <2>2
  <1> QED
    BY <1>1, <1>2

LEMMA KeyedAsksFaithful ==
  ASSUME NEW c,
         \/ \E key \in Keys : geas_store_find(c, key)
         \/ \E col \in Columns, v \in Values : geas_store_query_eq(c, col, v)
  PROVE  FaithfulAsk(c)
PROOF
  <1>1. ASSUME NEW key \in Keys, geas_store_find(c, key) PROVE FaithfulAsk(c)
    <2>1. PICK q, s, params :
            /\ q = Request("find", << <<[col |-> 1, cmp |-> "EQ", val |-> key]>> >>,
                           0, 0, FALSE, -1)
            /\ s = store_sql_select /\ params = <<key>>
      OBVIOUS
    <2>2. Ask(c, TRUE, q, s, params)
      BY <1>1, <2>1, Zenon DEF geas_store_find
    <2>3. 1 \in 1 .. NCols /\ key \in GeasValues /\ key.ty = Cols[1]
      BY ColsAssumption, ArgsAssumption DEF NCols
    <2>4. SameWhere(q, s, bind_params(params))
      <3>1. q.groups = << <<[col |-> 1, cmp |-> "EQ", val |-> key]>> >>
        BY <2>1 DEF Request
      <3>2. s.where = One(1, "EQ")
        BY <2>1 DEF store_sql_select, Stmt
      <3> QED
        BY <2>1, <2>3, <3>1, <3>2, OneWhereSame
    <2>5. SameResult(q, s, bind_params(params))
      BY <2>1 DEF SameResult, Request, store_sql_select, Stmt
    <2> QED
      BY <2>2, <2>4, <2>5, Zenon DEF FaithfulAsk, Faithful
  <1>2. ASSUME NEW col \in Columns, NEW v \in Values, geas_store_query_eq(c, col, v)
        PROVE  FaithfulAsk(c)
    <2>1. PICK t, q, s, params :
            /\ t = [col |-> col, cmp |-> "EQ", val |-> v]
            /\ q = Request("list", << <<t>> >>, 0, 0, FALSE, -1)
            /\ s = store_sql_select_eq(col) /\ params = <<v>>
      OBVIOUS
    <2>2. Ask(c, TermOK(t), q, s, params)
      BY <1>2, <2>1, Zenon DEF geas_store_query_eq
    <2>3. ASSUME TermOK(t) PROVE Faithful(q, s, bind_params(params))
      <3>1. col \in 1 .. NCols /\ v \in GeasValues /\ v.ty = Cols[col]
        BY <2>1, <2>3, ArgsAssumption DEF TermOK
      <3>2. q.groups = << <<[col |-> col, cmp |-> "EQ", val |-> v]>> >>
        BY <2>1 DEF Request
      <3>3. s.where = One(col, "EQ")
        BY <2>1 DEF store_sql_select_eq, Stmt
      <3>4. SameWhere(q, s, bind_params(params))
        BY <2>1, <3>1, <3>2, <3>3, OneWhereSame
      <3>5. 0 \in 0 .. NCols
        BY ColsAssumption DEF NCols
      <3>6. SameResult(q, s, bind_params(params))
        BY <2>1, <3>5 DEF SameResult, Request, store_sql_select_eq, Stmt
      <3> QED
        BY <3>4, <3>6 DEF Faithful
    <2> QED
      BY <2>2, <2>3, Zenon DEF FaithfulAsk
  <1> QED
    BY <1>1, <1>2

LEMMA ListAsksFaithful ==
  ASSUME NEW c,
         \/ \E terms \in Conjunctions :
              \/ geas_store_query_where(c, terms)
              \/ \E col \in Columns, desc \in BOOLEAN :
                   \/ geas_store_query_ordered(c, terms, col, desc)
                   \/ \E n \in Limits : geas_store_query_page(c, terms, col, desc, n)
         \/ \E groups \in Preds, col \in Columns, desc \in BOOLEAN, n \in Limits :
              geas_store_select(c, groups, col, desc, n)
  PROVE  FaithfulAsk(c)
PROOF
  <1>1. NCols \in Nat /\ 0 \in 0 .. NCols /\ \A i \in 1 .. NCols : i \in 0 .. NCols
    BY ColsAssumption DEF NCols
  <1>2. \A n \in Limits : n \in Payloads("Int")
    BY ArgsAssumption
  <1>3. ASSUME NEW terms \in Conjunctions, geas_store_query_where(c, terms)
        PROVE  FaithfulAsk(c)
    <2>1. PICK q, s, params :
            /\ q = Request("list", <<terms>>, 0, 0, FALSE, -1)
            /\ s = store_sql_select_where(terms) /\ params = TermParams(<<terms>>)
      OBVIOUS
    <2>2. Ask(c, TermsOK(<<terms>>), q, s, params)
      BY <1>3, <2>1, Zenon DEF geas_store_query_where
    <2>3. s = Stmt("rows", 0, store_sql_emit_any_where(<<terms>>), 0, FALSE, 0)
      BY <2>1, Zenon DEF store_sql_select_where, where_and
    <2>4. TermsOK(<<terms>>) => Faithful(q, s, bind_params(params))
      BY <1>1, <2>1, <2>3, PredsAreTerms, ListFaithful
    <2> QED
      BY <2>2, <2>4, Zenon DEF FaithfulAsk
  <1>4. ASSUME NEW terms \in Conjunctions, NEW col \in Columns, NEW desc \in BOOLEAN,
               geas_store_query_ordered(c, terms, col, desc)
        PROVE  FaithfulAsk(c)
    <2>1. PICK q, s, params :
            /\ q = Request("list", <<terms>>, 0, col, desc, -1)
            /\ s = store_sql_select_ordered(terms, col, desc)
            /\ params = TermParams(<<terms>>)
      OBVIOUS
    <2>2. Ask(c, TermsOK(<<terms>>) /\ col \in 1 .. NCols, q, s, params)
      BY <1>4, <2>1, Zenon DEF geas_store_query_ordered
    <2>3. s = Stmt("rows", 0, store_sql_emit_any_where(<<terms>>), col, desc, 0)
      BY <2>1, Zenon DEF store_sql_select_ordered, where_and
    <2>4. TermsOK(<<terms>>) /\ col \in 1 .. NCols => Faithful(q, s, bind_params(params))
      BY <1>1, <2>1, <2>3, PredsAreTerms, ListFaithful
    <2> QED
      BY <2>2, <2>4, Zenon DEF FaithfulAsk
  <1>5. ASSUME NEW terms \in Conjunctions, NEW col \in Columns, NEW desc \in BOOLEAN,
               NEW n \in Limits, geas_store_query_page(c, terms, col, desc, n)
        PROVE  FaithfulAsk(c)
    <2>1. PICK q, s, params :
            /\ q = Request("list", <<terms>>, 0, col, desc, n)
            /\ s = store_sql_select_page(terms, col, desc)
            /\ params = TermParams(<<terms>>) \o <<IntValue(n)>>
      OBVIOUS
    <2>2. Ask(c, TermsOK(<<terms>>) /\ col \in 1 .. NCols /\ n >= 0, q, s, params)
      BY <1>5, <2>1, Zenon DEF geas_store_query_page
    <2>3. TermsOK(<<terms>>) /\ col \in 1 .. NCols /\ n >= 0
            => Faithful(q, s, bind_params(params))
      BY <1>2, <2>1, PredsAreTerms, PageFaithful
    <2> QED
      BY <2>2, <2>3, Zenon DEF FaithfulAsk
  <1>6. ASSUME NEW groups \in Preds, NEW col \in Columns, NEW desc \in BOOLEAN,
               NEW n \in Limits, geas_store_select(c, groups, col, desc, n)
        PROVE  FaithfulAsk(c)
    <2>1. PICK ok, q, s, params :
            /\ ok = (TermsOK(groups) /\ (col = 0 => n = -1) /\ col \in 0 .. NCols /\ n >= -1)
            /\ q = Request("list", groups, 0, col, desc, n)
            /\ s = store_sql_select_any(groups, col, desc, n # -1)
            /\ params = TermParams(groups) \o IF n = -1 THEN << >> ELSE <<IntValue(n)>>
      OBVIOUS
    <2>2. Ask(c, ok, q, s, params)
      BY <1>6, <2>1, Zenon DEF geas_store_select
    <2>3. s = Stmt("rows", 0, store_sql_emit_any_where(groups), col, desc,
                   IF n # -1 THEN Len(FlattenSeq(groups)) + 1 ELSE 0)
      BY <2>1, Zenon DEF store_sql_select_any
    <2>4. ok => TermsOK(groups) /\ col \in 0 .. NCols /\ n >= -1
      BY <2>1, Zenon
    <2>5. TermsOK(groups) /\ col \in 0 .. NCols /\ n >= -1
            => Faithful(q, s, bind_params(params))
      BY <1>2, <2>1, <2>3, PredsAreTerms, SelectFaithful
    <2> QED
      BY <2>2, <2>4, <2>5, Zenon DEF FaithfulAsk
  <1> QED
    BY <1>3, <1>4, <1>5, <1>6

LEMMA AggregateAsksFaithful ==
  ASSUME NEW c,
         \/ \E terms \in Conjunctions :
              \/ geas_store_count_where(c, terms)
              \/ \E col \in Columns : geas_store_sum_where(c, col, terms)
         \/ \E groups \in Preds :
              \/ geas_store_count_any(c, groups)
              \/ \E col \in Columns :
                   \/ geas_store_sum_any(c, col, groups)
                   \/ \E agg \in {"min", "max", "avg"} : geas_store_agg_any(c, agg, col, groups)
  PROVE  FaithfulAsk(c)
PROOF
  <1>1. ASSUME NEW gs \in Seq(Seq(Terms)),
               Ask(c, TermsOK(gs), Request("count", gs, 0, 0, FALSE, -1),
                   store_sql_count_any(gs), TermParams(gs))
        PROVE  FaithfulAsk(c)
    <2>1. PICK q, s : q = Request("count", gs, 0, 0, FALSE, -1) /\ s = store_sql_count_any(gs)
      OBVIOUS
    <2>2. TermsOK(gs) => Faithful(q, s, bind_params(TermParams(gs)))
      BY <2>1, AggregateFaithful
    <2>3. Ask(c, TermsOK(gs), q, s, TermParams(gs))
      BY <1>1, <2>1, Zenon
    <2> QED
      BY <2>2, <2>3, Zenon DEF FaithfulAsk
  <1>2. ASSUME NEW gs \in Seq(Seq(Terms)), NEW col,
               Ask(c, TermsOK(gs) /\ Numeric(col), Request("sum", gs, col, 0, FALSE, -1),
                   store_sql_sum_any(col, gs), TermParams(gs))
        PROVE  FaithfulAsk(c)
    <2>1. PICK q, s : q = Request("sum", gs, col, 0, FALSE, -1) /\ s = store_sql_sum_any(col, gs)
      OBVIOUS
    <2>2. TermsOK(gs) /\ Numeric(col) => Faithful(q, s, bind_params(TermParams(gs)))
      BY <2>1, AggregateFaithful
    <2>3. Ask(c, TermsOK(gs) /\ Numeric(col), q, s, TermParams(gs))
      BY <1>2, <2>1, Zenon
    <2> QED
      BY <2>2, <2>3, Zenon DEF FaithfulAsk
  <1>3. ASSUME NEW terms \in Conjunctions,
               \/ geas_store_count_where(c, terms)
               \/ \E col \in Columns : geas_store_sum_where(c, col, terms)
        PROVE  FaithfulAsk(c)
    <2>1. <<terms>> \in Seq(Seq(Terms))
      BY PredsAreTerms
    <2>2. CASE geas_store_count_where(c, terms)
      <3>1. store_sql_count_where(terms) = store_sql_count_any(<<terms>>)
        BY Zenon DEF store_sql_count_where, store_sql_count_any, where_and
      <3>2. Ask(c, TermsOK(<<terms>>), Request("count", <<terms>>, 0, 0, FALSE, -1),
                store_sql_count_any(<<terms>>), TermParams(<<terms>>))
        BY <2>2, <3>1, Zenon DEF geas_store_count_where
      <3> QED
        BY <1>1, <2>1, <3>2
    <2>3. ASSUME NEW col, geas_store_sum_where(c, col, terms) PROVE FaithfulAsk(c)
      <3>1. store_sql_sum_where(col, terms) = store_sql_sum_any(col, <<terms>>)
        BY Zenon DEF store_sql_sum_where, store_sql_sum_any, where_and
      <3>2. Ask(c, TermsOK(<<terms>>) /\ Numeric(col),
                Request("sum", <<terms>>, col, 0, FALSE, -1),
                store_sql_sum_any(col, <<terms>>), TermParams(<<terms>>))
        BY <2>3, <3>1, Zenon DEF geas_store_sum_where
      <3> QED
        BY <1>2, <2>1, <3>2
    <2> QED
      BY <1>3, <2>2, <2>3
  <1>4. ASSUME NEW gs \in Preds,
               \/ geas_store_count_any(c, gs)
               \/ \E col \in Columns : geas_store_sum_any(c, col, gs)
        PROVE  FaithfulAsk(c)
    <2>1. gs \in Seq(Seq(Terms))
      BY PredsAreTerms
    <2> QED
      BY <1>1, <1>2, <1>4, <2>1 DEF geas_store_count_any, geas_store_sum_any
  <1>5. ASSUME NEW gs \in Preds, NEW col \in Columns, NEW agg \in {"min", "max", "avg"},
               geas_store_agg_any(c, agg, col, gs)
        PROVE  FaithfulAsk(c)
    <2>1. gs \in Seq(Seq(Terms))
      BY PredsAreTerms
    <2>2. PICK q, s, params :
            /\ q = Request(agg, gs, col, 0, FALSE, -1)
            /\ s = IF agg = "avg" THEN store_sql_avg_any(col, gs)
                   ELSE store_sql_extreme_any(col, agg = "max", gs)
            /\ params = TermParams(gs)
      OBVIOUS
    <2>3. Ask(c, TermsOK(gs) /\ col \in 1 .. NCols /\ (agg = "avg" => Numeric(col)),
              q, s, params)
      BY <1>5, <2>2, Zenon DEF geas_store_agg_any
    <2>4. ASSUME TermsOK(gs), col \in 1 .. NCols, agg = "avg" => Numeric(col)
          PROVE  Faithful(q, s, bind_params(params))
      <3>1. CASE agg = "avg"
        <4>1. s = store_sql_avg_any(col, gs) /\ Numeric(col)
          BY <2>2, <2>4, <3>1
        <4> QED
          BY <2>1, <2>2, <2>4, <3>1, <4>1, AggregateFaithful
      <3>2. CASE agg # "avg"
        <4>1. s = store_sql_extreme_any(col, agg = "max", gs) /\ agg \in {"min", "max"}
          BY <2>2, <3>2
        <4>2. q = Request(agg, gs, col, 0, FALSE, -1)
              /\ bind_params(params) = bind_params(TermParams(gs))
          BY <2>2
        <4> QED
          BY <2>1, <2>4, <4>1, <4>2, AggregateFaithful, Zenon
      <3> QED
        BY <3>1, <3>2
    <2> QED
      BY <2>3, <2>4, Zenon DEF FaithfulAsk
  <1> QED
    BY <1>3, <1>4, <1>5

LEMMA QueryIsFaithful ==
  ASSUME NEW c \in Conns, Query(c)
  PROVE  QueryFinish(c) \/ FaithfulAsk(c)
PROOF
  BY KeyedAsksFaithful, ListAsksFaithful, AggregateAsksFaithful, Zenon DEF Query

-----------------------------------------------------------------------------
(* The induction: the tables hold cells, the calls are faithful, so every   *)
(* answer is exact.                                                         *)

LEMMA StoredParts ==
  /\ Stored({})
  /\ \A table : Stored(table) => \A T \in SUBSET table : Stored(T)
  /\ \A table : Stored(table) => \A r \in CellRows : Stored(table \cup {r})
PROOF
  <1>1. IsFiniteSet({})
    BY FS_EmptySet
  <1>2. \A table : IsFiniteSet(table) => \A T \in SUBSET table : IsFiniteSet(T)
    BY FS_Subset
  <1>3. \A table : IsFiniteSet(table) => \A r : IsFiniteSet(table \cup {r})
    BY FS_AddElement
  <1> QED
    BY <1>1, <1>2, <1>3 DEF Stored

\* store_row_params and bind_one: a record of the schema's width is stored as cells.
LEMMA RowsBind ==
  ASSUME NEW row \in Rows, RowOK(row)
  PROVE  bind_params(row) \in CellRows
PROOF
  <1>1. /\ row \in Seq(GeasValues) /\ Len(row) = NCols
        /\ \A i \in 1 .. NCols : row[i].ty = Cols[i]
    BY ArgsAssumption DEF RowOK
  <1>2. DOMAIN row = 1 .. NCols
    BY <1>1
  <1>3. bind_params(row) = [i \in 1 .. NCols |-> bind_one(row[i].ty, row[i].v)]
    BY <1>2 DEF bind_params
  <1>4. ASSUME NEW i \in 1 .. NCols
        PROVE  bind_one(row[i].ty, row[i].v) \in Cells(Cols[i])
               /\ bind_one(row[i].ty, row[i].v) \in Int
    <2>1. row[i] \in GeasValues
      BY <1>1
    <2>2. row[i].ty \in Scalars /\ row[i].v \in Payloads(row[i].ty) /\ row[i].ty = Cols[i]
      BY <1>1, <2>1 DEF GeasValues
    <2>3. bind_one(row[i].ty, row[i].v) \in Cells(Cols[i])
      BY <2>2, BindThenRead
    <2> QED
      BY <2>2, <2>3, ReadThenBind
  <1>5. bind_params(row) \in [1 .. NCols -> Int]
    BY <1>3, <1>4
  <1> QED
    BY <1>3, <1>4, <1>5 DEF CellRows

\* Every write leaves rows of cells.
LEMMA WriteIsStored ==
  ASSUME TablesHold, NEW c \in Conns, Write(c)
  PROVE  \E ok, conflict, after : Exec(c, ok, conflict, after) /\ (ok => Stored(after))
PROOF
  <1> DEFINE Goal == \E ok, conflict, after :
                       Exec(c, ok, conflict, after) /\ (ok => Stored(after))
  <1>1. Stored(View(c))
    BY DEF TablesHold, View
  <1>2. ASSUME NEW row \in Rows, geas_store_insert(c, row) PROVE Goal
    <2>1. PICK after : after = View(c) \cup {bind_params(row)}
      OBVIOUS
    <2>2. Exec(c, RowOK(row), Keyed(c, bind_params(row)[1]) # {}, after)
      BY <1>2, <2>1, Zenon DEF geas_store_insert
    <2>3. RowOK(row) => Stored(after)
      BY <1>1, <2>1, RowsBind, StoredParts
    <2> QED
      BY <2>2, <2>3, Zenon
  <1>3. ASSUME NEW key \in Keys, NEW row \in Rows, geas_store_update(c, key, row) PROVE Goal
    <2>1. PICK cells, old, after :
            /\ cells = bind_params(row)
            /\ old = Keyed(c, bind_one(key.ty, key.v))
            /\ after = IF old = {} THEN View(c) ELSE (View(c) \ old) \cup {cells}
      OBVIOUS
    <2>2. Exec(c, RowOK(row), old # {} /\ Keyed(c, cells[1]) \ old # {}, after)
      BY <1>3, <2>1, Zenon DEF geas_store_update
    <2>3. RowOK(row) => Stored(after)
      <3>1. Stored(View(c) \ old)
        BY <1>1, StoredParts
      <3> QED
        BY <1>1, <2>1, <3>1, RowsBind, StoredParts
    <2> QED
      BY <2>2, <2>3, Zenon
  <1>4. ASSUME NEW key \in Keys, geas_store_delete(c, key) PROVE Goal
    <2>1. PICK after : after = View(c) \ Keyed(c, bind_one(key.ty, key.v))
      OBVIOUS
    <2>2. Exec(c, TRUE, FALSE, after)
      BY <1>4, <2>1, Zenon DEF geas_store_delete
    <2>3. Stored(after)
      BY <1>1, <2>1, StoredParts
    <2> QED
      BY <2>2, <2>3, Zenon
  <1> HIDE DEF Goal
  <1>5. Goal
    BY <1>2, <1>3, <1>4 DEF Write
  <1> QED
    BY <1>5 DEF Goal

\* A step that answers a bare status says nothing of the values.
LEMMA BareIsExact ==
  ASSUME NEW st, ans' = Bare(st)
  PROVE  AnswersAreExact' /\ AggregatesAreSnapshots'
PROOF
  BY DEF AnswersAreExact, AggregatesAreSnapshots, Bare

LEMMA SignAnswers ==
  ASSUME AnswerInv, NEW c \in Conns, Open(c) \/ Reconcile(c) \/ CreateTable(c)
  PROVE  TablesHold' /\ CallsHold' /\ AnswersAreExact' /\ AggregatesAreSnapshots'
PROOF
  <1>1. ans' = Bare("OK") /\ db' = db /\ pend' = pend /\ call' = call
    BY DEF Open, Reconcile, CreateTable, lockVars
  <1> QED
    BY <1>1, BareIsExact DEF AnswerInv, TablesHold, CallsHold

LEMMA OtherAnswers ==
  ASSUME AnswerInv, NEW s \in Schemas, OtherCreates(s)
  PROVE  TablesHold' /\ CallsHold' /\ AnswersAreExact' /\ AggregatesAreSnapshots'
PROOF
  <1>1. ans' = Bare("OK") /\ db' = db /\ pend' = pend /\ call' = call
    BY DEF OtherCreates, lockVars
  <1> QED
    BY <1>1, BareIsExact DEF AnswerInv, TablesHold, CallsHold

LEMMA ExecAnswers ==
  ASSUME AnswerInv, NEW c \in Conns, Write(c)
  PROVE  TablesHold' /\ CallsHold' /\ AnswersAreExact' /\ AggregatesAreSnapshots'
PROOF
  <1>1. PICK ok, conflict, after : Exec(c, ok, conflict, after) /\ (ok => Stored(after))
    BY WriteIsStored DEF AnswerInv
  <1>2. call' = call /\ \E st : ans' = Bare(st)
    BY <1>1 DEF Exec, Answer, lockVars
  <1>3. Stored(View(c)) /\ Stored(db) /\ Stored(pend)
    BY DEF AnswerInv, TablesHold, View
  <1>4. TablesHold'
    <2>1. CASE \E st : Answer(st)
      BY <1>3, <2>1 DEF Answer, lockVars, TablesHold
    <2>2. CASE ~ \E st : Answer(st)
      <3>1. /\ ok
            /\ pend' = IF c \in txn THEN IF conflict THEN View(c) ELSE after ELSE pend
            /\ db' = IF c \in txn \/ conflict THEN db ELSE after
        BY <1>1, <2>2 DEF Exec
      <3> QED
        BY <1>1, <1>3, <3>1 DEF TablesHold
    <2> QED
      BY <2>1, <2>2
  <1> QED
    BY <1>2, <1>4, BareIsExact DEF AnswerInv, CallsHold

LEMMA EpisodeAnswers ==
  ASSUME AnswerInv, NEW c \in Conns,
         \/ geas_store_begin(c) \/ geas_store_commit(c)
         \/ geas_store_rollback(c) \/ geas_store_close(c)
  PROVE  TablesHold' /\ CallsHold' /\ AnswersAreExact' /\ AggregatesAreSnapshots'
PROOF
  <1>1. call' = call /\ \E st : ans' = Bare(st)
    BY DEF geas_store_begin, geas_store_commit, geas_store_rollback, geas_store_close
  <1>2. db' \in {db, pend} /\ pend' \in {{}, pend}
    BY DEF geas_store_begin, geas_store_commit, geas_store_rollback, geas_store_close,
       Release
  <1>3. TablesHold'
    BY <1>2, StoredParts DEF AnswerInv, TablesHold
  <1> QED
    BY <1>1, <1>3, BareIsExact DEF AnswerInv, CallsHold

\* The first walk: what it keeps is a table of cells, a faithful statement and the
\* length of one of its answers.
LEMMA AskAnswers ==
  ASSUME AnswerInv, NEW c \in Conns, FaithfulAsk(c)
  PROVE  TablesHold' /\ CallsHold' /\ AnswersAreExact' /\ AggregatesAreSnapshots'
PROOF
  <1>1. PICK ok, q, s, params :
          Ask(c, ok, q, s, params) /\ (ok => Faithful(q, s, bind_params(params)))
    BY DEF FaithfulAsk
  <1>2. db' = db /\ pend' = pend /\ \E st : ans' = Bare(st)
    BY <1>1 DEF Ask, Answer, lockVars
  <1>3. TablesHold'
    BY <1>2 DEF AnswerInv, TablesHold
  <1>4. CallsHold'
    <2>1. CASE call' = call
      BY <2>1 DEF AnswerInv, CallsHold
    <2>2. CASE call' # call
      <3>1. PICK ps : ps = bind_params(params)
        OBVIOUS
      <3>2. ok /\ \E a \in Answers(s, ps, View(c)) :
                    call' = [call EXCEPT ![c] =
                      [q |-> q, s |-> s, ps |-> ps, seen |-> View(c), n |-> Len(a)]]
        BY <1>1, <2>2, <3>1 DEF Ask, Answer
      <3>3. PICK a \in Answers(s, ps, View(c)) :
                    call' = [call EXCEPT ![c] =
                      [q |-> q, s |-> s, ps |-> ps, seen |-> View(c), n |-> Len(a)]]
        BY <3>2
      <3>4. PICK k : k = [q |-> q, s |-> s, ps |-> ps, seen |-> View(c), n |-> Len(a)]
        OBVIOUS
      <3>5. k.q = q /\ k.s = s /\ k.ps = ps /\ k.seen = View(c) /\ k.n = Len(a)
        BY <3>4
      <3>6. call'[c] = k /\ \A d \in Conns : d # c => call'[d] = call[d]
        BY <3>3, <3>4 DEF AnswerInv, WalkInv, StoreInv, TypeOK
      <3>7. Stored(k.seen)
        BY <3>5 DEF AnswerInv, TablesHold, View
      <3>8. Faithful(k.q, k.s, k.ps)
        BY <1>1, <3>1, <3>2, <3>5
      <3>9. \E x \in Answers(k.s, k.ps, k.seen) : k.n = Len(x)
        BY <3>5
      <3> QED
        BY <3>6, <3>7, <3>8, <3>9 DEF AnswerInv, CallsHold
    <2> QED
      BY <2>1, <2>2
  <1> QED
    BY <1>2, <1>3, <1>4, BareIsExact

\* The second walk, and what the caller makes of the two.
LEMMA FinishAnswers ==
  ASSUME AnswerInv, NEW c \in Conns, QueryFinish(c), EpisodeWalksAgree'
  PROVE  TablesHold' /\ CallsHold' /\ AnswersAreExact' /\ AggregatesAreSnapshots'
PROOF
  <1>1. PICK k : k = call[c]
    OBVIOUS
  <1>2. k # None /\ db' = db /\ pend' = pend /\ call' = [call EXCEPT ![c] = None]
    BY <1>1 DEF QueryFinish, lockVars
  <1>3. TablesHold' /\ CallsHold'
    <2>1. call'[c] = None /\ \A d \in Conns : d # c => call'[d] = call[d]
      BY <1>2 DEF AnswerInv, WalkInv, StoreInv, TypeOK
    <2> QED
      BY <1>2, <2>1 DEF AnswerInv, TablesHold, CallsHold
  <1>4. PICK t1, t2 : t1 = k.seen /\ t2 = View(c)
    OBVIOUS
  <1>5. Stored(t1) /\ Stored(t2) /\ Faithful(k.q, k.s, k.ps)
    BY <1>1, <1>2, <1>4 DEF AnswerInv, TablesHold, CallsHold, View
  <1>6. PICK a1 \in Answers(k.s, k.ps, t1) : k.n = Len(a1)
    BY <1>1, <1>2, <1>4 DEF AnswerInv, CallsHold
  <1>7. CASE \E st : ans' = Bare(st)
    BY <1>3, <1>7, BareIsExact
  <1>8. CASE ~ \E st : ans' = Bare(st)
    <2>1. PICK a2 \in Answers(k.s, k.ps, t2) :
            /\ ~Refuses(k.q.op, Backbone(k, a2))
            /\ ans' = [st |-> "OK", op |-> k.q.op, q |-> k.q,
                       val |-> Unwrap(k.q.op, Backbone(k, a2)),
                       seen |-> <<k.seen, View(c)>>, episode |-> c \in txn]
      BY <1>1, <1>4, <1>8, Zenon DEF QueryFinish
    <2>2. PICK w : w = Unwrap(k.q.op, Backbone(k, a2))
      OBVIOUS
    <2>3. /\ ans'.op = k.q.op /\ ans'.q = k.q /\ ans'.val = w
          /\ ans'.seen[1] = t1 /\ ans'.seen[2] = t2
      BY <1>4, <2>1, <2>2
    <2>4. ASSUME k.q.op \in {"count", "sum", "avg", "min", "max"}
          PROVE  Exact(k.q, w, t1) \/ Exact(k.q, w, t2)
      BY <1>5, <1>6, <2>1, <2>2, <2>4, FiguresExact, ExtremesExact
    <2>5. AggregatesAreSnapshots'
      BY <2>3, <2>4 DEF AggregatesAreSnapshots
    <2>6. ASSUME t1 = t2 PROVE Exact(k.q, w, t1)
      <3>1. CASE k.q.op \in {"list", "find"}
        BY <1>5, <1>6, <2>1, <2>2, <2>6, <3>1, RowsExact
      <3>2. CASE k.q.op \in {"count", "sum", "avg", "min", "max"}
        BY <2>4, <2>6, <3>2
      <3>3. k.q.op \in {"list", "find", "count", "sum", "avg", "min", "max"}
        BY <1>5 DEF Faithful, SameResult
      <3> QED
        BY <3>1, <3>2, <3>3
    <2>7. ans'.op # "none" /\ (ans'.episode \/ ans'.seen[1] = ans'.seen[2]) => t1 = t2
      BY <2>3 DEF EpisodeWalksAgree
    <2>8. AnswersAreExact'
      BY <2>3, <2>6, <2>7 DEF AnswersAreExact
    <2> QED
      BY <1>3, <2>5, <2>8
  <1> QED
    BY <1>7, <1>8

LEMMA NextAnswerInv == AnswerInv /\ [Next]_vars => AnswerInv'
PROOF
  <1> SUFFICES ASSUME AnswerInv, [Next]_vars PROVE AnswerInv'
    OBVIOUS
  <1> DEFINE Rest == TablesHold /\ CallsHold /\ AnswersAreExact /\ AggregatesAreSnapshots
  <1>1. WalkInv' /\ EpisodeWalksAgree'
    BY NextWalkInv DEF AnswerInv, WalkInv
  <1>2. CASE UNCHANGED vars
    BY <1>1, <1>2 DEF vars, lockVars, AnswerInv, TablesHold, CallsHold, AnswersAreExact,
       AggregatesAreSnapshots
  <1>3. ASSUME NEW c \in Conns, Query(c) PROVE Rest'
    BY <1>1, <1>3, QueryIsFaithful, AskAnswers, FinishAnswers
  <1>4. ASSUME NEW c \in Conns, Write(c) PROVE Rest'
    BY <1>4, ExecAnswers
  <1>5. Next => Rest'
    BY <1>3, <1>4, SignAnswers, OtherAnswers, EpisodeAnswers DEF Next
  <1> QED
    BY <1>1, <1>2, <1>5 DEF AnswerInv

LEMMA InitAnswerInv == Init => AnswerInv
PROOF
  BY InitStoreInv, StoredParts
     DEF Init, AnswerInv, WalkInv, WalkPinned, EpisodeWalksAgree, TablesHold, CallsHold,
         AnswersAreExact, AggregatesAreSnapshots, Bare

\* For every schema, width, predicate, table and number of instances: a query inside an
\* episode, or one nobody wrote under, answers exactly what was asked of the table.
THEOREM QueriesAreExact == Spec => []AnswersAreExact
PROOF
  <1>1. AnswerInv => AnswersAreExact
    BY DEF AnswerInv
  <1> QED
    BY <1>1, InitAnswerInv, NextAnswerInv, PTL DEF Spec

\* For the same generality, with writers between the two walks: a count, a sum, a mean
\* and an extreme are the answer over one table that existed during the call.
THEOREM AggregatesAreOfOneTable == Spec => []AggregatesAreSnapshots
PROOF
  <1>1. AnswerInv => AggregatesAreSnapshots
    BY DEF AnswerInv
  <1> QED
    BY <1>1, InitAnswerInv, NextAnswerInv, PTL DEF Spec

=============================================================================
