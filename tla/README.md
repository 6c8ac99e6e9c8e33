# A TLA+ verification of the Geas runtime and its gRPC bridge

Geas is a language of *contracts*: a contract declares vows (its inputs at signing),
pledges (operations that answer `Ok` or `Err`), subcontracts that group pledges, and a
requirements policy over the pledges' outcomes. A compiler turns `.geas` files into C
modules. The runtime (`runtime/src/runtime.c`) signs instances, runs pledges on a worker
pool, keeps the policy's state, opens SQLite transactions for transactional subcontracts,
and parks instances into a table and resumes them. Hosts (C, Python, a gRPC server, a
process supervisor) drive it through a C ABI.

These modules model the parts of the system where a test says least: the threads around
an instance, the policy over a whole life, the episodes over one database connection, the
Store surface with several connections on one database, the registry that modules and hosts
fill while others sign, the wire codec against damaged streams, and the replicas that hand
parked instances to each other. Paths below are relative to the repository.

## 1. Inventory

| Part | State | Operations | Hard behaviour |
|---|---|---|---|
| Policy (`runtime.c` 2160-2250, 2420-2592) | latch per pledge, contract state | `latch_pledge`, `eval_line`, `default_line`, `eval_policy`, `partial_scan` | empty groups, negated atoms, evaluation after every outcome |
| Instance (`runtime.c` 111-147, 2009-2155) | state, latches, Err payloads, block list, vows, open receipts | sign, fulfill, wait, break, host allocation | order of teardown, what survives a break, calls after Broken |
| Episodes (`runtime.c` 2600-2665, `store.c` 470-500) | `sub_txn` per subcontract, one connection | `txn_before`, `txn_after` | refused begin or commit, two episodes on one connection, loose pledges inside an episode |
| Park and resume (`runtime.c` 2900-3336) | one row of `geas_park` | park, resume | crash between commit and park, stale rows, what the row leaves out |
| Futures and pool (`runtime.c` 156-375, 556-602, 2673-2875) | queue, `qstop`, future list, `c->mu`, `f->mu`, `refcnt` | fulfill, wait, release, break, worker loop, shutdown | races of break, wait, worker and shutdown; lock order; who frees |
| Registry (`runtime.c` 380-840, 2009-2091, 2270-2335) | modules, descriptors, bindings, sorted iname table, instance table of 256 | load, register, freeze, bind, sign, shutdown | registrations refused half way, module loads that fail late, capacity, freeze races |
| Store driver and surface (`store.c`, `runtime.c` 840-2000) | one connection per instance, one database | open and reconcile, find, queries, aggregates, insert, update, delete, begin, commit, rollback | statements and their numbered placeholders, the type map, two walks of one query, locks between connections |
| Wire codec (`wire.c`) | none | frame write and read, value encode and decode | foreign, cut and damaged streams; encoder and decoder must accept the same values |
| Value layer (`runtime.c`) | blocks, lists, maps | constructors, deep copy, rendering | aliasing |
| Bridge server (`interop/grpc/bridge_server.py`) | instance table, session lock and `done` event per entry, `_resume_lock`, park store shared by replicas | Session, Resume, pledge rpcs, Break, `end_session`, shutdown drain | stream end against calls, replicas racing for a token, shutdown, death |
| Supervisor (`examples/supervisor/`) | running and starting runs, pid files, park rows | start, poll, restart, park all, resume | crash between consuming a row and recording the run |
| Requirements solver (`compiler/reqsolve.dusk`, `cgenreq.dusk`) | none | satisfiability and overlap of policy lines, serialisation | agreement with the runtime's evaluator |
| Rest of the compiler (`compiler/*.dusk`) | syntax trees, symbol tables | lex, parse, resolve, check, emit | sequential, over unbounded text |

A host thread calls the ABI; `geas_pledge_fulfill` links a future to the instance, queues
it, and a worker runs the pledge's thunk under the instance lock `c->mu`; the outcome is
latched, the policy recomputed and the episode resolved in the same section, and the future
published under `f->mu`. `geas_future_wait` takes the outcome. `geas_contract_break` takes
`c->mu`, forfeits every receipt nobody has taken, rolls back, closes the connection and
frees the heap. The bridge wraps one instance per gRPC stream and one lock per entry
around those calls, parks the instance when the stream ends and claims a parked row by
deleting it.

What makes each part correct is stated in section 4, next to the run that checks it; the
hazards behind those properties are listed in `PROJECT.json`, each with its source line.

## 2. Modules

| Module | Models |
|---|---|
| `Policy` | the latch, the atom and subcontract tests, the postfix evaluator with its stack bound and its malformed programs, the default lines, the priority order, the partial surface; operators over a descriptor and a latch array |
| `Instance` | one instance over its lives: every action is a whole critical section of `c->mu` |
| `FuturePool` | host threads, workers, queue, locks, reference counts, break and shutdown |
| `Receipts` | the abstract promise of a receipt; `FuturePool` implements it |
| `Bridge` | replicas, sessions, unary calls, the park store, the drain, death |
| `StoreSql` | the statement builders of the Store surface, the predicate checks and the type map, as operators over one schema; SQLite's answer to a bound statement (external) |
| `StoreOps` | instances with a connection each on one database: sign, queries, writes, transactions, break, over SQLite's locks |
| `Registry` | the runtime's tables, host threads and the dynamic linker |
| `Wire` | the frame header and the canonical encoding, and a message on its way |
| `MCInstance`, `MCFuturePool`, `MCBridge`, `MCStoreOps`, `MCRegistry`, `MCWire` | descriptors, rows, modules, values and symmetry for TLC |
| `Instance_proofs`, `FuturePool_proofs`, `Bridge_proofs`, `StoreSql_proofs`, `StoreOps_proofs`, `Registry_proofs`, `Wire_proofs` | the theorems |
| `SetInduction` | induction over sets of naturals and over finite sets, the loops it unfolds, and sequences laid one after the other, for `Registry_proofs`, `StoreSql_proofs` and `Wire_proofs` |

`Instance` extends `Policy` and `StoreOps` extends `StoreSql`. `FuturePool` and `Bridge` each
look at an instance from further away: `FuturePool` keeps whether it is Broken and whether its
heap stands, `Bridge` keeps how many fulfillments it holds and whether it was broken.
`Instance` takes one connection whose backend refuses freely; `StoreOps` says when it refuses,
with the other connections in the picture.

### Instance

The variables are the fields of `GeasContract` (`desc`, `state`, `latch` for
`pledge_state`, `err` for `pledge_err`, `owned`, `vows`, `txn` for `sub_txn`, `conn` for
`store`, `unwaited` for the futures nobody has waited on), the row of `geas_park`, and the
database: rows buffered in the open transaction and durable rows, each named by the run
that wrote it. The rest is history (`hist`, `life`, `explicit`, `dirty`, `stale`,
`commits`).

`Sign`, `FulfillRefused`, `FulfillGated`, `FulfillRun`, `Wait`, `Break`, `HostAlloc`,
`Park`, `Resume` are the ABI calls; `Crash` is the end of the process. `FulfillRun` is
`run_task` (and `fulfill_inline`) past the gate: thunk, latch, policy, `txn_after`, in that
order, with the outcome, the write and the commit's success chosen freely. A refused commit
therefore leaves the latch set, as in the source, and only the status `txn_after` returns
(`Delivered`) says so. SQLite is external: one transaction per
connection, a begin inside a transaction refused, an open transaction discarded when the
connection closes or the process dies.

### FuturePool

`mu` and `fmu` are the owners of the two locks. A section that blocks on nothing inside is
one step; `run_task` and `geas_contract_break`, which take `f->mu` while holding `c->mu`,
and `geas_future_wait`, which holds `f->mu` across the write back, are several. `pc` follows
each thread: a fulfill call is `FutureNew`, `Validate`, `Hold` (the count is raised to two),
`Enqueue`; a worker is `Pop`, `TaskLock`, `Thunk`, `TaskFinish`, `TaskUnlock`, `FutureUnref`;
a break is `BreakLock`, one `BreakForfeit` per receipt, `BreakFree`; a shutdown is
`ShutdownStop`, `ShutdownJoin`, `ShutdownFree`. The ABI asks hosts to start no call once
shutdown begins and not to free under a wait, and the model's hosts obey.

`Receipts` says the same without threads: a receipt is pending, then ok or err; it is taken
at most once; an instance is reclaimed only when each of its receipts was taken or is an
error. The refinement mapping is `R == INSTANCE Receipts WITH ...` in `FuturePool`.

### Bridge

One record of variables per session (`ph` is the position of its handler, `live` its entry
in the instance table, `cb` the callback, `ender` who popped the entry, `lock` the session
lock), one per server (`up`, `rlock`), one per token (`row`). `Session` is `SessionSign`,
`SessionInsert`, `AddCallback`, `Yield`, `WaitDone`, `HandlerPops`; `Resume` is `ResumeRead`
and `ResumeClaim` (or `ResumeClaimFails`) under `_resume_lock` and then the same path.
`end_session` is the pop (`CallbackPops` or `HandlerPops`) and `TearDown` under the session
lock. A unary call resolves the id, then makes its one runtime call under the lock; a body
takes time with the lock held. `Stop`, `Drain`, `DrainWakes`, `DrainBreaks` and `Stopped` are
the `finally` of `serve`. gRPC is external: it runs handlers, reports the end of a stream
and calls the registered callback; a callback is allowed to come late.

### StoreSql and StoreOps

A cell is a signed integer of `Width` bits, a row a tuple of cells, the table a set of rows.
A statement is a record: what is selected, the comparisons with the *number* of the placeholder
each is bound to, the order, and where its limit comes from. The builders `store_sql_*` produce
it, the entry points `geas_store_*` check their arguments and hand it to `Ask` with the
parameters in the order the code lays them out, so a value that reaches the wrong comparison is
visible. `bind_status` is what `bind_params` returns: it refuses a frame whose length is not the number
of the statement's placeholders, and a value that is no scalar. `bind_one` and `read_cell` are the type
map: a UInt is stored by its bit pattern.

`geas_store_query` walks its statement twice. `Ask` is everything up to the end of the first
walk, `QueryFinish` the second one and what the entry point returns; in autocommit another
connection may write in between. The backbone has the first walk's length, and a slot the second
walk does not reach is `Zeroed`. Whether a slot that is no record is refused (`min`, `max`) or
handed on (`find`, the lists) is each entry point's own decision, as in the source.

`Open`, `Reconcile` and `CreateTable` are the store side of a sign, one schema at a time, the
probe and the CREATE apart; `OtherCreates` is another program on the same file that puts a table of its
own shape under a schema's name meanwhile. SQLite is external, in its default rollback journal: `txn` are the
connections inside BEGIN, `shared` those that hold a shared lock, `writer` the one with the
reserved lock. A read may be refused while another connection's commit is pending; a write is
refused when another one writes or, in autocommit, when a transaction still reads; a commit is
refused while others read, and `txn_after` then rolls back. An integer SUM that leaves `Width`
bits fails; which partial sums are formed is up to SQLite.

### Registry

A mangled name is a number in the order of `strcmp`. `geas_register_contract` is one critical
section with the table changed in place: `iname_register` is the loop of `iname_insert` (binary
search included) over the positions of the entries, and rolls back by contract name; an allocation
may fail at every insert. The loops are recursive functions, which a proof can unfold. `geas_module_load` is `LoadCheck` (the frozen test), `dlopen`, one `LoadRegisters` per
contract of the module, `LoadPublishes`; `geas_contract_sign` is `SignResolve` and
`SignPublishes` or `SignFails`. The linker counts references, and `gone` remembers the entries
whose image was unmapped: a later read of one is undefined, so it either ends the process (`Dies`)
or behaves as before. Calls refused inside a single critical section change nothing and are
stutters.

### Wire

A cell stands for a byte or a u32, a u64 is two cells and a value's header two, which keeps the
proportion `count_plausible` depends on. A value is a node over values one level down: `Nodes(S)`
are the nodes a program can hold over elements in `S`, well formed for the encoder or not, `Trees[k]`
those of at most `k` levels, and `GeasValue` is `Trees[Levels]`. `encode_size` is the sizing pass with
all its validation and `encode_write` the write pass, recursive functions on `GeasValue`; `decode_rec`
is the decoder, a function of the depth and the position. `size_add`'s test against `SIZE_MAX` is not
modelled: such a size is far past the payload limit. The sender is the runtime's
encoder or a foreign peer that skips the validation; the stream arrives whole, cut at any cell,
with a cell behind it, or with one cell changed to any of `Noise`.

## 3. Hazards

The list in `PROJECT.json` falls into eight groups: races of break, wait, worker and
shutdown around one future (`FuturePool`); the episode against a backend that refuses
(`Instance`); the crash and the stale row (`Instance`, `Bridge`); policy edge cases
(`Policy`, through `Instance`); stream end, resume claim and drain (`Bridge`); queries,
reconciliation and episodes of several connections (`StoreOps`); registrations, loads and
freezes (`Registry`); and streams nobody vouches for (`Wire`). Those without a property say why.

## 4. Runs

Passing runs:

- `instance` (1.2 million states). Seven descriptors: a subcontract plus a loose pledge under
  the default, an empty subcontract, no pledge at all, a written policy with negated atoms, a
  ledger with a transactional subcontract and a loose pledge, two transactional subcontracts on
  one connection, and the ledger under a written policy; begin, commit and writes may be refused.
  Three thunk runs latch three pledges, or reach both pledges of an episode and one intruder, or
  run one pledge again after its latch; two lives are one resume; one receipt may be left unwaited,
  which keeps a park out. The default state is exact, does not regress and agrees with the partial
  surface; no policy breaks an unarmed contract; Err payloads are readable exactly while they
  should be; a row nothing ran past is the whole instance; Broken is terminal; episodes are all or
  nothing, own the transaction, commit only when every pledge of the group is Ok, and commit once
  as long as no resume reads an outdated row; and a subcontract that reads fulfilled, with every
  answer OK, has its rows in the database (`FulfilledIsDurable`), refused commits included.
- `future_pool` (250 thousand states, symmetry, deadlock checked). Two hosts, two workers, one
  instance, two futures, two breaks: the smallest pool where two workers hold two tasks of one
  instance, two threads wait on one receipt, and a break meets a thunk, a write back and a
  queued task. No freed heap or future is reached, the count equals the holders, outcomes
  stand, shutdown strands nothing, and `Receipts` is implemented.
- `future_pool_live` (290 thousand states). Waits, breaks and shutdown return. One worker.
- `bridge_claim` (325 thousand states, symmetry). Two replicas, three sessions on one token
  (first signer and two resumers), one unary caller. One holder or one row; a park keeps every
  answered fulfillment and no body runs on a torn down instance; an explicitly broken
  instance never comes back.
- `bridge_stop` (49 thousand states). One server that may stop or die anywhere, two
  sessions: a stream that is over leaves the table, a stopping server gets down.
- `store_surface` (184 thousand states, 26 million transitions; deadlock checked). Two
  instances, two schemas whose tables are absent, matching or different at the start or appear in
  another shape while a sign is between its probe and its CREATE, three
  columns (Int key, Int, UInt) of three bits, four records (one of the wrong width; two whose
  balances overflow a sum, two with the UInt's top bit), six predicates (one and two groups, one
  and two terms, one of the wrong type, one empty), orders, limits (none, one, and a negative one
  that is refused) and all the aggregates. Both
  write, one also queries, which is enough for every pair of a query and a foreign write. Every
  answer inside an episode, or over a table nobody changed, is the reference answer computed from
  the schema's values without cells, placeholders or statements; aggregates are the answer over
  one table that existed during the call even when the walks differ; a signed instance has
  reconciled tables, also when its CREATE lost to somebody else's. The reference is claimed for an order, a bound or an
  extreme over a UInt only where no top bit is set: SQLite orders the signed cells, and the
  smallest or the ordered values of a UInt column with larger ones are not the value's own.
- `registry` (675 thousand states, symmetry). Two threads, three modules (one of two contracts
  with an abstract pledge, an unmangled pledge and a vow without default; one whose symbol
  collides with the first's; one without pledges), a host descriptor that carries a module
  contract's name, one module slot, three descriptor slots, one binding slot, two instance slots:
  every table fills, and every registration can be refused at every insert. A sign after the freeze
  keeps the table it found (`FrozenTable`), so a load that tested the flag before the freeze and
  registers after it would be seen.
- `wire` (428 thousand states). About 700 values: every type, up to four levels, every kind of
  malformed value; numbers at both ends of the scaled width; kinds on both sides of the range;
  a depth bound of three and a payload bound some values pass. An accepted value comes back as it
  was from exactly the cells that were measured; whatever the decoder accepts, from whatever
  stream, is the one encoding of its value. The exception the run makes explicit: the encoder does
  not look for duplicate map keys, which the decoder refuses; maps built by the runtime have none.

The `Instance`, `Bridge`, `Registry` and `Wire` runs switch the deadlock check off because their
bounds (runs, lives, session ids, table slots, one message) let a behaviour end.

Runs that show a disagreement between a document and the code (each is a finding in
`PROJECT.json`, with the quotation):

- `doc_loose_autocommit`: a loose pledge that runs while an episode is open joins it, and a
  rollback discards rows already delivered Ok.
- `doc_resume_loses`: a replica reads a row; another claims it, works and parks again; the
  first one's DELETE then claims the newer row with the older copy.
- `doc_torn_row`: another connection deletes a row between the two walks of a query; the list
  keeps its length and a zeroed Unit stands where a record was, for `find` too.
- `doc_unmapped_desc`: a load that fails after its first registration closes the module and leaves
  the registered descriptors and iname entries pointing into it.

The models show further behaviours a reader of the documents may not expect; they have no run of
their own:

- `run_task` latches the pledge and evaluates the policy before `txn_after` commits
  (`runtime.c:2690`), so a refused commit rolls the rows back while the subcontract still reports
  fulfilled (docs/database.md:90 and :108 read otherwise). `FulfilledIsDurable` is the part that
  holds: the answer was then not OK.
- Park does not end the instance and resume does not consume the row (`runtime.c:3165`): an episode
  that commits after the last park is resumed as never opened and commits again.
  `CommittedOnceWhenFresh` is the part that holds.
- Two workers that popped two tasks of one instance race for its lock (`runtime.c:2675`), so
  fulfillments are not in queue order (docs/abi.md:406); `FuturePool` takes every order.
- A Break that resolved its id waits behind the `end_session` that parks (`bridge_server.py:394`):
  it is answered OK and the row stays resumable. `BrokenTokenIsDead` is about an instance a Break
  did end.
- Park recognises an explicit break by an empty block list (`runtime.c:3053`), which an allocation
  on the broken instance refills; only a contract without vows gets through.
- The shutdown drain breaks what is still in the table without parking it
  (`bridge_server.py:437`). A server that dies after its claiming DELETE takes the instance with it
  (`bridge_server.py:327`).

## 5. Fairness

`FuturePool`: weak fairness for each worker and for each host *inside* a call. Threads are
scheduled by the OS, thunks are assumed to return, and no host is obliged to call. A lock
that is free again and again could in theory be lost for ever to others; within the bounds
each thread's steps are finitely many, so weak fairness suffices.

`Bridge`: weak fairness for each handler, each unary call, gRPC's callback and the drain.
No client has to call, stay or leave, no server has to stop.

## 6. Proofs

Every safety property a passing run checks, invariant or action property, is a theorem here, and so
is the refinement of `Receipts`; liveness is left to TLC, see the end of this section. In each case
the inductive invariant was checked by TLC on the run's instance before it was proved.

Several of the proofs need induction over data. The library's induction theorems quantify over an
operator, which no installed prover can instantiate, so `SetInduction` states induction over a *set*:
of naturals (`Induct`, `InductUpTo`, from the least element of its complement) or of finite sets,
applied to `{n : P(n)}`. `LoopRuns` unfolds a recursive function that carries a value along a loop.

### Instance

`Instance_proofs` holds for every set of descriptors satisfying `DescOK`, every backend
behaviour and all bounds. Assumptions: `DescsAssumption` (descriptors are well formed:
indices and programs have their types; a contract with a schema has the vow that names its
dsn), `RefuseAssumption`, `BoundsAssumption`, `StackAssumption`.

- `TypeCorrect`: `Spec => []TypeOK`, one step per action; the thunk run is lemma `RunType`,
  over `LatchType` and `PolicyType`.
- `EpisodesOwnTransactions`, `ArmedBreaks`, `PayloadsReadable`, `CommitsOnce`: the four
  invariants `EpisodeOwnsTransaction`, `BreakNeedsABrokenPledge`, `ErrorsReadable`,
  `CommittedOnceWhenFresh`, from one inductive invariant `IInv`.
- `TerminalBroken`: the action property `BrokenIsTerminal`.

None of the four is inductive alone. A resume restores whatever the row holds, so `IInv` adds
`RowConsistent` (the row satisfies what the instance satisfied when it was written, and a row
nothing ran past has the instance's episode fates). A signature starts from clean fields, so it
adds `Fresh`. Between lives there is no connection, and an explicit break cannot be undone
within a life: `Ended`. And "at most one commit" becomes "no commit, or one and the episode is
done" (`CommittedIsDone`), which the gate `GateDone` then keeps. `RunEpisode` and `RunLatch`
treat the thunk run for the two halves of the invariant, `StepIInv` has one case per action.

The second half of the module is the default policy. `DefaultIsExact`, `SurfaceAgrees`,
`DefaultAdvances` and `CleanRows` come from `PolicyInv`: on top of `IInv`, an instance that stands
and was not broken explicitly is in exactly the state `eval_policy` gives for its latches, and so is
its row (`StateIsTheVerdict`); an explicit break in the row is one the instance remembers
(`RowExplicit`); a row nothing ran past is the instance (`CleanRowIsTheInstance`). The lemmas
before it say what the default lines compute from the latches, over the cardinalities the code
counts.

The last part proves `EpisodesAreAtomic` and `CommitsAreFulfilled`: what the database holds of
an episode is all of its rows or none, and a committed episode's pledges all stand fulfilled. The history of
runs has to be tied to the transaction first (`EpisodeInv`): every row is of a run that happened
(`RowsAreRuns`), the transaction buffers only this life's open episode (`BufferOfTheOpen`), and an
open episode has nothing in the database yet (`OpenIsBuffered`).

`FulfilledRowsStand` is `FulfilledIsDurable`, the converse: rows of a fulfilled subcontract that the
host was told were fine are there. Alone it says nothing about an episode still open when the last
pledge turns Ok. `DurableInv` adds to `EpisodeInv` that an episode not yet done has a pledge that is not Ok, in
the instance and in its row (`Unfulfilled`), since the run that completes the group also resolves the episode,
and that a live instance with a schema has its connection while one without a schema never wrote
(`Connected`), so every write of the group was inside the episode.

### FuturePool

`FuturePool_proofs` holds for any hosts, workers, instances and futures. Assumptions:
`NoneAssumption`, and `ThreadsAssumption`: hosts and workers are different threads and there is at
least one worker (a pool of which no thread started fails `geas_runtime_create`,
runtime.c:492-495); `NothingStranded` needs the latter, since a queue nobody empties strands
everything. The theorems are `PoolTypes`, `NoFreedHeap` (no thunk, write back or forfeit reaches a
reclaimed heap), `NoFreedFuture`, `CountIsExact`, `OneDelivery`, `NothingStranded` and the action
property `OutcomesStand`.

`HeapSafety` alone says nothing about the thread about to reach the heap, so `PoolInv` is about
places: what each program counter implies for the thread's future (`Places`, `Known`), which thread
owns a receipt (`Owners`), that the pool has a future once (`Pooled`), and who holds which of the two
locks (`Locked`). Then the argument of the code: a break that has passed a future left it settled,
which is done, not being written back, and taken or an error (`Breaking`); the `waited` flag is set
before the write back and stops a second one (`Delivered`); a heap goes only with its instance, and a
thunk's OK is published while it stands (`Heaped`); a future without an outcome is being made, queued or with a worker
(`Pending`), and a stopping pool's workers leave only an empty queue (`Closing`). The count is exact
because a future has at most one owner and one place in the pool (`Counted`).

The end of the module proves `PoolImplementsReceipts`, the specification `Receipts` under the mapping
of `FuturePool`: a future's outcome is read off `born`, `freed`, `done` and `status`, an instance is
reclaimed when its heap is gone. Each step of a thread that changes what the mapping reads is matched
with one step of `Receipts`; all others stutter (`QuietStutters`).

### Bridge

`Bridge_proofs` holds for any replicas, sessions, tokens and calls, with servers that stop and die.
`OneInstancePerToken` (`NeverBoth`), `ParkLosesNoWork`, `BrokenStaysDead` and `BridgeTypes` follow
from `BridgeInv`. A live entry is too narrow a notion of "having the instance": between the deletion
of a row and the insertion of the resumed entry, and between the pop and the tear down, the instance
is behind neither. `Claimant` counts these moments, and `Claimed` says that a token has at most one
claimant and none beside a row. `Phased` says what a handler's position implies for its session,
`Dead` that a dead token's claimant reads broken, `Called` that a call in its body holds the session
lock of an instance that stands, which is what keeps a park from missing its work.

### StoreOps

`StoreOps_proofs` holds for any number of connections and schemas and any rows, predicates,
columns and limits. For the first theorems what a statement answers does not enter. Their inductive
invariant `StoreInv` is `TypeOK`, `SignedMeansReconciled` and `ReconciledSoFar` (a sign that is at schema
*i* has found all the earlier tables matching, and no table that matches ever changes). `StoreTypeOK` (who holds which lock, and that only an open connection does) and
`Reconciled` follow. Assumptions: `NoneAssumption`, `SchemasAssumption`, `ReadersAssumption`,
`ColsAssumption`, `WidthAssumption`.

`EpisodeQueriesAreStill` is about the two walks of a query: inside an episode both met the same
table. `WalkInv` adds to `StoreInv` that a query under way in an episode holds the shared lock and
would see now what its first walk saw (`WalkPinned`). In autocommit this is false, which is the
finding of `doc_torn_row`.

`QueriesAreExact` is `AnswersAreExact`: a query inside an episode, or over a table nobody changed,
answers what the schema's values say, without cells, placeholders or statements.
`AggregatesAreOfOneTable` is `AggregatesAreSnapshots`: an aggregate is the answer over one table
that existed during the call, even when the walks differ. They rest on what the statements and the
type map compute, which `StoreSql_proofs` shows for every width, schema and predicate:

- the type map keeps a value in both directions (`BindThenRead`, `ReadThenBind`);
- the parameters the entry point lays out one group after the other meet the comparison they were
  written for, at the number the builder gave it (`FlattenIsLaid`, `TermsInPlace`, `ParamsReach`,
  `BoundReaches`): an induction over the groups;
- a frame so laid out is never refused: the statement's highest placeholder is the frame's length, with
  the bound of a page or without (theorem `FramesBind`);
- a sum over the rows is the sum over what the rows read back as, a bijective image
  (`TotalOfImage`, over `TotalUnfolds` and `TotalSplits`): an induction over cardinalities;
- what SQLite answers to a bound statement is the walk of the rows it selects (`AnswerIsWalk`).

In `StoreOps_proofs`, a request is `Faithful` when its statement selects, orders and limits what the
request says, and each entry point's request is (`QueryIsFaithful`, one lemma per builder). Then
the rows a statement hits are, read back, the rows the reference matches (`HitsAreMatching`), the
walks are the ordered list (`WalkIsList`), and counts, sums and extremes are those of the reference
(`FiguresExact`, `ExtremesExact`). `AnswerInv` adds to `WalkInv` and the two properties that every row in
the database, a transaction or a walk holds a cell of its column's type in every place, which is
what `bind_one` writes (`TablesHold`) and that a query under way is of a faithful request over such tables (`CallsHold`).
A count, a sum or a mean is exact over the second walk's table. A minimum or maximum is exact over
the first walk's table when that one had no rows, over the second's otherwise, unless the second
walk left the slot zeroed and `store_extreme` refused it.

Besides the assumptions above these two need `ArgsAssumption`: arguments are values of the
runtime, that is, integers of their tag's range (a Bool holds 0 or 1, a limit is an Int), and keys and
full rows have the schema's types, which the type checker guarantees at the call
(`compiler/tccall.dusk:938-953`). Predicates, columns and limits are arbitrary and may be refused.

### Registry

`Registry_proofs` holds for any modules, threads, functions and capacities. `RegInv` adds to
`TypeOK` that `instances` is a sequence and that every published instance, and every sign under
way, that began after the freeze (`late`) implies the runtime is frozen and carries exactly the
descriptor and functions the tables resolve to, and the very table of contracts the sign found
(`Resolved`); registrations and binds are closed by the freeze, each by its own test under the lock, so
this survives every step. `TablesWithinBounds` is the four capacities and the types
(a sign checks for room in the section that takes the slot, which is what makes it inductive);
`FreezeIsFinal` is `FrozenSignsAgree`. `LoadAccounting` is `LoadsAreAccounted`: `LoadInv` counts the
linker's references to a module as its slots in the table plus the loads past `dlopen` (`Counted`),
and says that a loaded module's contracts, and those a load in progress has come past, are registered
from an image that was never unmapped (`SlotsMapped`, `LoadersMapped`).

`Registry_proofs` also proves `InamesMirror`: the iname table is sorted, without duplicates, and holds
exactly the entries of the registered descriptors, also after a registration that ran out of room or
memory half way. By induction along its loops: the binary search of `iname_find` locates
a name or its place in any sorted table (`FindLocates`), an insert at that place keeps the order
(`InsertKeepsOrder`), the rollback takes out exactly one contract's entries (`RemoveTakesOne`), so a
registration is all or nothing (`RegisterIsAtomic`) and a successful one adds the entries of its descriptor
(`RegisterMirrors`). Assumption: `ModulesAssumption` (a module is a sequence of the descriptors).

### Wire

`Wire_proofs` holds for every cell width, depth limit, payload limit and set of values, and for any
noise on the stream. `EveryValueComesBack` is `RoundTrip`, `EncodingsAreCanonical` is `Canonical`.
The assumptions say what the widths mean in the code: a cell can hold every type code, and a payload
length fits the cell it is written to (`BaseAssumption`; a u32 there, `geas_wire.h`); noise is
cells (`NoiseAssumption`); values may nest at least as deep as the decoder goes (`LevelsAssumption`, so
that what it builds is a value); a character limit is a number (`CharAssumption`); and hosts pass
values, not arbitrary records (`ValuesAssumption`).

- Values: what holds of a node whenever it holds of its elements holds of every value
  (`TreeInduction`), and a function defined on a value from its results on the elements exists
  (`TreeRecursion`), both by induction over the level. So `encode_write`, `encode_size` and
  `KeysDistinct` are what their definitions say (`WriteUnfolds`, `SizeUnfolds`,
  `DistinctUnfolds`); `DecodeUnfolds` is the same for the decoder, over the depth left.
- The two passes of the encoder agree: a size that is not refused is the length of what is written
  (`SizeIsLength`).
- Round trip: where an accepted value's cells stand in a stream, the decoder at that place and depth
  returns it and stops at its end, or refuses it if it has a duplicate key (`DecodesBack`).
  `ValueBack` is one level, with one case per type, and `AllBack` the elements in turn.
- Canonicity: whatever the decoder accepts at a place and depth is a value the encoder accepts at
  that depth, and the cells consumed are what it writes (`DecodesOnly`). `ValueOnly` is one level,
  `NextTaken` and `AllTaken` the elements, `NodeEncoded` puts the sizes and cells together.
- Frames: `FrameCells` and `HeaderIs` do both directions for the header.

The inductive invariant `WireInv` ties these to the message: the stream is cells, an intact message
stands first in it with its frame, and `got` is the answer of the decoder to the stream as it is.
`RoundTrip` then follows from the second part (`WholeIsRead`), `Canonical` from the third
(`ReadIsOnly`).

### Only model-checked

- Liveness, outside the prover's reach: `WaitReturnsAtLast`, `BreakReturnsAtLast`,
  `ShutdownReturnsAtLast`, `OverStreamLeaves`, `StopsAtLast`.

## 7. Abstractions, and what is left

Abstractions worth knowing:

- An `Err` outcome is taken to carry its payload; a rollback is never refused.
- A pledge body does not re-enter its own instance or fulfill on others.
- The park row always has the current version and shape; corrupted rows, and two live copies
  of one row inside one process, are left out. Replicas are in `Bridge`.
- In `StoreOps` one of the tables carries rows, all columns hold integers, a mean is kept as the
  pair it divides, failed allocations are left out, and a table never changes its shape once it is
  there. Validation compares storage types only (Int, UInt, Bool, Byte and Char are all INTEGER),
  so `"match"` means the same storage, not the same tags. It does not compare the primary key flag
  either (`store.c:309-322`): a foreign table of the same columns without a PRIMARY KEY passes in the
  code and may then hold a key twice. The model's `"match"` tables have one, as `store_create_table`
  writes it; a keyless table is left out.
- SQLite's locks are those of the rollback journal. docs/database.md:130 leaves isolation to the
  backend; a database in WAL mode, where a commit does not wait for readers, is not modelled, and
  nothing is claimed about isolation as such.
- In `Registry` the contract's store side and the heap of an instance are left out (they are
  `StoreOps` and `Instance`), instances are never removed, as in the code, and a resume, which
  takes a slot the way a sign does, is not a separate action.
- In `Wire` allocation is left out: `count_plausible` is part of the decoder, but what it spares the
  heap is not observed. A cell stands for a byte or a u32; how many numbers
  it holds is a parameter.
- In `Bridge` every server has a park store, the width of the gRPC thread pool is unbounded, and
  each session's work is a counter bounded by `MaxWork`.

What could follow, in this order:

1. `Nesting`: re-entrant inline fulfillment (an episode resolved under a running body) and the
   lock order across instances. It splits `FulfillRun`, with every proof about it.
2. `Supervisor`: runs, pid files, park rows, crash budget, over the park store.
3. `ReqSolve`: the satisfiability check and the serialised default, against `Policy`.

Not modelled: the compiler's text to tree passes and back end (recursive passes over unbounded
text), the value layer's constructors and renderer (sequential, unit tested), the Python and gRPC
client bindings (marshalling), the skeleton host (a test program), SQLite, gRPC and the dynamic
linker themselves.
