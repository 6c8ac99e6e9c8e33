------------------------------ MODULE Instance ------------------------------
(***************************************************************************)
(* One contract instance of the runtime (runtime.c), as the critical       *)
(* sections of its recursive instance lock see it: sign, fulfillment of a  *)
(* pledge with its transactional episode, wait, explicit break, the host   *)
(* side allocation, park, the death of the process and resume.  Each       *)
(* action is one whole section under c->mu; how the pool's threads come to *)
(* run those sections is FuturePool's subject.                             *)
(*                                                                         *)
(* The database behind the instance is SQLite, external: a connection that *)
(* is closed, idle (autocommit) or inside a transaction, the rows written  *)
(* inside it, and the durable rows.  A row is named by the index, in hist, *)
(* of the pledge run that wrote it.                                        *)
(***************************************************************************)
EXTENDS Policy

CONSTANTS
  Descs,          \* the contract descriptors a host may sign
  StoreMayRefuse, \* whether the backend may refuse a begin, a commit or a write
  MaxRuns,        \* bound: thunk runs in one behaviour
  MaxUnwaited,    \* bound: receipts left unwaited at once
  MaxLives        \* bound: the first signature plus the resumes

ASSUME DescsAssumption == \A d \in Descs : DescOK(d)
ASSUME RefuseAssumption == StoreMayRefuse \in BOOLEAN
ASSUME BoundsAssumption == MaxRuns \in Nat /\ MaxUnwaited \in Nat /\ MaxLives \in Nat

VARIABLES
  desc,     \* c->desc
  state,    \* c->state; "Unsigned" while no instance exists
  latch,    \* c->pledge_state
  err,      \* c->pledge_err: "zero", or "heap" for a payload on the instance heap
  owned,    \* c->owned is not NULL: the block list has a block
  vows,     \* c->vow_vals is not NULL
  txn,      \* c->sub_txn
  conn,     \* c->store: "closed", "idle" or "txn"
  unwaited, \* futures on c->futures with waited = 0
  row,      \* the row of table geas_park, or NoRow
  buffer,   \* rows written in the open transaction
  durable,  \* rows the database keeps
  hist,     \* history of the thunk runs
  life,     \* how many times the instance was stood up
  explicit, \* history: geas_contract_break ended the instance; the row keeps it
  dirty,    \* history: a pledge ran since the row was last written or read
  stale,    \* history: a resume read a row older than the work it describes
  commits   \* history: commits of each subcontract's episode, over all lives

inst  == <<desc, state, latch, err, owned, vows, txn, conn, unwaited>>
store == <<row, buffer, durable>>
ghost == <<hist, life, explicit, dirty, stale, commits>>
vars  == <<inst, store, ghost>>

NoRow == [none |-> TRUE]

TxnStates == {"TXN_NONE", "TXN_OPEN", "TXN_DONE"}
Outcomes  == {"Ok", "Err", "Fault"}   \* GEAS_OK with Ok or Err, or another status

Runs == [life : Nat, p : Nat, outcome : Outcomes, wrote : BOOLEAN, ok : BOOLEAN]

-----------------------------------------------------------------------------
Init ==
  /\ desc \in Descs
  /\ state = "Unsigned"
  /\ latch = [i \in Pledges(desc) |-> PENDING]
  /\ err = [i \in Pledges(desc) |-> "zero"]
  /\ owned = FALSE
  /\ vows = FALSE
  /\ txn = [s \in Subs(desc) |-> "TXN_NONE"]
  /\ conn = "closed"
  /\ unwaited = 0
  /\ row = NoRow
  /\ buffer = {}
  /\ durable = {}
  /\ hist = << >>
  /\ life = 0
  /\ explicit = FALSE
  /\ dirty = FALSE
  /\ stale = FALSE
  /\ commits = [s \in Subs(desc) |-> 0]

\* Sign and resume allocate the dispatch table and the vows on the instance.
HeapAtSign == desc.npledges > 0 \/ desc.nvows > 0

(***************************************************************************)
(* geas_contract_sign: the store opens and reconciles last, so a refusal   *)
(* publishes nothing and the instance is simply not there (a stutter).     *)
(***************************************************************************)
Sign ==
  /\ state = "Unsigned"
  /\ life = 0
  /\ life < MaxLives
  /\ life' = life + 1
  /\ state' = "Signed"
  /\ owned' = HeapAtSign
  /\ vows' = (desc.nvows > 0)
  /\ conn' = IF desc.hasStore THEN "idle" ELSE "closed"
  /\ UNCHANGED <<desc, latch, err, txn, unwaited, store,
                 hist, explicit, dirty, stale, commits>>

-----------------------------------------------------------------------------
(* Fulfillment.                                                             *)

Tracked(i) == desc.sub[i] \in desc.txn /\ conn # "closed"   \* pledge_txn_sub

\* The receipt: a synchronous fulfillment waits at once, an asynchronous one
\* leaves its future unwaited.
Receipt ==
  unwaited' \in {unwaited} \cup (IF unwaited < MaxUnwaited THEN {unwaited + 1} ELSE {})

\* An instance that is not live answers GEAS_ERR_STATE through the receipt; a
\* live one answers a wrong name or a wrong argument count the same way.
FulfillRefused ==
  /\ state # "Unsigned"
  /\ Receipt
  /\ UNCHANGED <<desc, state, latch, err, owned, vows, txn, conn, store, ghost>>

\* Mutant: a resolved episode lets its pledges through.
GateNever(i) == FALSE

\* txn_before: an episode that is done refuses the pledge with GEAS_ERR_STATE.
GateDone(i) == Tracked(i) /\ txn[desc.sub[i]] = "TXN_DONE"

\* txn_before: geas_store_begin refuses, GEAS_ERR_STORE; SQLite always does so
\* inside another transaction of the same connection.
GateBegin(i) ==
  /\ Tracked(i)
  /\ txn[desc.sub[i]] = "TXN_NONE"
  /\ conn = "txn" \/ StoreMayRefuse

FulfillGated(i) ==
  /\ state \in LiveStates
  /\ GateDone(i) \/ GateBegin(i)
  /\ Receipt
  /\ owned' = TRUE      \* the frame was allocated before the gate
  /\ UNCHANGED <<desc, state, latch, err, vows, txn, conn, store, ghost>>

\* txn_before lets the pledge through, opening its episode when it has none.
Opens(i) == Tracked(i) /\ txn[desc.sub[i]] = "TXN_NONE"

\* Mutants: the state is not tested; a begin inside a transaction goes through.
MayRunAnyState(i) == state # "Unsigned" /\ ~GateDone(i) /\ (Opens(i) => conn = "idle")
MayRunNested(i) == state \in LiveStates /\ ~GateDone(i)

MayRun(i) ==
  /\ state \in LiveStates
  /\ ~GateDone(i)
  /\ Opens(i) => conn = "idle"

ConnInside(i) == IF Opens(i) THEN "txn" ELSE conn

\* What a write of the running thunk reaches: the open transaction of the
\* connection, whoever opened it, or the database itself in autocommit.
Buffered(i, n, wrote) ==
  IF wrote /\ ConnInside(i) = "txn" THEN buffer \cup {n} ELSE buffer
Written(i, n, wrote) ==
  IF wrote /\ ConnInside(i) = "idle" THEN durable \cup {n} ELSE durable

\* txn_after: what becomes of the episode of pledge i.
RollsBack(i, outcome) == Tracked(i) /\ outcome \in {"Err", "Fault"}
\* Mutant: the first Ok commits.
CompletesAtOnce(i, outcome, after) == Tracked(i) /\ outcome = "Ok"

Completes(i, outcome, after) ==
  /\ Tracked(i)
  /\ outcome = "Ok"
  /\ sub_all(desc, after, desc.sub[i], FULFILLED)

\* Mutant: the status of the commit is dropped.
DeliveredAnyway(outcome, commitOk) == outcome # "Fault"

\* What txn_after returns to deliver: GEAS_OK unless the thunk or the commit failed.
Delivered(outcome, commitOk) == outcome # "Fault" /\ commitOk

(***************************************************************************)
(* run_task past the gate, and fulfill_inline: the thunk runs with some    *)
(* outcome, the latch and the policy follow an GEAS_OK, then txn_after     *)
(* resolves the episode.  A commit the backend refuses is rolled back and  *)
(* delivered as GEAS_ERR_STORE, after the latch.                           *)
(***************************************************************************)
FulfillRun(i, outcome, wrote, commitOk) ==
  LET n     == Len(hist) + 1
      after == IF outcome = "Fault" THEN latch ELSE latch_pledge(latch, i, outcome)
      buf   == Buffered(i, n, wrote)
      dur   == Written(i, n, wrote)
      done  == Completes(i, outcome, after)
      ends  == RollsBack(i, outcome) \/ done
  IN
  /\ MayRun(i)
  /\ n <= MaxRuns
  /\ wrote => conn # "closed"
  /\ ~commitOk => done /\ StoreMayRefuse
  /\ Receipt
  /\ owned' = TRUE
  /\ latch' = after
  /\ err' = IF outcome = "Err" /\ latch[i] = PENDING
            THEN [err EXCEPT ![i] = "heap"] ELSE err
  /\ state' = IF outcome = "Fault" THEN state ELSE eval_policy(desc, after, state)
  /\ txn' = IF Tracked(i)
            THEN [txn EXCEPT ![desc.sub[i]] = IF ends THEN "TXN_DONE" ELSE "TXN_OPEN"]
            ELSE txn
  /\ conn' = IF ends THEN "idle" ELSE ConnInside(i)
  /\ buffer' = IF ends THEN {} ELSE buf
  /\ durable' = IF done /\ commitOk THEN dur \cup buf ELSE dur
  /\ commits' = IF done /\ commitOk
                THEN [commits EXCEPT ![desc.sub[i]] = @ + 1] ELSE commits
  /\ hist' = Append(hist, [life |-> life, p |-> i, outcome |-> outcome,
                           wrote |-> wrote, ok |-> Delivered(outcome, commitOk)])
  /\ dirty' = TRUE
  /\ UNCHANGED <<desc, vows, row, life, explicit, stale>>

\* Mutant: a receipt is delivered a second time.
WaitAgain ==
  /\ unwaited' = unwaited - 1
  /\ UNCHANGED <<desc, state, latch, err, owned, vows, txn, conn, store, ghost>>

\* geas_future_wait: one receipt is delivered, or forfeited if a break won.
Wait ==
  /\ unwaited > 0
  /\ unwaited' = unwaited - 1
  /\ UNCHANGED <<desc, state, latch, err, owned, vows, txn, conn, store, ghost>>

-----------------------------------------------------------------------------
\* Mutant: the payloads of the broken pledges stay.
PayloadsKept == err

\* The memset of c->pledge_err.
PayloadsZeroed == [i \in Pledges(desc) |-> "zero"]

(***************************************************************************)
(* geas_contract_break: payloads zeroed, transaction rolled back,          *)
(* connection closed, heap freed, in that order under one lock; latches    *)
(* and sub_txn survive.  It refuses only an unsigned instance.             *)
(***************************************************************************)
Break ==
  /\ state # "Unsigned"
  /\ err' = PayloadsZeroed
  /\ buffer' = {}
  /\ conn' = "closed"
  /\ owned' = FALSE
  /\ vows' = FALSE
  /\ state' = "Broken"
  /\ explicit' = TRUE
  /\ UNCHANGED <<desc, latch, txn, unwaited, row, durable,
                 hist, life, dirty, stale, commits>>

\* geas_bytes from a host thread, geas_partial_value(c, c, out) among its
\* callers: a block joins the list, whatever the state.
HostAlloc ==
  /\ state # "Unsigned"
  /\ owned' = TRUE
  /\ UNCHANGED <<desc, state, latch, err, vows, txn, conn, unwaited, store, ghost>>

-----------------------------------------------------------------------------
(* Parking.                                                                 *)

ParkAccepts ==
  /\ state # "Unsigned"
  /\ desc.npledges > 0 => owned
  /\ unwaited = 0
  /\ \A s \in Subs(desc) : txn[s] # "TXN_OPEN"
  /\ desc.nvows > 0 => vows      \* encoding absent vows is GEAS_ERR_TYPE

\* Mutant: the Err payloads are not written.
ParkRowNoErrs ==
  [state |-> state, latch |-> latch, err |-> [i \in Pledges(desc) |-> "zero"],
   txn |-> txn, explicit |-> explicit]

\* The ten columns, less the ones that never change (explicit is history).
ParkRow ==
  [state |-> state, latch |-> latch, err |-> err, txn |-> txn, explicit |-> explicit]

\* geas_instance_park: one INSERT OR REPLACE; the instance stays live.
Park ==
  /\ ParkAccepts
  /\ row' = ParkRow
  /\ dirty' = FALSE
  /\ UNCHANGED <<inst, buffer, durable, hist, life, explicit, stale, commits>>

\* The process dies or shuts the runtime down: everything but the database goes,
\* and SQLite discards the transaction that was open.
Crash ==
  /\ state # "Unsigned"
  /\ state' = "Unsigned"
  /\ owned' = FALSE
  /\ vows' = FALSE
  /\ err' = [i \in Pledges(desc) |-> "zero"]
  /\ conn' = "closed"
  /\ buffer' = {}
  /\ unwaited' = 0
  /\ UNCHANGED <<desc, latch, txn, row, durable,
                 hist, life, explicit, dirty, stale, commits>>

\* Mutant: the fates of the episodes are not replayed.
ForgottenTxn == [s \in Subs(desc) |-> "TXN_NONE"]

\* The subtxn blob of the row, slot by slot.
ResumedTxn == row.txn

\* geas_instance_resume: the row is read, never deleted, and every recorded
\* field lands on the new instance; an open episode in the row is corruption.
Resume ==
  /\ state = "Unsigned"
  /\ row # NoRow
  /\ life < MaxLives
  /\ \A s \in Subs(desc) : row.txn[s] # "TXN_OPEN"
  /\ life' = life + 1
  /\ state' = row.state
  /\ latch' = row.latch
  /\ err' = row.err
  /\ txn' = ResumedTxn
  /\ owned' = HeapAtSign
  /\ vows' = (desc.nvows > 0)
  /\ conn' = IF desc.hasStore THEN "idle" ELSE "closed"
  /\ explicit' = row.explicit
  /\ stale' = (stale \/ dirty)
  /\ dirty' = FALSE
  /\ UNCHANGED <<desc, unwaited, store, hist, commits>>

-----------------------------------------------------------------------------
Fulfill(i) ==
  \/ FulfillGated(i)
  \/ \E outcome \in Outcomes, wrote, commitOk \in BOOLEAN :
       FulfillRun(i, outcome, wrote, commitOk)

Next ==
  \/ Sign
  \/ FulfillRefused
  \/ \E i \in Pledges(desc) : Fulfill(i)
  \/ Wait
  \/ Break
  \/ HostAlloc
  \/ Park
  \/ Crash
  \/ Resume

Spec == Init /\ [][Next]_vars

-----------------------------------------------------------------------------
(* Properties.                                                              *)

\* Type invariant of the instance's fields, its park row and its database.
TypeOK ==
  /\ desc \in Descs
  /\ state \in ContractStates \cup {"Unsigned"}
  /\ latch \in [Pledges(desc) -> Latches]
  /\ err \in [Pledges(desc) -> {"zero", "heap"}]
  /\ owned \in BOOLEAN
  /\ vows \in BOOLEAN
  /\ txn \in [Subs(desc) -> TxnStates]
  /\ conn \in {"closed", "idle", "txn"}
  /\ unwaited \in Nat
  /\ row = NoRow \/ row \in [state : ContractStates,
                             latch : [Pledges(desc) -> Latches],
                             err : [Pledges(desc) -> {"zero", "heap"}],
                             txn : [Subs(desc) -> TxnStates],
                             explicit : BOOLEAN]
  /\ hist \in Seq(Runs)
  /\ buffer \in SUBSET Nat
  /\ durable \in SUBSET Nat
  /\ life \in Nat
  /\ explicit \in BOOLEAN
  /\ dirty \in BOOLEAN
  /\ stale \in BOOLEAN
  /\ commits \in [Subs(desc) -> Nat]

\* An instance that stands in this life, whatever its state.
Alive == state # "Unsigned"

\* The rows that life l of the contract wrote inside the episode of s.
EpisodeRows(l, s) ==
  {n \in DOMAIN hist : /\ hist[n].wrote
                       /\ hist[n].life = l
                       /\ desc.sub[hist[n].p] = s}

(***************************************************************************)
(* Broken is terminal: until the process itself goes, no later call moves  *)
(* the state, a latch or the database, and no thunk runs (run_task and     *)
(* fulfill_inline test the state before they do anything).                 *)
(***************************************************************************)
BrokenIsTerminal ==
  [][state = "Broken" /\ state' # "Unsigned" =>
       /\ state' = "Broken"
       /\ latch' = latch
       /\ hist' = hist
       /\ durable' = durable]_vars

(***************************************************************************)
(* The arming rule of eval_policy: a contract nobody broke explicitly is   *)
(* Broken only after some pledge latched broken, whatever the break line   *)
(* says of the pledges that are still pending, and also after a resume.    *)
(***************************************************************************)
BreakNeedsABrokenPledge ==
  state = "Broken" => explicit \/ \E i \in Pledges(desc) : latch[i] = BROKEN

(***************************************************************************)
(* The structural default, read without the loops: Fulfilled exactly when  *)
(* every pledge is and no subcontract is empty, Broken exactly when every  *)
(* pledge is broken, Partial exactly when a whole subcontract landed.      *)
(***************************************************************************)
Uniform(want) ==
  /\ desc.npledges > 0
  /\ \A i \in Pledges(desc) : latch[i] = want
  /\ \A s \in Subs(desc) : \E i \in Pledges(desc) : desc.sub[i] = s
DefaultStateIsExact ==
  Alive /\ ~explicit /\ ~has_trees(desc) =>
    /\ state = "Fulfilled" <=> Uniform(FULFILLED)
    /\ state = "Broken" <=> Uniform(BROKEN)
    /\ state = "Partial" <=>
         /\ ~Uniform(FULFILLED)
         /\ \E s \in Subs(desc) :
              /\ \E i \in Pledges(desc) : desc.sub[i] = s
              /\ \A i \in Pledges(desc) : desc.sub[i] = s => latch[i] = FULFILLED

(***************************************************************************)
(* Under the default policy the state never regresses: Fulfilled stays,    *)
(* and Partial only becomes Fulfilled, until a break or the process's end; *)
(* later calls of a latched pledge run but do not move it (latch_pledge).  *)
(***************************************************************************)
DefaultNeverRegresses ==
  [][~has_trees(desc) /\ Alive /\ state' # "Unsigned" /\ ~explicit' =>
       /\ state = "Fulfilled" => state' = "Fulfilled"
       /\ state = "Partial" => state' \in {"Partial", "Fulfilled"}]_vars

(***************************************************************************)
(* The partial surface agrees with the state it is reported beside: a      *)
(* Fulfilled default contract lists nothing pending, broken or in error, a *)
(* Broken one lists every pledge's error and nothing else.                 *)
(***************************************************************************)
PartialSurfaceAgrees ==
  Alive /\ ~explicit /\ ~has_trees(desc) =>
    /\ state = "Fulfilled" =>
         /\ partial_scan(desc, latch, PENDING) = {}
         /\ partial_scan(desc, latch, BROKEN) = {}
         /\ geas_partial_nerrors(desc, latch) = 0
    /\ state = "Broken" =>
         /\ partial_scan(desc, latch, PENDING) = {}
         /\ partial_scan(desc, latch, FULFILLED) = {}
         /\ geas_partial_nerrors(desc, latch) = desc.npledges

(***************************************************************************)
(* geas_partial_error never hands out a payload on a freed heap, and an    *)
(* instance no explicit break ended still holds the payload of every       *)
(* broken pledge, through an automatic break, a park and a resume.         *)
(***************************************************************************)
ErrorsReadable ==
  Alive => \A i \in Pledges(desc) :
             /\ err[i] = "heap" => owned
             /\ err[i] = "heap" <=> latch[i] = BROKEN /\ ~explicit

(***************************************************************************)
(* The connection is inside a transaction exactly when one subcontract's   *)
(* episode is open, never two (txn_before and txn_after against SQLite's   *)
(* single transaction), and nothing is buffered outside one.               *)
(***************************************************************************)
EpisodeOwnsTransaction ==
  /\ conn = "txn" => \E s \in Subs(desc) : txn[s] = "TXN_OPEN"
  /\ conn = "idle" => \A s \in Subs(desc) : txn[s] # "TXN_OPEN"
  /\ \A s, t \in Subs(desc) : txn[s] = "TXN_OPEN" /\ txn[t] = "TXN_OPEN" => s = t
  /\ conn # "txn" => buffer = {}

(***************************************************************************)
(* All or nothing: of the rows one life of the contract wrote inside one   *)
(* episode, the database keeps all or none, through refused writes,        *)
(* refused commits, breaks and crashes.                                    *)
(***************************************************************************)
EpisodeAtomic ==
  \A l \in 1 .. life, s \in desc.txn :
    \/ EpisodeRows(l, s) \subseteq durable
    \/ EpisodeRows(l, s) \cap durable = {}

(***************************************************************************)
(* An episode that reached the database belongs to a subcontract whose     *)
(* every pledge latched Ok, and it is closed (txn_after's completion test).*)
(***************************************************************************)
CommitMeansFulfilled ==
  Alive => \A s \in desc.txn :
             EpisodeRows(life, s) \cap durable # {} =>
               sub_all(desc, latch, s, FULFILLED) /\ txn[s] = "TXN_DONE"

(***************************************************************************)
(* A host whose every fulfillment in the subcontract was answered GEAS_OK  *)
(* and that reads it as fulfilled has all its rows in the database.  The   *)
(* latch and the state move before the commit (run_task, then txn_after),  *)
(* so after a refused one only that answer tells the host that the rows of *)
(* a fulfilled subcontract are gone.                                       *)
(***************************************************************************)
FulfilledIsDurable ==
  Alive => \A s \in desc.txn :
    /\ sub_all(desc, latch, s, FULFILLED)
    /\ \A n \in DOMAIN hist : hist[n].life = life /\ desc.sub[hist[n].p] = s => hist[n].ok
    => EpisodeRows(life, s) \subseteq durable

(***************************************************************************)
(* A row no pledge ran past is the instance: state, latches, payloads and  *)
(* episode fates all agree, so that a crash and a resume lose nothing.     *)
(***************************************************************************)
CleanRowIsTheInstance ==
  row # NoRow /\ ~dirty /\ row.explicit = explicit =>
    /\ row.latch = latch
    /\ row.txn = txn
    /\ Alive => row.state = state /\ row.err = err

(***************************************************************************)
(* As long as every resume reads a row no later run outdated, an episode   *)
(* commits at most once over all the lives of the contract (TXN_DONE is    *)
(* parked and resumed as done).                                            *)
(***************************************************************************)
CommittedOnceWhenFresh ==
  ~stale => \A s \in Subs(desc) : commits[s] <= 1

-----------------------------------------------------------------------------
(* What the documentation says and the code does not keep.                  *)

\* docs/database.md:96: a loose pledge runs in autocommit, so whatever becomes of
\* an episode, the rows of a delivered loose run are in the database after it.
LooseRowsAreDurable ==
  conn # "txn" => \A n \in DOMAIN hist :
    /\ pledge_is_loose(desc, hist[n].p)
    /\ hist[n].wrote /\ hist[n].ok
    => n \in durable

=============================================================================
