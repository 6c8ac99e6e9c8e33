----------------------------- MODULE FuturePool -----------------------------
(***************************************************************************)
(* The threading of the runtime (runtime.c): host threads that fulfill,    *)
(* wait, break and shut down, pool workers that drain the one queue, the   *)
(* recursive instance lock c->mu, the future lock f->mu and the reference  *)
(* count that decides who frees a future.                                  *)
(*                                                                         *)
(* A critical section of the queue lock, the future lock or the instance   *)
(* lock that blocks on nothing inside is one step.  The two that do block  *)
(* inside are kept open: run_task and geas_contract_break hold c->mu while *)
(* they take f->mu, and geas_future_wait holds f->mu while a write back    *)
(* runs.  An instance is abstracted to whether it is Broken and whether    *)
(* its heap is still there; what a thunk computes is OK or ERR.            *)
(***************************************************************************)
EXTENDS Integers, Sequences

CONSTANTS
  Hosts,     \* threads of the host program
  Workers,   \* threads of the pool
  Insts,     \* signed contract instances
  Futures,   \* the futures calloc may hand out, each at most once
  None,      \* no thread, no future
  MaxBreaks  \* bound: calls of geas_contract_break in one behaviour

ASSUME ThreadsAssumption == Hosts \cap Workers = {} /\ Workers # {}
ASSUME NoneAssumption == None \notin Hosts \cup Workers \cup Insts \cup Futures
ASSUME BreaksAssumption == MaxBreaks \in Nat

Threads == Hosts \cup Workers

VARIABLES
  broken,   \* c->state = GEAS_BROKEN
  heap,     \* the instance heap is allocated
  mu,       \* owner of c->mu
  born,     \* the future struct is allocated
  freed,    \* the future struct was freed
  inst,     \* f->c
  linked,   \* f is on its instance's futures list
  done,     \* f->done
  status,   \* f->status
  waited,   \* f->waited
  ptr,      \* heap pointers of f: "none", "frame", or "refs" with refs to write back
  refcnt,   \* f->refcnt
  fmu,      \* owner of f->mu while a write back runs under it
  issued,   \* the host program holds the receipt f
  queue,    \* qhead .. qtail
  qstop,    \* rt->qstop
  pc,       \* where each thread is
  cur,      \* the future a thread works on
  mode,     \* "async" or "sync": the fulfill call a host is in
  res,      \* the status a worker's thunk returned
  bc,       \* the instance a host is breaking
  todo,     \* the futures its break has not reached
  breaks,   \* number of breaks so far
  down,     \* geas_runtime_shutdown returned
  got,      \* history: what the one delivery of f handed over
  ndeliv,   \* history: number of deliveries of f
  ran       \* history: the thunk of f returned OK

futv == <<born, freed, inst, linked, done, status, waited, ptr, refcnt, fmu, issued>>
insv == <<broken, heap, mu>>
locv == <<pc, cur, mode, res, bc, todo>>
hisv == <<got, ndeliv, ran>>
vars == <<insv, futv, queue, qstop, locv, breaks, down, hisv>>

HostPC   == {"idle", "validate", "refuse", "hold", "enqueue", "wait", "writeback",
             "release", "unref", "break", "join", "free"}
WorkerPC == {"pop", "lock", "thunk", "finish", "unlock", "unref", "exited"}

Init ==
  /\ broken = [c \in Insts |-> FALSE]
  /\ heap = [c \in Insts |-> TRUE]
  /\ mu = [c \in Insts |-> None]
  /\ born = [f \in Futures |-> FALSE]
  /\ freed = [f \in Futures |-> FALSE]
  /\ inst = [f \in Futures |-> None]
  /\ linked = [f \in Futures |-> FALSE]
  /\ done = [f \in Futures |-> FALSE]
  /\ status = [f \in Futures |-> "OK"]
  /\ waited = [f \in Futures |-> FALSE]
  /\ ptr = [f \in Futures |-> "none"]
  /\ refcnt = [f \in Futures |-> 0]
  /\ fmu = [f \in Futures |-> None]
  /\ issued = [f \in Futures |-> FALSE]
  /\ queue = << >>
  /\ qstop = FALSE
  /\ pc = [t \in Threads |-> IF t \in Hosts THEN "idle" ELSE "pop"]
  /\ cur = [t \in Threads |-> None]
  /\ mode = [h \in Hosts |-> "async"]
  /\ res = [w \in Workers |-> "OK"]
  /\ bc = [h \in Hosts |-> None]
  /\ todo = [h \in Hosts |-> {}]
  /\ breaks = 0
  /\ down = FALSE
  /\ got = [f \in Futures |-> "none"]
  /\ ndeliv = [f \in Futures |-> 0]
  /\ ran = [f \in Futures |-> FALSE]

Goto(t, l) == pc' = [pc EXCEPT ![t] = l]

-----------------------------------------------------------------------------
(* geas_pledge_fulfill on a host thread.                                    *)

\* future_new: the struct is zeroed, counted once and linked under c->mu.  No
\* host calls in once shutdown began, which the ABI asks of it.
FutureNew(h, c, f, m) ==
  /\ pc[h] = "idle" /\ ~qstop
  /\ ~born[f]
  /\ mu[c] = None
  /\ born' = [born EXCEPT ![f] = TRUE]
  /\ inst' = [inst EXCEPT ![f] = c]
  /\ refcnt' = [refcnt EXCEPT ![f] = 1]
  /\ linked' = [linked EXCEPT ![f] = TRUE]
  /\ cur' = [cur EXCEPT ![h] = f]
  /\ mode' = [mode EXCEPT ![h] = m]
  /\ Goto(h, "validate")
  /\ UNCHANGED <<insv, freed, done, status, waited, ptr, fmu, issued, queue,
                 qstop, res, bc, todo, breaks, down, hisv>>

\* The validation and the copy in, under c->mu: a live instance prepares the
\* frame, and the refs if there are any; a broken one, or a bad argument, does not.
Validate(h) ==
  LET f == cur[h] IN
  /\ pc[h] = "validate"
  /\ mu[inst[f]] = None
  /\ \/ /\ ~broken[inst[f]]
        /\ \E p \in {"frame", "refs"} : ptr' = [ptr EXCEPT ![f] = p]
        /\ Goto(h, "hold")
     \/ /\ Goto(h, "refuse")
        /\ UNCHANGED ptr
  /\ UNCHANGED <<insv, born, freed, inst, linked, done, status, waited, refcnt, fmu,
                 issued, queue, qstop, cur, mode, res, bc, todo, breaks, down, hisv>>

\* What follows the call: the receipt goes to the host program, or the
\* synchronous form waits on it at once.
FulfillReturns(h) ==
  /\ Goto(h, IF mode[h] = "sync" THEN "wait" ELSE "idle")
  /\ cur' = [cur EXCEPT ![h] = IF mode[h] = "sync" THEN @ ELSE None]
  /\ issued' = [issued EXCEPT ![cur[h]] = (mode[h] = "async")]

\* Mutant: the outcome is stored and the done flag is not raised.
FinishSilent(f, st) ==
  fmu[f] = None /\ status' = [status EXCEPT ![f] = st] /\ UNCHANGED done

\* future_finish: the first outcome is published, a later one is dropped.
FutureFinish(f, st) ==
  /\ fmu[f] = None
  /\ status' = [status EXCEPT ![f] = IF done[f] THEN @ ELSE st]
  /\ done' = [done EXCEPT ![f] = TRUE]

Refuse(h) ==
  /\ pc[h] = "refuse"
  /\ FutureFinish(cur[h], "ERR")
  /\ FulfillReturns(h)
  /\ UNCHANGED <<insv, born, freed, inst, linked, waited, ptr, refcnt, fmu, queue,
                 qstop, mode, res, bc, todo, breaks, down, hisv>>

\* Mutants: the pool takes no hold; it takes two.
HoldForgotten(h) ==
  /\ pc[h] = "hold"
  /\ Goto(h, "enqueue")
  /\ UNCHANGED <<insv, futv, queue, qstop, cur, mode, res, bc, todo, breaks, down, hisv>>
HoldTwice(h) ==
  /\ pc[h] = "hold"
  /\ refcnt' = [refcnt EXCEPT ![cur[h]] = @ + 2]
  /\ Goto(h, "enqueue")
  /\ UNCHANGED <<insv, born, freed, inst, linked, done, status, waited, ptr, fmu,
                 issued, queue, qstop, cur, mode, res, bc, todo, breaks, down, hisv>>

\* f->refcnt = 2, a plain write outside every lock.
Hold(h) ==
  /\ pc[h] = "hold"
  /\ refcnt' = [refcnt EXCEPT ![cur[h]] = 2]
  /\ Goto(h, "enqueue")
  /\ UNCHANGED <<insv, born, freed, inst, linked, done, status, waited, ptr, fmu,
                 issued, queue, qstop, cur, mode, res, bc, todo, breaks, down, hisv>>

\* pool_enqueue.
Enqueue(h) ==
  /\ pc[h] = "enqueue"
  /\ queue' = Append(queue, cur[h])
  /\ FulfillReturns(h)
  /\ UNCHANGED <<insv, born, freed, inst, linked, done, status, waited, ptr, refcnt,
                 fmu, qstop, mode, res, bc, todo, breaks, down, hisv>>

-----------------------------------------------------------------------------
(* geas_future_wait.                                                        *)

Wait(h, f) ==
  /\ pc[h] = "idle" /\ ~qstop
  /\ issued[f]
  /\ cur' = [cur EXCEPT ![h] = f]
  /\ mode' = [mode EXCEPT ![h] = "async"]
  /\ Goto(h, "wait")
  /\ UNCHANGED <<insv, futv, queue, qstop, res, bc, todo, breaks, down, hisv>>

\* Leaving the wait: a synchronous fulfillment goes on to release its receipt.
WaitReturns(h) ==
  /\ Goto(h, IF mode[h] = "sync" THEN "release" ELSE "idle")
  /\ cur' = [cur EXCEPT ![h] = IF mode[h] = "sync" THEN @ ELSE None]

\* The outcome exists and was delivered before: GEAS_ERR_STATE.
WaitAgain(h) ==
  LET f == cur[h] IN
  /\ pc[h] = "wait"
  /\ fmu[f] = None /\ done[f] /\ waited[f]
  /\ WaitReturns(h)
  /\ UNCHANGED <<insv, futv, queue, qstop, mode, res, bc, todo, breaks, down, hisv>>

NeedsWriteBack(f) == status[f] = "OK" /\ ptr[f] = "refs"

Deliver(f, st) ==
  /\ got' = [got EXCEPT ![f] = st]
  /\ ndeliv' = [ndeliv EXCEPT ![f] = @ + 1]

\* Mutant: the waited flag is not tested.
WaitDeliverAgain(h) ==
  LET f == cur[h] IN
  /\ pc[h] = "wait"
  /\ fmu[f] = None /\ done[f] /\ ~NeedsWriteBack(f)
  /\ waited' = [waited EXCEPT ![f] = TRUE]
  /\ Deliver(f, status[f])
  /\ WaitReturns(h)
  /\ UNCHANGED <<insv, born, freed, inst, linked, done, status, ptr, refcnt, fmu, issued,
                 queue, qstop, mode, res, bc, todo, breaks, down, ran>>

\* The outcome exists and nothing is to be written back: deliver it.
WaitDeliver(h) ==
  LET f == cur[h] IN
  /\ pc[h] = "wait"
  /\ fmu[f] = None /\ done[f] /\ ~waited[f]
  /\ ~NeedsWriteBack(f)
  /\ waited' = [waited EXCEPT ![f] = TRUE]
  /\ Deliver(f, status[f])
  /\ WaitReturns(h)
  /\ UNCHANGED <<insv, born, freed, inst, linked, done, status, ptr, refcnt, fmu, issued,
                 queue, qstop, mode, res, bc, todo, breaks, down, ran>>

\* The outcome exists and refs are to be written back, under f->mu.
WaitWriteBack(h) ==
  LET f == cur[h] IN
  /\ pc[h] = "wait"
  /\ fmu[f] = None /\ done[f] /\ ~waited[f]
  /\ NeedsWriteBack(f)
  /\ waited' = [waited EXCEPT ![f] = TRUE]
  /\ fmu' = [fmu EXCEPT ![f] = h]
  /\ Goto(h, "writeback")
  /\ UNCHANGED <<insv, born, freed, inst, linked, done, status, ptr, refcnt, issued,
                 queue, qstop, cur, mode, res, bc, todo, breaks, down, hisv>>

\* Mutant: the early return of a failed write back keeps f->mu.
WriteBackKeepsLock(h) ==
  LET f == cur[h] IN
  /\ pc[h] = "writeback"
  /\ \E st \in {"OK", "ERR"} :
       /\ Deliver(f, st)
       /\ fmu' = [fmu EXCEPT ![f] = IF st = "OK" THEN None ELSE h]
  /\ WaitReturns(h)
  /\ UNCHANGED <<insv, born, freed, inst, linked, done, status, waited, ptr, refcnt,
                 issued, queue, qstop, mode, res, bc, todo, breaks, down, ran>>

\* write_back_refs reads the slots on the instance heap; a slot whose type the
\* pledge swapped turns the delivery into GEAS_ERR_TYPE.
WriteBack(h) ==
  LET f == cur[h] IN
  /\ pc[h] = "writeback"
  /\ fmu' = [fmu EXCEPT ![f] = None]
  /\ \E st \in {"OK", "ERR"} : Deliver(f, st)
  /\ WaitReturns(h)
  /\ UNCHANGED <<insv, born, freed, inst, linked, done, status, waited, ptr, refcnt,
                 issued, queue, qstop, mode, res, bc, todo, breaks, down, ran>>

-----------------------------------------------------------------------------
(* future_release, the end of geas_pledge_fulfill_sync, and future_unref.   *)

Release(h) ==
  LET f == cur[h] IN
  /\ pc[h] = "release"
  /\ mu[inst[f]] = None
  /\ linked' = [linked EXCEPT ![f] = FALSE]
  /\ Goto(h, "unref")
  /\ UNCHANGED <<insv, born, freed, inst, done, status, waited, ptr, refcnt, fmu, issued,
                 queue, qstop, cur, mode, res, bc, todo, breaks, down, hisv>>

\* Mutant: whoever is done with the future frees it.
UnrefFrees(t, next) ==
  LET f == cur[t] IN
  /\ pc[t] = "unref"
  /\ fmu[f] = None
  /\ refcnt' = [refcnt EXCEPT ![f] = @ - 1]
  /\ freed' = [freed EXCEPT ![f] = TRUE]
  /\ cur' = [cur EXCEPT ![t] = None]
  /\ Goto(t, next)
  /\ UNCHANGED <<insv, born, inst, linked, done, status, waited, ptr, fmu, issued,
                 queue, qstop, mode, res, bc, todo, breaks, down, hisv>>

\* The one that drops the last hold frees the struct.
FutureUnref(t, next) ==
  LET f == cur[t] IN
  /\ pc[t] = "unref"
  /\ fmu[f] = None
  /\ refcnt' = [refcnt EXCEPT ![f] = @ - 1]
  /\ freed' = [freed EXCEPT ![f] = (refcnt[f] = 1)]
  /\ cur' = [cur EXCEPT ![t] = None]
  /\ Goto(t, next)
  /\ UNCHANGED <<insv, born, inst, linked, done, status, waited, ptr, fmu, issued,
                 queue, qstop, mode, res, bc, todo, breaks, down, hisv>>

-----------------------------------------------------------------------------
(* geas_contract_break.                                                     *)

BreakLock(h, c) ==
  /\ pc[h] = "idle" /\ ~qstop
  /\ breaks < MaxBreaks
  /\ mu[c] = None
  /\ mu' = [mu EXCEPT ![c] = h]
  /\ bc' = [bc EXCEPT ![h] = c]
  /\ todo' = [todo EXCEPT ![h] = {f \in Futures : linked[f] /\ inst[f] = c}]
  /\ breaks' = breaks + 1
  /\ Goto(h, "break")
  /\ UNCHANGED <<broken, heap, futv, queue, qstop, cur, mode, res, down, hisv>>

\* Mutant: the forfeit skips a waited future without taking its lock.
ForfeitUnlocked(h, f) ==
  /\ pc[h] = "break"
  /\ f \in todo[h]
  /\ fmu[f] = None \/ waited[f]
  /\ todo' = [todo EXCEPT ![h] = @ \ {f}]
  /\ status' = [status EXCEPT ![f] = IF waited[f] THEN @ ELSE "ERR"]
  /\ ptr' = [ptr EXCEPT ![f] = IF waited[f] THEN @ ELSE "none"]
  /\ done' = [done EXCEPT ![f] = @ \/ ~waited[f]]
  /\ UNCHANGED <<insv, born, freed, inst, linked, waited, refcnt, fmu, issued, queue,
                 qstop, pc, cur, mode, res, bc, breaks, down, hisv>>

\* Mutant: a future already waited is forfeited too.
ForfeitWaited(h, f) ==
  /\ pc[h] = "break"
  /\ f \in todo[h]
  /\ fmu[f] = None
  /\ todo' = [todo EXCEPT ![h] = @ \ {f}]
  /\ status' = [status EXCEPT ![f] = "ERR"]
  /\ ptr' = [ptr EXCEPT ![f] = "none"]
  /\ done' = [done EXCEPT ![f] = TRUE]
  /\ UNCHANGED <<insv, born, freed, inst, linked, waited, refcnt, fmu, issued, queue,
                 qstop, pc, cur, mode, res, bc, breaks, down, hisv>>

\* future_forfeit of one future on the list.
BreakForfeit(h, f) ==
  /\ pc[h] = "break"
  /\ f \in todo[h]
  /\ fmu[f] = None
  /\ todo' = [todo EXCEPT ![h] = @ \ {f}]
  /\ status' = [status EXCEPT ![f] = IF waited[f] THEN @ ELSE "ERR"]
  /\ ptr' = [ptr EXCEPT ![f] = IF waited[f] THEN @ ELSE "none"]
  /\ done' = [done EXCEPT ![f] = @ \/ ~waited[f]]
  /\ UNCHANGED <<insv, born, freed, inst, linked, waited, refcnt, fmu, issued, queue,
                 qstop, pc, cur, mode, res, bc, breaks, down, hisv>>

\* The whole list is forfeited: the heap goes, the state is Broken, c->mu opens.
BreakFree(h) ==
  LET c == bc[h] IN
  /\ pc[h] = "break"
  /\ todo[h] = {}
  /\ heap' = [heap EXCEPT ![c] = FALSE]
  /\ broken' = [broken EXCEPT ![c] = TRUE]
  /\ mu' = [mu EXCEPT ![c] = None]
  /\ bc' = [bc EXCEPT ![h] = None]
  /\ Goto(h, "idle")
  /\ UNCHANGED <<futv, queue, qstop, cur, mode, res, todo, breaks, down, hisv>>

-----------------------------------------------------------------------------
(* pool_worker and run_task.                                                *)

Pop(w) ==
  /\ pc[w] = "pop"
  /\ queue # << >>
  /\ cur' = [cur EXCEPT ![w] = Head(queue)]
  /\ queue' = Tail(queue)
  /\ Goto(w, "lock")
  /\ UNCHANGED <<insv, futv, qstop, mode, res, bc, todo, breaks, down, hisv>>

\* Mutant: a worker leaves as soon as qstop is raised.
ExitAtOnce(w) ==
  /\ pc[w] = "pop"
  /\ qstop
  /\ Goto(w, "exited")
  /\ UNCHANGED <<insv, futv, queue, qstop, cur, mode, res, bc, todo, breaks, down, hisv>>

Exit(w) ==
  /\ pc[w] = "pop"
  /\ queue = << >> /\ qstop
  /\ Goto(w, "exited")
  /\ UNCHANGED <<insv, futv, queue, qstop, cur, mode, res, bc, todo, breaks, down, hisv>>

\* Mutant: the state is not tested again under the lock.
TaskLockUnchecked(w) ==
  LET c == inst[cur[w]] IN
  /\ pc[w] = "lock"
  /\ mu[c] = None
  /\ mu' = [mu EXCEPT ![c] = w]
  /\ Goto(w, "thunk")
  /\ UNCHANGED <<broken, heap, futv, queue, qstop, cur, mode, res, bc, todo, breaks, down,
                 hisv>>

\* A broken instance finishes the task with GEAS_ERR_STATE, no thunk runs.
TaskLock(w) ==
  LET c == inst[cur[w]] IN
  /\ pc[w] = "lock"
  /\ mu[c] = None
  /\ mu' = [mu EXCEPT ![c] = w]
  /\ Goto(w, IF broken[c] THEN "finish" ELSE "thunk")
  /\ res' = [res EXCEPT ![w] = IF broken[c] THEN "ERR" ELSE @]
  /\ UNCHANGED <<broken, heap, futv, queue, qstop, cur, mode, bc, todo, breaks, down, hisv>>

\* The thunk runs on the frame, latches, and may leave the contract Broken by
\* its policy: an automatic break keeps the heap.
Thunk(w) ==
  LET c == inst[cur[w]] IN
  /\ pc[w] = "thunk"
  /\ \E r \in {"OK", "ERR"} : /\ res' = [res EXCEPT ![w] = r]
                              /\ ran' = [ran EXCEPT ![cur[w]] = @ \/ r = "OK"]
  /\ \E b \in BOOLEAN : broken' = [broken EXCEPT ![c] = b]
  /\ Goto(w, "finish")
  /\ UNCHANGED <<heap, mu, futv, queue, qstop, cur, mode, bc, todo, breaks, down,
                 got, ndeliv>>

TaskFinish(w) ==
  /\ pc[w] = "finish"
  /\ FutureFinish(cur[w], res[w])
  /\ Goto(w, "unlock")
  /\ UNCHANGED <<insv, born, freed, inst, linked, waited, ptr, refcnt, fmu, issued,
                 queue, qstop, cur, mode, res, bc, todo, breaks, down, hisv>>

\* Mutant: c->mu stays locked.
UnlockForgotten(w) ==
  /\ pc[w] = "unlock"
  /\ Goto(w, "unref")
  /\ UNCHANGED <<insv, futv, queue, qstop, cur, mode, res, bc, todo, breaks, down, hisv>>

TaskUnlock(w) ==
  /\ pc[w] = "unlock"
  /\ mu' = [mu EXCEPT ![inst[cur[w]]] = None]
  /\ Goto(w, "unref")
  /\ UNCHANGED <<broken, heap, futv, queue, qstop, cur, mode, res, bc, todo, breaks,
                 down, hisv>>

-----------------------------------------------------------------------------
(* geas_runtime_shutdown: called when no other host is inside anything but  *)
(* a wait; the frees come when those waits are over, as the ABI asks.       *)

OthersIn(h, places) == \A g \in Hosts \ {h} : pc[g] \in places

ShutdownStop(h) ==
  /\ pc[h] = "idle" /\ ~qstop
  /\ OthersIn(h, {"idle", "wait", "writeback"})
  /\ qstop' = TRUE
  /\ Goto(h, "join")
  /\ UNCHANGED <<insv, futv, queue, cur, mode, res, bc, todo, breaks, down, hisv>>

ShutdownJoin(h) ==
  /\ pc[h] = "join"
  /\ \A w \in Workers : pc[w] = "exited"
  /\ Goto(h, "free")
  /\ UNCHANGED <<insv, futv, queue, qstop, cur, mode, res, bc, todo, breaks, down, hisv>>

ShutdownFree(h) ==
  /\ pc[h] = "free"
  /\ OthersIn(h, {"idle"})
  /\ freed' = [f \in Futures |-> freed[f] \/ linked[f]]
  /\ linked' = [f \in Futures |-> FALSE]
  /\ issued' = [f \in Futures |-> FALSE]
  /\ heap' = [c \in Insts |-> FALSE]
  /\ broken' = [c \in Insts |-> TRUE]
  /\ down' = TRUE
  /\ Goto(h, "idle")
  /\ UNCHANGED <<mu, born, inst, done, status, waited, ptr, refcnt, fmu, queue, qstop,
                 cur, mode, res, bc, todo, breaks, hisv>>

-----------------------------------------------------------------------------
\* A host thread that is inside a call goes on with it.
HostStep(h) ==
  \/ Validate(h) \/ Refuse(h) \/ Hold(h) \/ Enqueue(h)
  \/ WaitAgain(h) \/ WaitDeliver(h) \/ WaitWriteBack(h) \/ WriteBack(h)
  \/ Release(h) \/ FutureUnref(h, "idle")
  \/ (\E f \in Futures : BreakForfeit(h, f)) \/ BreakFree(h)
  \/ ShutdownJoin(h) \/ ShutdownFree(h)

\* A host thread calls into the runtime.
HostCall(h) ==
  \/ \E c \in Insts, f \in Futures, m \in {"async", "sync"} : FutureNew(h, c, f, m)
  \/ \E f \in Futures : Wait(h, f)
  \/ \E c \in Insts : BreakLock(h, c)
  \/ ShutdownStop(h)

WorkerStep(w) ==
  \/ Pop(w) \/ Exit(w) \/ TaskLock(w) \/ Thunk(w) \/ TaskFinish(w) \/ TaskUnlock(w)
  \/ FutureUnref(w, "pop")

\* After shutdown there is nothing left to do.
Finished == down /\ UNCHANGED vars

Next ==
  \/ \E h \in Hosts : HostCall(h) \/ HostStep(h)
  \/ \E w \in Workers : WorkerStep(w)
  \/ Finished

\* The threads of the pool run, and a host thread inside a call goes on with it;
\* nothing obliges a host to call.
Fairness ==
  /\ \A h \in Hosts : WF_vars(HostStep(h))
  /\ \A w \in Workers : WF_vars(WorkerStep(w))

Spec == Init /\ [][Next]_vars
FairSpec == Spec /\ Fairness

-----------------------------------------------------------------------------
(* Properties.                                                              *)

\* Type invariant of the locks, the futures, the queue and the threads.
TypeOK ==
  /\ broken \in [Insts -> BOOLEAN]
  /\ heap \in [Insts -> BOOLEAN]
  /\ mu \in [Insts -> Threads \cup {None}]
  /\ born \in [Futures -> BOOLEAN]
  /\ freed \in [Futures -> BOOLEAN]
  /\ inst \in [Futures -> Insts \cup {None}]
  /\ linked \in [Futures -> BOOLEAN]
  /\ done \in [Futures -> BOOLEAN]
  /\ status \in [Futures -> {"OK", "ERR"}]
  /\ waited \in [Futures -> BOOLEAN]
  /\ ptr \in [Futures -> {"none", "frame", "refs"}]
  /\ refcnt \in [Futures -> 0 .. 2]
  /\ fmu \in [Futures -> Hosts \cup {None}]
  /\ issued \in [Futures -> BOOLEAN]
  /\ queue \in Seq(Futures)
  /\ qstop \in BOOLEAN
  /\ pc \in [Threads -> HostPC \cup WorkerPC]
  /\ cur \in [Threads -> Futures \cup {None}]
  /\ mode \in [Hosts -> {"async", "sync"}]
  /\ res \in [Workers -> {"OK", "ERR"}]
  /\ bc \in [Hosts -> Insts \cup {None}]
  /\ todo \in [Hosts -> SUBSET Futures]
  /\ breaks \in Nat
  /\ down \in BOOLEAN
  /\ got \in [Futures -> {"none", "OK", "ERR"}]
  /\ ndeliv \in [Futures -> Nat]
  /\ ran \in [Futures -> BOOLEAN]

(***************************************************************************)
(* Nothing reaches into a freed instance heap: a thunk runs on a live      *)
(* heap, so does a write back, and an OK receipt nobody has taken yet      *)
(* still points into a live heap, whatever breaks race with it.            *)
(***************************************************************************)
HeapSafety ==
  /\ \A w \in Workers : pc[w] = "thunk" => heap[inst[cur[w]]]
  /\ \A h \in Hosts : pc[h] = "writeback" => heap[inst[cur[h]]]
  /\ \A f \in Futures :
       born[f] /\ ~freed[f] /\ done[f] /\ ~waited[f] /\ status[f] = "OK" => heap[inst[f]]

(***************************************************************************)
(* Nothing reaches into a freed future: no thread works on one, none is    *)
(* queued, on an instance's list, or in the hands of the host program, and *)
(* no break has one ahead of it (future_unref, future_release, shutdown).  *)
(***************************************************************************)
FutureSafety ==
  \A f \in Futures : freed[f] =>
    /\ \A t \in Threads : cur[t] # f
    /\ \A i \in DOMAIN queue : queue[i] # f
    /\ ~linked[f] /\ ~issued[f]
    /\ \A h \in Hosts : f \notin todo[h]

\* The pool's hold: queued, on its way to the queue, or with a worker.
PoolHolds(f) ==
  \/ \E i \in DOMAIN queue : queue[i] = f
  \/ \E w \in Workers : cur[w] = f
  \/ \E h \in Hosts : cur[h] = f /\ pc[h] = "enqueue"

\* The receipt's hold: on the list, or with the host that is dropping it.
ReceiptHolds(f) ==
  \/ linked[f]
  \/ \E h \in Hosts : cur[h] = f /\ pc[h] = "unref"

(***************************************************************************)
(* The reference count is exactly the number of parties that still hold    *)
(* the future, until shutdown frees it outright.                           *)
(***************************************************************************)
RefcountExact ==
  ~down => \A f \in Futures :
    born[f] => refcnt[f] = (IF PoolHolds(f) THEN 1 ELSE 0)
                           + (IF ReceiptHolds(f) THEN 1 ELSE 0)

(***************************************************************************)
(* A receipt is delivered at most once however many threads wait on it,    *)
(* and what was delivered as OK was an outcome a thunk really produced,    *)
(* not one a break had already forfeited.                                  *)
(***************************************************************************)
DeliveredOnce ==
  \A f \in Futures :
    /\ ndeliv[f] <= 1
    /\ got[f] = "OK" => status[f] = "OK" /\ ran[f]

(***************************************************************************)
(* A published outcome stands: only a break may change it, only before it  *)
(* was taken, and only to GEAS_ERR_STATE (future_finish, future_forfeit).  *)
(***************************************************************************)
OutcomeStands ==
  [][\A f \in Futures : done[f] =>
       /\ done'[f]
       /\ status'[f] # status[f] => ~waited[f] /\ status'[f] = "ERR"]_vars

(***************************************************************************)
(* Shutdown strands nothing: when the workers have exited under qstop,     *)
(* nothing is queued and every future has its outcome; when it returns,    *)
(* every future struct was freed.                                          *)
(***************************************************************************)
ShutdownDrains ==
  /\ (\A w \in Workers : pc[w] = "exited") =>
       queue = << >> /\ \A f \in Futures : born[f] => done[f]
  /\ down => \A f \in Futures : born[f] => freed[f]

(***************************************************************************)
(* The promise of Receipts: a fulfillment that races a break is taken      *)
(* before it or is GEAS_ERR_STATE, whatever the threads do.                *)
(***************************************************************************)
OutcomeOf(f) ==
  CASE ~born[f] -> "unborn"
    [] freed[f] -> "gone"
    [] born[f] /\ ~freed[f] /\ ~done[f] -> "pending"
    [] born[f] /\ ~freed[f] /\ done[f] /\ status[f] = "OK" -> "ok"
    [] OTHER -> "err"
R == INSTANCE Receipts WITH
       outcome <- [f \in Futures |-> OutcomeOf(f)],
       taken <- got,
       owner <- inst,
       reclaimed <- [c \in Insts |-> ~heap[c]]
ImplementsReceipts == R!Spec

\* A host inside geas_future_wait gets out of it, break or no break.
WaitReturnsAtLast == \A h \in Hosts : pc[h] = "wait" ~> pc[h] # "wait"

\* A break gets past every write back and thunk ahead of it.
BreakReturnsAtLast == \A h \in Hosts : pc[h] = "break" ~> pc[h] # "break"

\* A shutdown that began joins its workers and returns.
ShutdownReturnsAtLast == qstop ~> down

=============================================================================
