-------------------------- MODULE FuturePool_proofs --------------------------
(***************************************************************************)
(* What FuturePool keeps for any number of host threads, workers,          *)
(* instances and futures: no freed heap and no freed future is reached,    *)
(* the reference count is exact, a receipt is delivered once, a shutdown   *)
(* strands nothing, and the threads implement Receipts.                    *)
(***************************************************************************)
EXTENDS FuturePool, TLAPS

USE ThreadsAssumption, NoneAssumption DEF Threads, HostPC, WorkerPC, Goto,
    insv, futv, locv, hisv

-----------------------------------------------------------------------------
(* The inductive invariant, in parts.                                       *)

\* A host in one of these has a future nobody else knows of.
Making == {"validate", "refuse", "hold", "enqueue"}

HostHas == Making \cup {"wait", "writeback", "release", "unref"}
WorkerHas == {"lock", "thunk", "finish", "unlock", "unref"}

InQueue(f) == \E i \in DOMAIN queue : queue[i] = f

\* The host is inside the fulfill call that made its future; otherwise, with a
\* future, it waits on a receipt the host program holds.
Owns(h) == cur[h] # None /\ (pc[h] \notin {"wait", "writeback"} \/ mode[h] = "sync")

\* Where a thread is decides whether it has a future, or an instance to break.
Places ==
  /\ \A h \in Hosts :
       /\ pc[h] \in HostPC
       /\ cur[h] # None <=> pc[h] \in HostHas
       /\ pc[h] \in {"release", "unref"} => mode[h] = "sync"
       /\ bc[h] # None <=> pc[h] = "break"
       /\ pc[h] # "break" => todo[h] = {}
  /\ \A w \in Workers :
       /\ pc[w] \in WorkerPC
       /\ cur[w] # None <=> pc[w] \in WorkerHas

\* Only allocated futures are anywhere, and those know their instance.
Known ==
  /\ \A f \in Futures :
       /\ born[f] <=> inst[f] # None
       /\ linked[f] \/ issued[f] \/ done[f] \/ freed[f] => born[f]
  /\ \A t \in Threads : cur[t] # None => born[cur[t]]
  /\ \A i \in DOMAIN queue : born[queue[i]]

\* A receipt is with the one host that made it, or with the host program.
Owners ==
  /\ \A f \in Futures : issued[f] => linked[f]
  /\ \A h \in Hosts : cur[h] # None /\ ~Owns(h) => issued[cur[h]]
  /\ \A h \in Hosts : Owns(h) =>
       /\ ~issued[cur[h]]
       /\ linked[cur[h]] <=> pc[h] # "unref"
       /\ \A g \in Hosts : cur[g] = cur[h] => g = h

\* The pool has a future once: on the queue or with one worker.
Pooled ==
  /\ \A i, j \in DOMAIN queue : queue[i] = queue[j] => i = j
  /\ \A i \in DOMAIN queue : \A w \in Workers : cur[w] # queue[i]
  /\ \A w, x \in Workers : cur[w] # None /\ cur[w] = cur[x] => w = x
  /\ \A h \in Hosts : pc[h] \in Making =>
       ~InQueue(cur[h]) /\ \A w \in Workers : cur[w] # cur[h]

\* The count is exact, and the struct is freed when it reaches zero.
Counted ==
  /\ RefcountExact
  /\ ~down => \A f \in Futures : born[f] => (freed[f] <=> refcnt[f] = 0)

\* Who holds c->mu and f->mu where.
Locked ==
  /\ \A w \in Workers : pc[w] \in {"thunk", "finish", "unlock"} => mu[inst[cur[w]]] = w
  /\ \A h \in Hosts : pc[h] = "break" => mu[bc[h]] = h
  /\ \A h \in Hosts : pc[h] = "writeback" => fmu[cur[h]] = h
  /\ \A f \in Futures : fmu[f] # None => pc[fmu[f]] = "writeback" /\ cur[fmu[f]] = f

\* A break that went past a future leaves nothing that reaches into the heap.
Settled(f) == done[f] /\ fmu[f] = None /\ (waited[f] \/ status[f] = "ERR")

Breaking ==
  \A h \in Hosts : pc[h] = "break" =>
    /\ \A f \in todo[h] : linked[f] /\ inst[f] = bc[h]
    /\ \A f \in Futures : linked[f] /\ inst[f] = bc[h] /\ f \notin todo[h] => Settled(f)

\* The waited flag, the write back under f->mu and the one delivery.
Delivered ==
  /\ \A f \in Futures :
       /\ waited[f] => done[f]
       /\ fmu[f] # None => waited[f] /\ status[f] = "OK"
       /\ ndeliv[f] = IF waited[f] /\ fmu[f] = None THEN 1 ELSE 0
       /\ got[f] = "none" <=> ndeliv[f] = 0
       /\ got[f] = "OK" => status[f] = "OK"
       /\ done[f] /\ status[f] = "OK" => ran[f]
       /\ born[f] /\ ~linked[f] /\ ~down => waited[f]
  /\ \A h \in Hosts : pc[h] \in {"release", "unref"} => waited[cur[h]]
  /\ \A w \in Workers : pc[w] = "finish" /\ res[w] = "OK" => ran[cur[w]]

\* A heap goes with its instance, and a thunk's OK is published while it stands.
Heaped ==
  /\ \A c \in Insts : ~heap[c] => broken[c]
  /\ HeapSafety
  /\ \A w \in Workers : pc[w] = "finish" /\ res[w] = "OK" => heap[inst[cur[w]]]

\* A future without an outcome is on its way to one.
Coming(f) ==
  \/ \E h \in Hosts : cur[h] = f /\ pc[h] \in Making
  \/ InQueue(f)
  \/ \E w \in Workers : cur[w] = f /\ pc[w] \in {"lock", "thunk", "finish"}

Pending == \A f \in Futures : born[f] /\ ~done[f] => Coming(f)

\* The order of a shutdown.
Closing ==
  /\ qstop => \A h \in Hosts : pc[h] \notin Making \cup {"break"}
  /\ \A h \in Hosts : pc[h] \in {"join", "free"} =>
       qstop /\ ~down /\ \A g \in Hosts : pc[g] \in {"join", "free"} => g = h
  /\ \A h \in Hosts : pc[h] = "free" => \A w \in Workers : pc[w] = "exited"
  /\ \A w \in Workers : pc[w] = "exited" => qstop /\ queue = << >>
  /\ down =>
       /\ qstop
       /\ \A h \in Hosts : pc[h] = "idle"
       /\ \A w \in Workers : pc[w] = "exited"
       /\ \A f \in Futures : ~linked[f] /\ ~issued[f] /\ (born[f] => freed[f])

USE DEF Making, HostHas, WorkerHas

PoolInv ==
  /\ TypeOK
  /\ Places /\ Known /\ Owners /\ Pooled
  /\ Counted /\ Locked /\ Breaking
  /\ Delivered /\ Heaped /\ Pending /\ Closing

-----------------------------------------------------------------------------
(* Two parts hold existentially: what a step must leave alone to keep them. *)

LEMMA CountedFrame ==
  ASSUME Counted, queue' = queue, down' = down,
         \A f \in Futures : /\ born'[f] = born[f] /\ freed'[f] = freed[f]
                            /\ linked'[f] = linked[f] /\ refcnt'[f] = refcnt[f],
         \A w \in Workers : cur'[w] = cur[w],
         \A h \in Hosts : pc'[h] \in {"enqueue", "unref"} \/ pc[h] \in {"enqueue", "unref"} =>
                            pc'[h] = pc[h] /\ cur'[h] = cur[h]
  PROVE  Counted'
PROOF
  <1>1. ASSUME NEW f \in Futures PROVE PoolHolds(f)' <=> PoolHolds(f)
    BY DEF PoolHolds
  <1>2. ASSUME NEW f \in Futures PROVE ReceiptHolds(f)' <=> ReceiptHolds(f)
    BY DEF ReceiptHolds
  <1> QED
    BY <1>1, <1>2 DEF Counted, RefcountExact

LEMMA ComingFrame ==
  ASSUME NEW f \in Futures, Coming(f), queue' = queue,
         \A h \in Hosts : cur[h] = f /\ pc[h] \in Making => cur'[h] = f /\ pc'[h] \in Making,
         \A w \in Workers : cur[w] = f /\ pc[w] \in {"lock", "thunk", "finish"} =>
                              cur'[w] = f /\ pc'[w] \in {"lock", "thunk", "finish"}
  PROVE  Coming(f)'
PROOF
  BY DEF Coming, InQueue

LEMMA PendingFrame ==
  ASSUME Pending, queue' = queue,
         \A f \in Futures : born'[f] = born[f] /\ (done[f] => done'[f]),
         \A h \in Hosts : pc[h] \in Making => pc'[h] \in Making /\ cur'[h] = cur[h],
         \A w \in Workers : pc[w] \in {"lock", "thunk", "finish"} =>
                              pc'[w] \in {"lock", "thunk", "finish"} /\ cur'[w] = cur[w]
  PROVE  Pending'
PROOF
  <1> SUFFICES ASSUME NEW f \in Futures, born'[f], ~done'[f] PROVE Coming(f)'
    BY DEF Pending
  <1> QED
    BY ComingFrame DEF Pending

LEMMA AppendFacts ==
  ASSUME NEW s \in Seq(Futures), NEW e \in Futures
  PROVE  /\ DOMAIN s = 1 .. Len(s) /\ Len(s) \in Nat
         /\ DOMAIN Append(s, e) = 1 .. Len(s) + 1
         /\ \A i \in 1 .. Len(s) : Append(s, e)[i] = s[i]
         /\ Append(s, e)[Len(s) + 1] = e
PROOF
  OBVIOUS

LEMMA TailFacts ==
  ASSUME NEW s \in Seq(Futures), s # << >>
  PROVE  /\ DOMAIN s = 1 .. Len(s) /\ Len(s) \in Nat \ {0} /\ Head(s) = s[1]
         /\ DOMAIN Tail(s) = 1 .. Len(s) - 1
         /\ \A i \in 1 .. Len(s) - 1 : Tail(s)[i] = s[i + 1]
PROOF
  OBVIOUS
\* What a thread, the queue, a list or the host program holds is not freed, since
\* the count is not zero.
LEMMA HeldIsNotFreed == PoolInv => FutureSafety
PROOF
  <1> SUFFICES ASSUME PoolInv, NEW f \in Futures, freed[f]
               PROVE  /\ \A t \in Threads : cur[t] # f
                      /\ \A i \in DOMAIN queue : queue[i] # f
                      /\ ~linked[f] /\ ~issued[f]
                      /\ \A h \in Hosts : f \notin todo[h]
    BY DEF FutureSafety
  <1>1. CASE down
    <2>1. (\A t \in Threads : cur[t] = None) /\ queue = << >>
      BY <1>1 DEF PoolInv, Places, Closing
    <2>2. \A h \in Hosts : todo[h] = {}
      BY <1>1 DEF PoolInv, Places, Closing
    <2> QED
      BY <1>1, <2>1, <2>2 DEF PoolInv, Closing
  <1>2. CASE ~down
    <2>1. ~PoolHolds(f) /\ ~ReceiptHolds(f)
      BY <1>2 DEF PoolInv, TypeOK, Known, Counted, RefcountExact
    <2>2. ~linked[f] /\ ~issued[f]
      BY <2>1 DEF PoolInv, Owners, ReceiptHolds
    <2>3. \A t \in Threads : cur[t] # f
      BY <2>1, <2>2 DEF PoolInv, Places, Owners, Owns, PoolHolds, ReceiptHolds
    <2>4. \A h \in Hosts : f \notin todo[h]
      BY <2>2 DEF PoolInv, Places, Breaking
    <2> QED
      BY <2>1, <2>2, <2>3, <2>4 DEF PoolHolds
  <1> QED
    BY <1>1, <1>2

\* The one that drops a hold finds a count of one or two.
LEMMA HeldIsCounted ==
  ASSUME PoolInv, NEW t \in Threads, cur[t] # None
  PROVE  /\ cur[t] \in Futures /\ born[cur[t]] /\ ~freed[cur[t]] /\ ~down
         /\ refcnt[cur[t]] \in 1 .. 2
PROOF
  <1>1. cur[t] \in Futures /\ born[cur[t]]
    BY DEF PoolInv, TypeOK, Known
  <1>2. ~freed[cur[t]]
    BY <1>1, HeldIsNotFreed DEF FutureSafety
  <1>3. ~down
    BY DEF PoolInv, Places, Closing
  <1> QED
    BY <1>1, <1>2, <1>3 DEF PoolInv, TypeOK, Counted

-----------------------------------------------------------------------------
(* Every action keeps the invariant.                                        *)

LEMMA InitPoolInv == Init => PoolInv
PROOF
  <1> SUFFICES ASSUME Init PROVE PoolInv
    OBVIOUS
  <1>1. TypeOK
    <2>1. pc \in [Threads -> HostPC \cup WorkerPC]
      BY DEF Init
    <2>2. queue \in Seq(Futures) /\ todo \in [Hosts -> SUBSET Futures]
      BY DEF Init
    <2>3. /\ refcnt \in [Futures -> 0 .. 2] /\ ndeliv \in [Futures -> Nat] /\ breaks \in Nat
          /\ inst \in [Futures -> Insts \cup {None}]
      BY DEF Init
    <2>4. /\ mu \in [Insts -> Threads \cup {None}] /\ cur \in [Threads -> Futures \cup {None}]
          /\ fmu \in [Futures -> Hosts \cup {None}] /\ bc \in [Hosts -> Insts \cup {None}]
      BY DEF Init
    <2> QED
      BY <2>1, <2>2, <2>3, <2>4 DEF Init, TypeOK
  <1>2. Places /\ Known /\ Owners
    BY DEF Init, Places, Known, Owners, Owns
  <1>3. Pooled /\ Locked /\ Breaking /\ Delivered
    BY DEF Init, Pooled, InQueue, Locked, Breaking, Delivered
  <1>4. Counted /\ Heaped /\ Pending /\ Closing
    BY DEF Init, Counted, RefcountExact, Heaped, HeapSafety, Pending, Closing
  <1> QED
    BY <1>1, <1>2, <1>3, <1>4 DEF PoolInv

LEMMA FutureNewKeeps ==
  ASSUME PoolInv, NEW h \in Hosts, NEW c \in Insts, NEW f \in Futures,
         NEW m \in {"async", "sync"}, FutureNew(h, c, f, m)
  PROVE  PoolInv'
PROOF
  <1>1. TypeOK'
    BY DEF PoolInv, TypeOK, Places, Known, FutureNew
  <1>2. Places'
    BY DEF PoolInv, TypeOK, Places, FutureNew
  <1>3. Known'
    BY DEF PoolInv, TypeOK, Places, Known, FutureNew
  <1>4. Owners'
    BY DEF PoolInv, TypeOK, Places, Known, Owners, Owns, Closing, FutureNew
  <1>5. Pooled'
    BY DEF PoolInv, TypeOK, Places, Known, Owners, Owns, Pooled, InQueue, FutureNew
  <1>6. Counted'
    <2>1. ~PoolHolds(f)' /\ ReceiptHolds(f)' /\ refcnt'[f] = 1 /\ ~freed'[f]
      <3>1. \A i \in DOMAIN queue : queue[i] # f
        BY DEF PoolInv, Known, FutureNew
      <3>2. \A t \in Threads : cur[t] # f
        BY DEF PoolInv, Known, FutureNew
      <3>3. \A k \in Hosts : cur'[k] = f => pc'[k] = "validate"
        BY <3>2 DEF PoolInv, TypeOK, FutureNew
      <3>4. (\A w \in Workers : cur'[w] # f) /\ queue' = queue
        BY <3>2 DEF PoolInv, TypeOK, FutureNew
      <3>5. ~PoolHolds(f)'
        BY <3>1, <3>3, <3>4 DEF PoolHolds
      <3> QED
        BY <3>5 DEF PoolInv, TypeOK, Known, ReceiptHolds, FutureNew
    <2>2. ASSUME NEW g \in Futures, g # f
          PROVE  /\ PoolHolds(g)' <=> PoolHolds(g)
                 /\ ReceiptHolds(g)' <=> ReceiptHolds(g)
                 /\ born'[g] = born[g] /\ refcnt'[g] = refcnt[g] /\ freed'[g] = freed[g]
      BY <2>2 DEF PoolInv, TypeOK, Places, PoolHolds, ReceiptHolds, FutureNew
    <2>3. down' = down
      BY DEF FutureNew
    <2> QED
      BY <2>1, <2>2, <2>3 DEF PoolInv, Counted, RefcountExact
  <1>7. Locked'
    BY DEF PoolInv, TypeOK, Places, Known, Locked, FutureNew
  <1>8. Breaking'
    BY DEF PoolInv, TypeOK, Places, Known, Locked, Breaking, Settled, Delivered, FutureNew
  <1>9. Delivered'
    BY DEF PoolInv, TypeOK, Places, Known, Owners, Owns, Locked, Delivered, FutureNew
  <1>10. Heaped'
    BY DEF PoolInv, TypeOK, Places, Known, Owners, Owns, Locked, Breaking, Settled, Delivered,
       Heaped, HeapSafety, FutureNew
  <1>11. Pending'
    <2>1. Coming(f)'
      BY DEF PoolInv, TypeOK, Coming, FutureNew
    <2>2. ASSUME NEW g \in Futures, g # f, Coming(g) PROVE Coming(g)'
      BY <2>2, ComingFrame DEF PoolInv, TypeOK, Places, FutureNew
    <2> QED
      BY <2>1, <2>2 DEF PoolInv, TypeOK, Pending, FutureNew
  <1>12. Closing'
    BY DEF PoolInv, TypeOK, Places, Known, Closing, FutureNew
  <1> QED
    BY <1>1, <1>2, <1>3, <1>4, <1>5, <1>6, <1>7, <1>8, <1>9, <1>10, <1>11, <1>12 DEF PoolInv

LEMMA ValidateKeeps ==
  ASSUME PoolInv, NEW h \in Hosts, Validate(h)
  PROVE  PoolInv'
PROOF
  <1> DEFINE accepted == /\ Goto(h, "hold")
                         /\ \E p \in {"frame", "refs"} : ptr' = [ptr EXCEPT ![cur[h]] = p]
             refused == Goto(h, "refuse") /\ UNCHANGED ptr
  <1>a. accepted \/ refused
    BY DEF Validate
  <1>1. TypeOK'
    <2>1. CASE accepted
      BY <2>1 DEF PoolInv, TypeOK, Places, Known, Validate
    <2>2. CASE refused
      BY <2>2 DEF PoolInv, TypeOK, Places, Known, Validate
    <2> QED
      BY <2>1, <2>2, <1>a
  <1>2. Places'
    <2>1. CASE accepted
      BY <2>1 DEF PoolInv, TypeOK, Places, Validate
    <2>2. CASE refused
      BY <2>2 DEF PoolInv, TypeOK, Places, Validate
    <2> QED
      BY <2>1, <2>2, <1>a
  <1>3. Known'
    BY DEF PoolInv, TypeOK, Places, Known, Validate
  <1>4. Owners'
    <2>1. CASE accepted
      BY <2>1 DEF PoolInv, TypeOK, Places, Known, Owners, Owns, Closing, Validate
    <2>2. CASE refused
      BY <2>2 DEF PoolInv, TypeOK, Places, Known, Owners, Owns, Closing, Validate
    <2> QED
      BY <2>1, <2>2, <1>a
  <1>5. Pooled'
    <2>1. CASE accepted
      BY <2>1 DEF PoolInv, TypeOK, Places, Known, Owners, Owns, Pooled, InQueue, Validate
    <2>2. CASE refused
      BY <2>2 DEF PoolInv, TypeOK, Places, Known, Owners, Owns, Pooled, InQueue, Validate
    <2> QED
      BY <2>1, <2>2, <1>a
  <1>6. Counted'
    BY CountedFrame DEF PoolInv, TypeOK, Places, Closing, Validate
  <1>7. Locked'
    BY DEF PoolInv, TypeOK, Places, Known, Locked, Validate
  <1>8. Breaking'
    <2>1. CASE accepted
      BY <2>1 DEF PoolInv, TypeOK, Places, Known, Locked, Breaking, Settled, Delivered, Validate
    <2>2. CASE refused
      BY <2>2 DEF PoolInv, TypeOK, Places, Known, Locked, Breaking, Settled, Delivered, Validate
    <2> QED
      BY <2>1, <2>2, <1>a
  <1>9. Delivered'
    BY DEF PoolInv, TypeOK, Places, Known, Owners, Owns, Locked, Delivered, Validate
  <1>10. Heaped'
    BY DEF PoolInv, TypeOK, Places, Known, Owners, Owns, Locked, Breaking, Settled, Delivered,
       Heaped, HeapSafety, Validate
  <1>11. Pending'
    BY PendingFrame DEF PoolInv, TypeOK, Places, Validate
  <1>12. Closing'
    BY DEF PoolInv, TypeOK, Places, Known, Closing, Validate
  <1> QED
    BY <1>1, <1>2, <1>3, <1>4, <1>5, <1>6, <1>7, <1>8, <1>9, <1>10, <1>11, <1>12 DEF PoolInv

LEMMA RefuseKeeps ==
  ASSUME PoolInv, NEW h \in Hosts, Refuse(h)
  PROVE  PoolInv'
PROOF
  <1>1. TypeOK'
    BY DEF PoolInv, TypeOK, Places, Known, Refuse, FutureFinish, FulfillReturns
  <1>2. Places'
    BY DEF PoolInv, TypeOK, Places, Refuse, FutureFinish, FulfillReturns
  <1>3. Known'
    BY DEF PoolInv, TypeOK, Places, Known, Refuse, FutureFinish, FulfillReturns
  <1>4. Owners'
    BY DEF PoolInv, TypeOK, Places, Known, Owners, Owns, Closing, Refuse, FutureFinish,
       FulfillReturns
  <1>5. Pooled'
    BY DEF PoolInv, TypeOK, Places, Known, Owners, Owns, Pooled, InQueue, Refuse, FutureFinish,
       FulfillReturns
  <1>6. Counted'
    BY CountedFrame DEF PoolInv, TypeOK, Places, Closing, Refuse, FutureFinish, FulfillReturns
  <1>7. Locked'
    BY DEF PoolInv, TypeOK, Places, Known, Locked, Refuse, FutureFinish, FulfillReturns
  <1>8. Breaking'
    BY DEF PoolInv, TypeOK, Places, Known, Locked, Breaking, Settled, Delivered, Refuse,
       FutureFinish, FulfillReturns
  <1>9. Delivered'
    BY DEF PoolInv, TypeOK, Places, Known, Owners, Owns, Locked, Delivered, Refuse, FutureFinish,
       FulfillReturns
  <1>10. Heaped'
    BY DEF PoolInv, TypeOK, Places, Known, Owners, Owns, Locked, Breaking, Settled, Delivered,
       Heaped, HeapSafety, Refuse, FutureFinish, FulfillReturns
  <1>11. Pending'
    <2>1. ASSUME NEW g \in Futures, g # cur[h], Coming(g) PROVE Coming(g)'
      BY <2>1, ComingFrame DEF PoolInv, TypeOK, Places, Refuse, FutureFinish, FulfillReturns
    <2> QED
      BY <2>1 DEF PoolInv, TypeOK, Pending, Refuse, FutureFinish, FulfillReturns
  <1>12. Closing'
    BY DEF PoolInv, TypeOK, Places, Known, Closing, Refuse, FutureFinish, FulfillReturns
  <1> QED
    BY <1>1, <1>2, <1>3, <1>4, <1>5, <1>6, <1>7, <1>8, <1>9, <1>10, <1>11, <1>12 DEF PoolInv

LEMMA HoldKeeps ==
  ASSUME PoolInv, NEW h \in Hosts, Hold(h)
  PROVE  PoolInv'
PROOF
  <1>a. PICK f \in Futures : cur[h] = f
    BY DEF PoolInv, TypeOK, Places, Hold
  <1>b. born[f] /\ ~freed[f] /\ ~down /\ linked[f]
    BY <1>a, HeldIsCounted DEF PoolInv, Places, Owners, Owns, Hold
  <1>1. TypeOK'
    BY DEF PoolInv, TypeOK, Places, Known, Hold
  <1>2. Places'
    BY DEF PoolInv, TypeOK, Places, Hold
  <1>3. Known'
    BY DEF PoolInv, TypeOK, Places, Known, Hold
  <1>4. Owners'
    BY DEF PoolInv, TypeOK, Places, Known, Owners, Owns, Closing, Hold
  <1>5. Pooled'
    BY DEF PoolInv, TypeOK, Places, Known, Owners, Owns, Pooled, InQueue, Hold
  <1>6. Counted'
    <2>1. PoolHolds(f)' /\ ReceiptHolds(f)' /\ refcnt'[f] = 2 /\ ~freed'[f]
      BY <1>a, <1>b DEF PoolInv, TypeOK, PoolHolds, ReceiptHolds, Hold
    <2>2. ASSUME NEW g \in Futures, g # f
          PROVE  /\ PoolHolds(g)' <=> PoolHolds(g)
                 /\ ReceiptHolds(g)' <=> ReceiptHolds(g)
                 /\ born'[g] = born[g] /\ refcnt'[g] = refcnt[g] /\ freed'[g] = freed[g]
      BY <1>a, <2>2 DEF PoolInv, TypeOK, Places, PoolHolds, ReceiptHolds, Hold
    <2>3. down' = down
      BY DEF Hold
    <2> QED
      BY <2>1, <2>2, <2>3 DEF PoolInv, Counted, RefcountExact
  <1>7. Locked'
    BY DEF PoolInv, TypeOK, Places, Known, Locked, Hold
  <1>8. Breaking'
    BY DEF PoolInv, TypeOK, Places, Known, Locked, Breaking, Settled, Delivered, Hold
  <1>9. Delivered'
    BY DEF PoolInv, TypeOK, Places, Known, Owners, Owns, Locked, Delivered, Hold
  <1>10. Heaped'
    BY DEF PoolInv, TypeOK, Places, Known, Owners, Owns, Locked, Breaking, Settled, Delivered,
       Heaped, HeapSafety, Hold
  <1>11. Pending'
    BY PendingFrame DEF PoolInv, TypeOK, Places, Hold
  <1>12. Closing'
    BY DEF PoolInv, TypeOK, Places, Known, Closing, Hold
  <1> QED
    BY <1>1, <1>2, <1>3, <1>4, <1>5, <1>6, <1>7, <1>8, <1>9, <1>10, <1>11, <1>12 DEF PoolInv

LEMMA EnqueueKeeps ==
  ASSUME PoolInv, NEW h \in Hosts, Enqueue(h)
  PROVE  PoolInv'
PROOF
  <1>a. PICK f \in Futures : cur[h] = f
    BY DEF PoolInv, TypeOK, Places, Enqueue
  <1>b. queue \in Seq(Futures) /\ queue' = Append(queue, f)
    BY <1>a DEF PoolInv, TypeOK, Enqueue
  <1>c. \A g \in Futures : InQueue(g)' <=> InQueue(g) \/ g = f
    BY <1>b, AppendFacts DEF InQueue
  <1>1. TypeOK'
    BY DEF PoolInv, TypeOK, Places, Known, Enqueue, FulfillReturns
  <1>2. Places'
    BY DEF PoolInv, TypeOK, Places, Enqueue, FulfillReturns
  <1>3. Known'
    BY DEF PoolInv, TypeOK, Places, Known, Enqueue, FulfillReturns
  <1>4. Owners'
    BY DEF PoolInv, TypeOK, Places, Known, Owners, Owns, Closing, Enqueue, FulfillReturns
  <1>5. Pooled'
    <2>1. ~InQueue(f) /\ (\A w \in Workers : cur[w] # f)
          /\ (\A g \in Hosts : cur[g] = f => g = h)
      BY <1>a DEF PoolInv, Places, Owners, Owns, Pooled, Enqueue
    <2>2. \A i, j \in DOMAIN queue' : queue'[i] = queue'[j] => i = j
      BY <1>b, <2>1, AppendFacts DEF PoolInv, Pooled, InQueue
    <2>3. \A i \in DOMAIN queue' : \A w \in Workers : cur'[w] # queue'[i]
      BY <1>b, <2>1, AppendFacts DEF PoolInv, TypeOK, Pooled, Enqueue, FulfillReturns
    <2>4. \A w, x \in Workers : cur'[w] # None /\ cur'[w] = cur'[x] => w = x
      BY DEF PoolInv, TypeOK, Pooled, Enqueue, FulfillReturns
    <2>5. ASSUME NEW g \in Hosts, pc'[g] \in Making
          PROVE  (~InQueue(cur[g]))' /\ \A w \in Workers : cur'[w] # cur'[g]
      <3>1. g # h /\ pc[g] \in Making /\ cur'[g] = cur[g] /\ cur[g] \in Futures
        BY <2>5 DEF PoolInv, TypeOK, Places, Enqueue, FulfillReturns
      <3>2. cur[g] # f /\ ~InQueue(cur[g]) /\ \A w \in Workers : cur[w] # cur[g]
        BY <2>1, <3>1 DEF PoolInv, Pooled
      <3>3. \A w \in Workers : cur'[w] = cur[w]
        BY DEF PoolInv, TypeOK, Enqueue, FulfillReturns
      <3>4. PICK k \in Futures : k = cur[g] /\ k = cur'[g]
        BY <3>1
      <3> QED
        BY <1>c, <3>2, <3>3, <3>4 DEF InQueue
    <2> QED
      BY <2>2, <2>3, <2>4, <2>5 DEF Pooled
  <1>6. Counted'
    <2>1. ASSUME NEW g \in Futures
          PROVE  /\ PoolHolds(g)' <=> PoolHolds(g)
                 /\ ReceiptHolds(g)' <=> ReceiptHolds(g)
      <3>1. \A k \in Hosts : cur'[k] = g /\ pc'[k] \in {"enqueue", "unref"}
                             => cur[k] = g /\ pc'[k] = pc[k]
        BY DEF PoolInv, TypeOK, Places, Enqueue, FulfillReturns
      <3>2. \A k \in Hosts : k # h => cur'[k] = cur[k] /\ pc'[k] = pc[k]
        BY DEF PoolInv, TypeOK, Places, Enqueue, FulfillReturns
      <3>3. (\A w \in Workers : cur'[w] = cur[w]) /\ linked' = linked /\ pc[h] = "enqueue"
        BY DEF PoolInv, TypeOK, Places, Enqueue, FulfillReturns
      <3>4. PoolHolds(g)' <=> PoolHolds(g)
        <4>1. (\E i \in DOMAIN queue' : queue'[i] = g) <=>
              (\E i \in DOMAIN queue : queue[i] = g) \/ g = f
          BY <1>c DEF InQueue
        <4>2. (\E k \in Hosts : cur[k] = g /\ pc[k] = "enqueue") <=>
              (\E k \in Hosts : cur'[k] = g /\ pc'[k] = "enqueue") \/ g = f
          BY <1>a, <3>1, <3>2, <3>3
        <4> QED
          BY <3>3, <4>1, <4>2 DEF PoolHolds
      <3>5. ReceiptHolds(g)' <=> ReceiptHolds(g)
        BY <3>1, <3>2, <3>3 DEF ReceiptHolds
      <3> QED
        BY <3>4, <3>5
    <2> QED
      BY <2>1 DEF PoolInv, Counted, RefcountExact, Enqueue
  <1>7. Locked'
    BY DEF PoolInv, TypeOK, Places, Known, Locked, Enqueue, FulfillReturns
  <1>8. Breaking'
    BY DEF PoolInv, TypeOK, Places, Known, Locked, Breaking, Settled, Delivered, Enqueue,
       FulfillReturns
  <1>9. Delivered'
    BY DEF PoolInv, TypeOK, Places, Known, Owners, Owns, Locked, Delivered, Enqueue,
       FulfillReturns
  <1>10. Heaped'
    BY DEF PoolInv, TypeOK, Places, Known, Owners, Owns, Locked, Breaking, Settled, Delivered,
       Heaped, HeapSafety, Enqueue, FulfillReturns
  <1>11. Pending'
    <2>1. ASSUME NEW g \in Futures, g # f, Coming(g) PROVE Coming(g)'
      BY <1>a, <1>c, <2>1 DEF PoolInv, TypeOK, Places, Coming, Enqueue, FulfillReturns
    <2> QED
      BY <1>c, <2>1 DEF PoolInv, Pending, Coming, Enqueue
  <1>12. Closing'
    BY DEF PoolInv, TypeOK, Places, Known, Closing, Enqueue, FulfillReturns
  <1> QED
    BY <1>1, <1>2, <1>3, <1>4, <1>5, <1>6, <1>7, <1>8, <1>9, <1>10, <1>11, <1>12 DEF PoolInv

LEMMA WaitKeeps ==
  ASSUME PoolInv, NEW h \in Hosts, NEW f \in Futures, Wait(h, f)
  PROVE  PoolInv'
PROOF
  <1>1. TypeOK'
    BY DEF PoolInv, TypeOK, Places, Known, Wait
  <1>2. Places'
    BY DEF PoolInv, TypeOK, Places, Wait
  <1>3. Known'
    BY DEF PoolInv, TypeOK, Places, Known, Wait
  <1>4. Owners'
    BY DEF PoolInv, TypeOK, Places, Known, Owners, Owns, Closing, Wait
  <1>5. Pooled'
    BY DEF PoolInv, TypeOK, Places, Known, Owners, Owns, Pooled, InQueue, Wait
  <1>6. Counted'
    BY CountedFrame DEF PoolInv, TypeOK, Places, Closing, Wait
  <1>7. Locked'
    BY DEF PoolInv, TypeOK, Places, Known, Locked, Wait
  <1>8. Breaking'
    BY DEF PoolInv, TypeOK, Places, Known, Locked, Breaking, Settled, Delivered, Wait
  <1>9. Delivered'
    BY DEF PoolInv, TypeOK, Places, Known, Owners, Owns, Locked, Delivered, Wait
  <1>10. Heaped'
    BY DEF PoolInv, TypeOK, Places, Known, Owners, Owns, Locked, Breaking, Settled, Delivered,
       Heaped, HeapSafety, Wait
  <1>11. Pending'
    BY PendingFrame DEF PoolInv, TypeOK, Places, Wait
  <1>12. Closing'
    BY DEF PoolInv, TypeOK, Places, Known, Closing, Wait
  <1> QED
    BY <1>1, <1>2, <1>3, <1>4, <1>5, <1>6, <1>7, <1>8, <1>9, <1>10, <1>11, <1>12 DEF PoolInv

LEMMA WaitAgainKeeps ==
  ASSUME PoolInv, NEW h \in Hosts, WaitAgain(h)
  PROVE  PoolInv'
PROOF
  <1>1. TypeOK'
    BY DEF PoolInv, TypeOK, Places, Known, WaitAgain, WaitReturns
  <1>2. Places'
    BY DEF PoolInv, TypeOK, Places, WaitAgain, WaitReturns
  <1>3. Known'
    BY DEF PoolInv, TypeOK, Places, Known, WaitAgain, WaitReturns
  <1>4. Owners'
    BY DEF PoolInv, TypeOK, Places, Known, Owners, Owns, Closing, WaitAgain, WaitReturns
  <1>5. Pooled'
    BY DEF PoolInv, TypeOK, Places, Known, Owners, Owns, Pooled, InQueue, WaitAgain, WaitReturns
  <1>6. Counted'
    BY CountedFrame DEF PoolInv, TypeOK, Places, Closing, WaitAgain, WaitReturns
  <1>7. Locked'
    BY DEF PoolInv, TypeOK, Places, Known, Locked, WaitAgain, WaitReturns
  <1>8. Breaking'
    BY DEF PoolInv, TypeOK, Places, Known, Locked, Breaking, Settled, Delivered, WaitAgain,
       WaitReturns
  <1>9. Delivered'
    BY DEF PoolInv, TypeOK, Places, Known, Owners, Owns, Locked, Delivered, WaitAgain, WaitReturns
  <1>10. Heaped'
    BY DEF PoolInv, TypeOK, Places, Known, Owners, Owns, Locked, Breaking, Settled, Delivered,
       Heaped, HeapSafety, WaitAgain, WaitReturns
  <1>11. Pending'
    BY PendingFrame DEF PoolInv, TypeOK, Places, WaitAgain, WaitReturns
  <1>12. Closing'
    BY DEF PoolInv, TypeOK, Places, Known, Closing, WaitAgain, WaitReturns
  <1> QED
    BY <1>1, <1>2, <1>3, <1>4, <1>5, <1>6, <1>7, <1>8, <1>9, <1>10, <1>11, <1>12 DEF PoolInv

LEMMA WaitDeliverKeeps ==
  ASSUME PoolInv, NEW h \in Hosts, WaitDeliver(h)
  PROVE  PoolInv'
PROOF
  <1>1. TypeOK'
    BY DEF PoolInv, TypeOK, Places, Known, WaitDeliver, WaitReturns, NeedsWriteBack, Deliver
  <1>2. Places'
    BY DEF PoolInv, TypeOK, Places, WaitDeliver, WaitReturns, NeedsWriteBack, Deliver
  <1>3. Known'
    BY DEF PoolInv, TypeOK, Places, Known, WaitDeliver, WaitReturns, NeedsWriteBack, Deliver
  <1>4. Owners'
    BY DEF PoolInv, TypeOK, Places, Known, Owners, Owns, Closing, WaitDeliver, WaitReturns,
       NeedsWriteBack, Deliver
  <1>5. Pooled'
    BY DEF PoolInv, TypeOK, Places, Known, Owners, Owns, Pooled, InQueue, WaitDeliver,
       WaitReturns, NeedsWriteBack, Deliver
  <1>6. Counted'
    BY CountedFrame DEF PoolInv, TypeOK, Places, Closing, WaitDeliver, WaitReturns,
       NeedsWriteBack, Deliver
  <1>7. Locked'
    BY DEF PoolInv, TypeOK, Places, Known, Locked, WaitDeliver, WaitReturns, NeedsWriteBack,
       Deliver
  <1>8. Breaking'
    BY DEF PoolInv, TypeOK, Places, Known, Locked, Breaking, Settled, Delivered, WaitDeliver,
       WaitReturns, NeedsWriteBack, Deliver
  <1>9. Delivered'
    BY DEF PoolInv, TypeOK, Places, Known, Owners, Owns, Locked, Delivered, WaitDeliver,
       WaitReturns, NeedsWriteBack, Deliver
  <1>10. Heaped'
    BY DEF PoolInv, TypeOK, Places, Known, Owners, Owns, Locked, Breaking, Settled, Delivered,
       Heaped, HeapSafety, WaitDeliver, WaitReturns, NeedsWriteBack, Deliver
  <1>11. Pending'
    BY PendingFrame DEF PoolInv, TypeOK, Places, WaitDeliver, WaitReturns, NeedsWriteBack, Deliver
  <1>12. Closing'
    BY DEF PoolInv, TypeOK, Places, Known, Closing, WaitDeliver, WaitReturns, NeedsWriteBack,
       Deliver
  <1> QED
    BY <1>1, <1>2, <1>3, <1>4, <1>5, <1>6, <1>7, <1>8, <1>9, <1>10, <1>11, <1>12 DEF PoolInv

LEMMA WaitWriteBackKeeps ==
  ASSUME PoolInv, NEW h \in Hosts, WaitWriteBack(h)
  PROVE  PoolInv'
PROOF
  <1>a. heap[inst[cur[h]]]
    BY HeldIsCounted DEF PoolInv, Places, Heaped, HeapSafety, WaitWriteBack, NeedsWriteBack
  <1>1. TypeOK'
    BY DEF PoolInv, TypeOK, Places, Known, WaitWriteBack, NeedsWriteBack
  <1>2. Places'
    BY DEF PoolInv, TypeOK, Places, WaitWriteBack, NeedsWriteBack
  <1>3. Known'
    BY DEF PoolInv, TypeOK, Places, Known, WaitWriteBack, NeedsWriteBack
  <1>4. Owners'
    BY DEF PoolInv, TypeOK, Places, Known, Owners, Owns, Closing, WaitWriteBack, NeedsWriteBack
  <1>5. Pooled'
    BY DEF PoolInv, TypeOK, Places, Known, Owners, Owns, Pooled, InQueue, WaitWriteBack,
       NeedsWriteBack
  <1>6. Counted'
    BY CountedFrame DEF PoolInv, TypeOK, Places, Closing, WaitWriteBack, NeedsWriteBack
  <1>7. Locked'
    BY DEF PoolInv, TypeOK, Places, Known, Locked, WaitWriteBack, NeedsWriteBack
  <1>8. Breaking'
    BY DEF PoolInv, TypeOK, Places, Known, Locked, Breaking, Settled, Delivered, WaitWriteBack,
       NeedsWriteBack
  <1>9. Delivered'
    BY DEF PoolInv, TypeOK, Places, Known, Owners, Owns, Locked, Delivered, WaitWriteBack,
       NeedsWriteBack
  <1>10. Heaped'
    BY <1>a DEF PoolInv, TypeOK, Places, Known, Heaped, HeapSafety, WaitWriteBack
  <1>11. Pending'
    BY PendingFrame DEF PoolInv, TypeOK, Places, WaitWriteBack, NeedsWriteBack
  <1>12. Closing'
    BY DEF PoolInv, TypeOK, Places, Known, Closing, WaitWriteBack, NeedsWriteBack
  <1> QED
    BY <1>1, <1>2, <1>3, <1>4, <1>5, <1>6, <1>7, <1>8, <1>9, <1>10, <1>11, <1>12 DEF PoolInv

LEMMA WriteBackKeeps ==
  ASSUME PoolInv, NEW h \in Hosts, WriteBack(h)
  PROVE  PoolInv'
PROOF
  <1>1. TypeOK'
    BY DEF PoolInv, TypeOK, Places, Known, WriteBack, WaitReturns, Deliver
  <1>2. Places'
    BY DEF PoolInv, TypeOK, Places, WriteBack, WaitReturns, Deliver
  <1>3. Known'
    BY DEF PoolInv, TypeOK, Places, Known, WriteBack, WaitReturns, Deliver
  <1>4. Owners'
    BY DEF PoolInv, TypeOK, Places, Known, Owners, Owns, Closing, WriteBack, WaitReturns, Deliver
  <1>5. Pooled'
    BY DEF PoolInv, TypeOK, Places, Known, Owners, Owns, Pooled, InQueue, WriteBack, WaitReturns,
       Deliver
  <1>6. Counted'
    BY CountedFrame DEF PoolInv, TypeOK, Places, Closing, WriteBack, WaitReturns, Deliver
  <1>7. Locked'
    BY DEF PoolInv, TypeOK, Places, Known, Locked, WriteBack, WaitReturns, Deliver
  <1>8. Breaking'
    BY DEF PoolInv, TypeOK, Places, Known, Locked, Breaking, Settled, Delivered, WriteBack,
       WaitReturns, Deliver
  <1>9. Delivered'
    BY DEF PoolInv, TypeOK, Places, Known, Owners, Owns, Locked, Delivered, WriteBack,
       WaitReturns, Deliver
  <1>10. Heaped'
    BY DEF PoolInv, TypeOK, Places, Known, Owners, Owns, Locked, Breaking, Settled, Delivered,
       Heaped, HeapSafety, WriteBack, WaitReturns, Deliver
  <1>11. Pending'
    BY PendingFrame DEF PoolInv, TypeOK, Places, WriteBack, WaitReturns, Deliver
  <1>12. Closing'
    BY DEF PoolInv, TypeOK, Places, Known, Closing, WriteBack, WaitReturns, Deliver
  <1> QED
    BY <1>1, <1>2, <1>3, <1>4, <1>5, <1>6, <1>7, <1>8, <1>9, <1>10, <1>11, <1>12 DEF PoolInv

LEMMA ReleaseKeeps ==
  ASSUME PoolInv, NEW h \in Hosts, Release(h)
  PROVE  PoolInv'
PROOF
  <1>1. TypeOK'
    BY DEF PoolInv, TypeOK, Places, Known, Release
  <1>2. Places'
    BY DEF PoolInv, TypeOK, Places, Release
  <1>3. Known'
    BY DEF PoolInv, TypeOK, Places, Known, Release
  <1>4. Owners'
    BY DEF PoolInv, TypeOK, Places, Known, Owners, Owns, Closing, Release
  <1>5. Pooled'
    BY DEF PoolInv, TypeOK, Places, Known, Owners, Owns, Pooled, InQueue, Release
  <1>6. Counted'
    <2>1. ReceiptHolds(cur[h])' /\ ReceiptHolds(cur[h]) /\ cur[h] \in Futures
      BY DEF PoolInv, TypeOK, Places, Owners, Owns, ReceiptHolds, Release
    <2>2. ASSUME NEW g \in Futures
          PROVE  /\ PoolHolds(g)' <=> PoolHolds(g)
                 /\ g # cur[h] => (ReceiptHolds(g)' <=> ReceiptHolds(g))
      BY DEF PoolInv, TypeOK, Places, PoolHolds, ReceiptHolds, Release
    <2> QED
      BY <2>1, <2>2 DEF PoolInv, Counted, RefcountExact, Release
  <1>7. Locked'
    BY DEF PoolInv, TypeOK, Places, Known, Locked, Release
  <1>8. Breaking'
    BY DEF PoolInv, TypeOK, Places, Known, Locked, Breaking, Settled, Delivered, Release
  <1>9. Delivered'
    BY DEF PoolInv, TypeOK, Places, Known, Owners, Owns, Locked, Delivered, Release
  <1>10. Heaped'
    BY DEF PoolInv, TypeOK, Places, Known, Owners, Owns, Locked, Breaking, Settled, Delivered,
       Heaped, HeapSafety, Release
  <1>11. Pending'
    BY PendingFrame DEF PoolInv, TypeOK, Places, Release
  <1>12. Closing'
    BY DEF PoolInv, TypeOK, Places, Known, Closing, Release
  <1> QED
    BY <1>1, <1>2, <1>3, <1>4, <1>5, <1>6, <1>7, <1>8, <1>9, <1>10, <1>11, <1>12 DEF PoolInv

LEMMA HostUnrefKeeps ==
  ASSUME PoolInv, NEW h \in Hosts, FutureUnref(h, "idle")
  PROVE  PoolInv'
PROOF
  <1>a. PICK f \in Futures : cur[h] = f
    BY HeldIsCounted DEF PoolInv, Places, FutureUnref
  <1>b. born[f] /\ ~freed[f] /\ ~down /\ refcnt[f] \in 1 .. 2
    BY <1>a, HeldIsCounted DEF PoolInv, Places, FutureUnref
  <1>c. refcnt' = [refcnt EXCEPT ![f] = @ - 1] /\ freed' = [freed EXCEPT ![f] = (refcnt[f] = 1)]
    BY <1>a DEF FutureUnref
  <1>1. TypeOK'
    <2>1. refcnt' \in [Futures -> 0 .. 2]
      BY <1>b, <1>c DEF PoolInv, TypeOK
    <2> QED
      BY <2>1 DEF PoolInv, TypeOK, FutureUnref
  <1>2. Places'
    BY DEF PoolInv, TypeOK, Places, FutureUnref
  <1>3. Known'
    BY DEF PoolInv, TypeOK, Places, Known, FutureUnref
  <1>4. Owners'
    BY DEF PoolInv, TypeOK, Places, Known, Owners, Owns, Closing, FutureUnref
  <1>5. Pooled'
    BY DEF PoolInv, TypeOK, Places, Known, Owners, Owns, Pooled, InQueue, FutureUnref
  <1>6. Counted'
    <2>1. ReceiptHolds(f) /\ ~ReceiptHolds(f)'
      BY <1>a DEF PoolInv, TypeOK, Places, Owners, Owns, ReceiptHolds, FutureUnref
    <2>2. ASSUME NEW g \in Futures
          PROVE  /\ PoolHolds(g)' <=> PoolHolds(g)
                 /\ g # f => (ReceiptHolds(g)' <=> ReceiptHolds(g))
      BY <1>a DEF PoolInv, TypeOK, Places, PoolHolds, ReceiptHolds, FutureUnref
    <2>3. down' = down /\ born' = born
      BY DEF FutureUnref
    <2> QED
      BY <1>b, <1>c, <2>1, <2>2, <2>3 DEF PoolInv, TypeOK, Counted, RefcountExact
  <1>7. Locked'
    BY DEF PoolInv, TypeOK, Places, Known, Locked, FutureUnref
  <1>8. Breaking'
    BY DEF PoolInv, TypeOK, Places, Known, Locked, Breaking, Settled, Delivered, FutureUnref
  <1>9. Delivered'
    BY DEF PoolInv, TypeOK, Places, Known, Owners, Owns, Locked, Delivered, FutureUnref
  <1>10. Heaped'
    <2>1. \A g \in Futures : ~freed'[g] => ~freed[g]
      BY <1>b, <1>c DEF PoolInv, TypeOK
    <2> QED
      BY <2>1 DEF PoolInv, TypeOK, Places, Known, Heaped, HeapSafety, FutureUnref
  <1>11. Pending'
    BY PendingFrame DEF PoolInv, TypeOK, Places, FutureUnref
  <1>12. Closing'
    BY DEF PoolInv, TypeOK, Places, Known, Closing, FutureUnref
  <1> QED
    BY <1>1, <1>2, <1>3, <1>4, <1>5, <1>6, <1>7, <1>8, <1>9, <1>10, <1>11, <1>12 DEF PoolInv

LEMMA BreakLockKeeps ==
  ASSUME PoolInv, NEW h \in Hosts, NEW c \in Insts, BreakLock(h, c)
  PROVE  PoolInv'
PROOF
  <1>1. TypeOK'
    BY DEF PoolInv, TypeOK, Places, Known, BreakLock
  <1>2. Places'
    BY DEF PoolInv, TypeOK, Places, BreakLock
  <1>3. Known'
    BY DEF PoolInv, TypeOK, Places, Known, BreakLock
  <1>4. Owners'
    BY DEF PoolInv, TypeOK, Places, Known, Owners, Owns, Closing, BreakLock
  <1>5. Pooled'
    BY DEF PoolInv, TypeOK, Places, Known, Owners, Owns, Pooled, InQueue, BreakLock
  <1>6. Counted'
    BY CountedFrame DEF PoolInv, TypeOK, Places, Closing, BreakLock
  <1>7. Locked'
    BY DEF PoolInv, TypeOK, Places, Known, Locked, BreakLock
  <1>8. Breaking'
    BY DEF PoolInv, TypeOK, Places, Known, Locked, Breaking, Settled, Delivered, BreakLock
  <1>9. Delivered'
    BY DEF PoolInv, TypeOK, Places, Known, Owners, Owns, Locked, Delivered, BreakLock
  <1>10. Heaped'
    BY DEF PoolInv, TypeOK, Places, Known, Owners, Owns, Locked, Breaking, Settled, Delivered,
       Heaped, HeapSafety, BreakLock
  <1>11. Pending'
    BY PendingFrame DEF PoolInv, TypeOK, Places, BreakLock
  <1>12. Closing'
    BY DEF PoolInv, TypeOK, Places, Known, Closing, BreakLock
  <1> QED
    BY <1>1, <1>2, <1>3, <1>4, <1>5, <1>6, <1>7, <1>8, <1>9, <1>10, <1>11, <1>12 DEF PoolInv

LEMMA BreakForfeitKeeps ==
  ASSUME PoolInv, NEW h \in Hosts, NEW f \in Futures, BreakForfeit(h, f)
  PROVE  PoolInv'
PROOF
  <1>1. TypeOK'
    BY DEF PoolInv, TypeOK, Places, Known, BreakForfeit
  <1>2. Places'
    BY DEF PoolInv, TypeOK, Places, BreakForfeit
  <1>3. Known'
    BY DEF PoolInv, TypeOK, Places, Known, Breaking, BreakForfeit
  <1>4. Owners'
    BY DEF PoolInv, TypeOK, Places, Known, Owners, Owns, Closing, BreakForfeit
  <1>5. Pooled'
    BY DEF PoolInv, TypeOK, Places, Known, Owners, Owns, Pooled, InQueue, BreakForfeit
  <1>6. Counted'
    BY CountedFrame DEF PoolInv, TypeOK, Places, Closing, BreakForfeit
  <1>7. Locked'
    BY DEF PoolInv, TypeOK, Places, Known, Locked, BreakForfeit
  <1>8. Breaking'
    BY DEF PoolInv, TypeOK, Places, Known, Locked, Breaking, Settled, Delivered, BreakForfeit
  <1>9. Delivered'
    BY DEF PoolInv, TypeOK, Places, Known, Owners, Owns, Locked, Delivered, BreakForfeit
  <1>10. Heaped'
    BY DEF PoolInv, TypeOK, Places, Known, Owners, Owns, Locked, Breaking, Settled, Delivered,
       Heaped, HeapSafety, BreakForfeit
  <1>11. Pending'
    BY PendingFrame DEF PoolInv, TypeOK, Places, BreakForfeit
  <1>12. Closing'
    BY DEF PoolInv, TypeOK, Places, Known, Closing, BreakForfeit
  <1> QED
    BY <1>1, <1>2, <1>3, <1>4, <1>5, <1>6, <1>7, <1>8, <1>9, <1>10, <1>11, <1>12 DEF PoolInv

LEMMA BreakFreeKeeps ==
  ASSUME PoolInv, NEW h \in Hosts, BreakFree(h)
  PROVE  PoolInv'
PROOF
  <1>1. TypeOK'
    BY DEF PoolInv, TypeOK, Places, Known, BreakFree
  <1>2. Places'
    BY DEF PoolInv, TypeOK, Places, BreakFree
  <1>3. Known'
    BY DEF PoolInv, TypeOK, Places, Known, BreakFree
  <1>4. Owners'
    BY DEF PoolInv, TypeOK, Places, Known, Owners, Owns, Closing, BreakFree
  <1>5. Pooled'
    BY DEF PoolInv, TypeOK, Places, Known, Owners, Owns, Pooled, InQueue, BreakFree
  <1>6. Counted'
    BY CountedFrame DEF PoolInv, TypeOK, Places, Closing, BreakFree
  <1>7. Locked'
    BY DEF PoolInv, TypeOK, Places, Known, Locked, BreakFree
  <1>8. Breaking'
    BY DEF PoolInv, TypeOK, Places, Known, Locked, Breaking, Settled, Delivered, BreakFree
  <1>9. Delivered'
    BY DEF PoolInv, TypeOK, Places, Known, Owners, Owns, Locked, Delivered, BreakFree
  <1>10. Heaped'
    <2>1. PICK c \in Insts : c = bc[h] /\ mu[c] = h
      BY DEF PoolInv, TypeOK, Places, Locked, BreakFree
    <2>2. \A w \in Workers : pc[w] \in {"thunk", "finish"} => inst[cur[w]] # c
      BY <2>1 DEF PoolInv, Locked
    <2>3. \A f \in Futures : linked[f] /\ inst[f] = c => Settled(f)
      BY <2>1 DEF PoolInv, Breaking, BreakFree
    <2>4. \A g \in Hosts : pc[g] = "writeback" => inst[cur[g]] # c
      <3> SUFFICES ASSUME NEW g \in Hosts, pc[g] = "writeback" PROVE inst[cur[g]] # c
        OBVIOUS
      <3>1. linked[cur[g]] /\ cur[g] \in Futures /\ fmu[cur[g]] = g
        BY DEF PoolInv, TypeOK, Places, Owners, Owns, Locked
      <3> QED
        BY <2>3, <3>1 DEF Settled
    <2>5. \A f \in Futures : born[f] /\ ~waited[f] /\ done[f] /\ status[f] = "OK" => inst[f] # c
      BY <2>3 DEF PoolInv, Delivered, Closing, Settled, BreakFree
    <2>6. /\ heap' = [heap EXCEPT ![c] = FALSE] /\ broken' = [broken EXCEPT ![c] = TRUE]
          /\ pc' = [pc EXCEPT ![h] = "idle"] /\ UNCHANGED <<futv, cur, res>>
      BY <2>1 DEF BreakFree
    <2> QED
      BY <2>2, <2>4, <2>5, <2>6 DEF PoolInv, TypeOK, Places, Known, Heaped, HeapSafety
  <1>11. Pending'
    BY PendingFrame DEF PoolInv, TypeOK, Places, BreakFree
  <1>12. Closing'
    BY DEF PoolInv, TypeOK, Places, Known, Closing, BreakFree
  <1> QED
    BY <1>1, <1>2, <1>3, <1>4, <1>5, <1>6, <1>7, <1>8, <1>9, <1>10, <1>11, <1>12 DEF PoolInv

LEMMA ShutdownStopKeeps ==
  ASSUME PoolInv, NEW h \in Hosts, ShutdownStop(h)
  PROVE  PoolInv'
PROOF
  <1>1. TypeOK'
    BY DEF PoolInv, TypeOK, Places, Known, ShutdownStop, OthersIn
  <1>2. Places'
    BY DEF PoolInv, TypeOK, Places, ShutdownStop, OthersIn
  <1>3. Known'
    BY DEF PoolInv, TypeOK, Places, Known, ShutdownStop, OthersIn
  <1>4. Owners'
    BY DEF PoolInv, TypeOK, Places, Known, Owners, Owns, Closing, ShutdownStop, OthersIn
  <1>5. Pooled'
    BY DEF PoolInv, TypeOK, Places, Known, Owners, Owns, Pooled, InQueue, ShutdownStop, OthersIn
  <1>6. Counted'
    BY CountedFrame DEF PoolInv, TypeOK, Places, Closing, ShutdownStop, OthersIn
  <1>7. Locked'
    BY DEF PoolInv, TypeOK, Places, Known, Locked, ShutdownStop, OthersIn
  <1>8. Breaking'
    BY DEF PoolInv, TypeOK, Places, Known, Locked, Breaking, Settled, Delivered, ShutdownStop,
       OthersIn
  <1>9. Delivered'
    BY DEF PoolInv, TypeOK, Places, Known, Owners, Owns, Locked, Delivered, ShutdownStop, OthersIn
  <1>10. Heaped'
    BY DEF PoolInv, TypeOK, Places, Known, Owners, Owns, Locked, Breaking, Settled, Delivered,
       Heaped, HeapSafety, ShutdownStop, OthersIn
  <1>11. Pending'
    BY PendingFrame DEF PoolInv, TypeOK, Places, ShutdownStop, OthersIn
  <1>12. Closing'
    BY DEF PoolInv, TypeOK, Places, Known, Closing, ShutdownStop, OthersIn
  <1> QED
    BY <1>1, <1>2, <1>3, <1>4, <1>5, <1>6, <1>7, <1>8, <1>9, <1>10, <1>11, <1>12 DEF PoolInv

LEMMA ShutdownJoinKeeps ==
  ASSUME PoolInv, NEW h \in Hosts, ShutdownJoin(h)
  PROVE  PoolInv'
PROOF
  <1>1. TypeOK'
    BY DEF PoolInv, TypeOK, Places, Known, ShutdownJoin
  <1>2. Places'
    BY DEF PoolInv, TypeOK, Places, ShutdownJoin
  <1>3. Known'
    BY DEF PoolInv, TypeOK, Places, Known, ShutdownJoin
  <1>4. Owners'
    BY DEF PoolInv, TypeOK, Places, Known, Owners, Owns, Closing, ShutdownJoin
  <1>5. Pooled'
    BY DEF PoolInv, TypeOK, Places, Known, Owners, Owns, Pooled, InQueue, ShutdownJoin
  <1>6. Counted'
    BY CountedFrame DEF PoolInv, TypeOK, Places, Closing, ShutdownJoin
  <1>7. Locked'
    BY DEF PoolInv, TypeOK, Places, Known, Locked, ShutdownJoin
  <1>8. Breaking'
    BY DEF PoolInv, TypeOK, Places, Known, Locked, Breaking, Settled, Delivered, ShutdownJoin
  <1>9. Delivered'
    BY DEF PoolInv, TypeOK, Places, Known, Owners, Owns, Locked, Delivered, ShutdownJoin
  <1>10. Heaped'
    BY DEF PoolInv, TypeOK, Places, Known, Owners, Owns, Locked, Breaking, Settled, Delivered,
       Heaped, HeapSafety, ShutdownJoin
  <1>11. Pending'
    BY PendingFrame DEF PoolInv, TypeOK, Places, ShutdownJoin
  <1>12. Closing'
    BY DEF PoolInv, TypeOK, Places, Known, Closing, ShutdownJoin
  <1> QED
    BY <1>1, <1>2, <1>3, <1>4, <1>5, <1>6, <1>7, <1>8, <1>9, <1>10, <1>11, <1>12 DEF PoolInv

LEMMA ShutdownFreeKeeps ==
  ASSUME PoolInv, NEW h \in Hosts, ShutdownFree(h)
  PROVE  PoolInv'
PROOF
  <1>a. /\ \A w \in Workers : pc[w] = "exited" /\ cur[w] = None
        /\ \A k \in Hosts : cur[k] = None /\ (k # h => pc[k] = "idle")
        /\ queue = << >> /\ ~down /\ qstop
    BY DEF PoolInv, Places, Closing, ShutdownFree, OthersIn
  <1>b. \A f \in Futures : born[f] => freed[f] \/ linked[f]
    <2> SUFFICES ASSUME NEW f \in Futures, born[f], ~linked[f] PROVE freed[f]
      OBVIOUS
    <2>1. ~PoolHolds(f) /\ ~ReceiptHolds(f)
      BY <1>a DEF PoolHolds, ReceiptHolds
    <2> QED
      BY <1>a, <2>1 DEF PoolInv, TypeOK, Counted, RefcountExact
  <1>c. pc' = [pc EXCEPT ![h] = "idle"] /\ UNCHANGED <<cur, queue, qstop, born>>
    BY DEF ShutdownFree
  <1>1. TypeOK'
    BY DEF PoolInv, TypeOK, Places, Known, ShutdownFree, OthersIn
  <1>2. Places'
    BY DEF PoolInv, TypeOK, Places, ShutdownFree, OthersIn
  <1>3. Known'
    BY DEF PoolInv, TypeOK, Places, Known, ShutdownFree, OthersIn
  <1>4. Owners'
    BY DEF PoolInv, TypeOK, Places, Known, Owners, Owns, Closing, ShutdownFree, OthersIn
  <1>5. Pooled'
    BY DEF PoolInv, TypeOK, Places, Known, Owners, Owns, Pooled, InQueue, ShutdownFree, OthersIn
  <1>6. Counted'
    BY DEF Counted, RefcountExact, ShutdownFree
  <1>7. Locked'
    BY DEF PoolInv, TypeOK, Places, Known, Locked, ShutdownFree, OthersIn
  <1>8. Breaking'
    BY DEF PoolInv, TypeOK, Places, Known, Locked, Breaking, Settled, Delivered, ShutdownFree,
       OthersIn
  <1>9. Delivered'
    BY DEF PoolInv, TypeOK, Places, Known, Owners, Owns, Locked, Delivered, ShutdownFree, OthersIn
  <1>10. Heaped'
    <2>1. \A t \in Threads : pc'[t] \in {"exited", "idle"}
      BY <1>a, <1>c DEF PoolInv, TypeOK
    <2> QED
      BY <1>b, <2>1 DEF PoolInv, Heaped, HeapSafety, ShutdownFree
  <1>11. Pending'
    BY PendingFrame DEF PoolInv, TypeOK, Places, ShutdownFree, OthersIn
  <1>12. Closing'
    <2>1. (\A k \in Hosts : pc'[k] = "idle") /\ (\A w \in Workers : pc'[w] = "exited")
      BY <1>a, <1>c DEF PoolInv, TypeOK
    <2>2. \A f \in Futures : ~linked'[f] /\ ~issued'[f] /\ (born'[f] => freed'[f])
      BY <1>b, <1>c DEF ShutdownFree
    <2> QED
      BY <1>a, <1>c, <2>1, <2>2 DEF Closing
  <1> QED
    BY <1>1, <1>2, <1>3, <1>4, <1>5, <1>6, <1>7, <1>8, <1>9, <1>10, <1>11, <1>12 DEF PoolInv

LEMMA PopKeeps ==
  ASSUME PoolInv, NEW w \in Workers, Pop(w)
  PROVE  PoolInv'
PROOF
  <1>a. queue \in Seq(Futures) /\ queue # << >> /\ queue' = Tail(queue)
    BY DEF PoolInv, TypeOK, Pop
  <1>b. PICK f \in Futures : f = Head(queue)
    BY <1>a, TailFacts
  <1>c. \A g \in Futures : InQueue(g) <=> InQueue(g)' \/ g = f
    <2>1. \A i \in DOMAIN queue' : i + 1 \in DOMAIN queue /\ queue'[i] = queue[i + 1]
      BY <1>a, TailFacts
    <2>2. \A i \in DOMAIN queue : i = 1 \/ (i - 1 \in DOMAIN queue' /\ queue'[i - 1] = queue[i])
      BY <1>a, TailFacts
    <2>3. 1 \in DOMAIN queue /\ queue[1] = f
      BY <1>a, <1>b, TailFacts
    <2> QED
      BY <2>1, <2>2, <2>3 DEF InQueue
  <1>1. TypeOK'
    BY DEF PoolInv, TypeOK, Places, Known, Pop
  <1>2. Places'
    BY DEF PoolInv, TypeOK, Places, Pop
  <1>3. Known'
    BY DEF PoolInv, TypeOK, Places, Known, Pop
  <1>4. Owners'
    BY DEF PoolInv, TypeOK, Places, Known, Owners, Owns, Closing, Pop
  <1>5. Pooled'
    BY DEF PoolInv, TypeOK, Places, Known, Owners, Owns, Pooled, InQueue, Pop
  <1>6. Counted'
    <2>1. ASSUME NEW g \in Futures PROVE PoolHolds(g)' <=> PoolHolds(g)
      <3>1. \A x \in Workers : cur'[x] = IF x = w THEN f ELSE cur[x]
        BY <1>b DEF PoolInv, TypeOK, Pop
      <3>2. cur[w] = None /\ \A k \in Hosts : cur'[k] = cur[k] /\ pc'[k] = pc[k]
        BY DEF PoolInv, TypeOK, Places, Pop
      <3> QED
        BY <1>c, <3>1, <3>2 DEF PoolHolds, InQueue
    <2>2. ASSUME NEW g \in Futures PROVE ReceiptHolds(g)' <=> ReceiptHolds(g)
      BY DEF PoolInv, TypeOK, ReceiptHolds, Pop
    <2> QED
      BY <2>1, <2>2 DEF PoolInv, Counted, RefcountExact, Pop
  <1>7. Locked'
    BY DEF PoolInv, TypeOK, Places, Known, Locked, Pop
  <1>8. Breaking'
    BY DEF PoolInv, TypeOK, Places, Known, Locked, Breaking, Settled, Delivered, Pop
  <1>9. Delivered'
    BY DEF PoolInv, TypeOK, Places, Known, Owners, Owns, Locked, Delivered, Pop
  <1>10. Heaped'
    BY DEF PoolInv, TypeOK, Places, Known, Owners, Owns, Locked, Breaking, Settled, Delivered,
       Heaped, HeapSafety, Pop
  <1>11. Pending'
    <2>1. ASSUME NEW g \in Futures, Coming(g) PROVE Coming(g)'
      BY <1>b, <1>c, <2>1 DEF PoolInv, TypeOK, Places, Coming, Pop
    <2> QED
      BY <2>1 DEF PoolInv, Pending, Pop
  <1>12. Closing'
    BY DEF PoolInv, TypeOK, Places, Known, Closing, Pop
  <1> QED
    BY <1>1, <1>2, <1>3, <1>4, <1>5, <1>6, <1>7, <1>8, <1>9, <1>10, <1>11, <1>12 DEF PoolInv

LEMMA ExitKeeps ==
  ASSUME PoolInv, NEW w \in Workers, Exit(w)
  PROVE  PoolInv'
PROOF
  <1>1. TypeOK'
    BY DEF PoolInv, TypeOK, Places, Known, Exit
  <1>2. Places'
    BY DEF PoolInv, TypeOK, Places, Exit
  <1>3. Known'
    BY DEF PoolInv, TypeOK, Places, Known, Exit
  <1>4. Owners'
    BY DEF PoolInv, TypeOK, Places, Known, Owners, Owns, Closing, Exit
  <1>5. Pooled'
    BY DEF PoolInv, TypeOK, Places, Known, Owners, Owns, Pooled, InQueue, Exit
  <1>6. Counted'
    BY CountedFrame DEF PoolInv, TypeOK, Places, Closing, Exit
  <1>7. Locked'
    BY DEF PoolInv, TypeOK, Places, Known, Locked, Exit
  <1>8. Breaking'
    BY DEF PoolInv, TypeOK, Places, Known, Locked, Breaking, Settled, Delivered, Exit
  <1>9. Delivered'
    BY DEF PoolInv, TypeOK, Places, Known, Owners, Owns, Locked, Delivered, Exit
  <1>10. Heaped'
    BY DEF PoolInv, TypeOK, Places, Known, Owners, Owns, Locked, Breaking, Settled, Delivered,
       Heaped, HeapSafety, Exit
  <1>11. Pending'
    BY PendingFrame DEF PoolInv, TypeOK, Places, Exit
  <1>12. Closing'
    BY DEF PoolInv, TypeOK, Places, Known, Closing, Exit
  <1> QED
    BY <1>1, <1>2, <1>3, <1>4, <1>5, <1>6, <1>7, <1>8, <1>9, <1>10, <1>11, <1>12 DEF PoolInv

LEMMA TaskLockKeeps ==
  ASSUME PoolInv, NEW w \in Workers, TaskLock(w)
  PROVE  PoolInv'
PROOF
  <1>1. TypeOK'
    BY DEF PoolInv, TypeOK, Places, Known, TaskLock
  <1>2. Places'
    BY DEF PoolInv, TypeOK, Places, TaskLock
  <1>3. Known'
    BY DEF PoolInv, TypeOK, Places, Known, TaskLock
  <1>4. Owners'
    BY DEF PoolInv, TypeOK, Places, Known, Owners, Owns, Closing, TaskLock
  <1>5. Pooled'
    BY DEF PoolInv, TypeOK, Places, Known, Owners, Owns, Pooled, InQueue, TaskLock
  <1>6. Counted'
    BY CountedFrame DEF PoolInv, TypeOK, Places, Closing, TaskLock
  <1>7. Locked'
    BY DEF PoolInv, TypeOK, Places, Known, Locked, TaskLock
  <1>8. Breaking'
    BY DEF PoolInv, TypeOK, Places, Known, Locked, Breaking, Settled, Delivered, TaskLock
  <1>9. Delivered'
    BY DEF PoolInv, TypeOK, Places, Known, Owners, Owns, Locked, Delivered, TaskLock
  <1>10. Heaped'
    BY DEF PoolInv, TypeOK, Places, Known, Owners, Owns, Locked, Breaking, Settled, Delivered,
       Heaped, HeapSafety, TaskLock
  <1>11. Pending'
    BY PendingFrame DEF PoolInv, TypeOK, Places, TaskLock
  <1>12. Closing'
    BY DEF PoolInv, TypeOK, Places, Known, Closing, TaskLock
  <1> QED
    BY <1>1, <1>2, <1>3, <1>4, <1>5, <1>6, <1>7, <1>8, <1>9, <1>10, <1>11, <1>12 DEF PoolInv

LEMMA ThunkKeeps ==
  ASSUME PoolInv, NEW w \in Workers, Thunk(w)
  PROVE  PoolInv'
PROOF
  <1>1. TypeOK'
    BY DEF PoolInv, TypeOK, Places, Known, Thunk
  <1>2. Places'
    BY DEF PoolInv, TypeOK, Places, Thunk
  <1>3. Known'
    BY DEF PoolInv, TypeOK, Places, Known, Thunk
  <1>4. Owners'
    BY DEF PoolInv, TypeOK, Places, Known, Owners, Owns, Closing, Thunk
  <1>5. Pooled'
    BY DEF PoolInv, TypeOK, Places, Known, Owners, Owns, Pooled, InQueue, Thunk
  <1>6. Counted'
    BY CountedFrame DEF PoolInv, TypeOK, Places, Closing, Thunk
  <1>7. Locked'
    BY DEF PoolInv, TypeOK, Places, Known, Locked, Thunk
  <1>8. Breaking'
    BY DEF PoolInv, TypeOK, Places, Known, Locked, Breaking, Settled, Delivered, Thunk
  <1>9. Delivered'
    BY DEF PoolInv, TypeOK, Places, Known, Owners, Owns, Locked, Delivered, Thunk
  <1>10. Heaped'
    BY DEF PoolInv, TypeOK, Places, Known, Owners, Owns, Locked, Breaking, Settled, Delivered,
       Heaped, HeapSafety, Thunk
  <1>11. Pending'
    BY PendingFrame DEF PoolInv, TypeOK, Places, Thunk
  <1>12. Closing'
    BY DEF PoolInv, TypeOK, Places, Known, Closing, Thunk
  <1> QED
    BY <1>1, <1>2, <1>3, <1>4, <1>5, <1>6, <1>7, <1>8, <1>9, <1>10, <1>11, <1>12 DEF PoolInv

LEMMA TaskFinishKeeps ==
  ASSUME PoolInv, NEW w \in Workers, TaskFinish(w)
  PROVE  PoolInv'
PROOF
  <1>1. TypeOK'
    BY DEF PoolInv, TypeOK, Places, Known, TaskFinish, FutureFinish
  <1>2. Places'
    BY DEF PoolInv, TypeOK, Places, TaskFinish, FutureFinish
  <1>3. Known'
    BY DEF PoolInv, TypeOK, Places, Known, TaskFinish, FutureFinish
  <1>4. Owners'
    BY DEF PoolInv, TypeOK, Places, Known, Owners, Owns, Closing, TaskFinish, FutureFinish
  <1>5. Pooled'
    BY DEF PoolInv, TypeOK, Places, Known, Owners, Owns, Pooled, InQueue, TaskFinish, FutureFinish
  <1>6. Counted'
    BY CountedFrame DEF PoolInv, TypeOK, Places, Closing, TaskFinish, FutureFinish
  <1>7. Locked'
    BY DEF PoolInv, TypeOK, Places, Known, Locked, TaskFinish, FutureFinish
  <1>8. Breaking'
    BY DEF PoolInv, TypeOK, Places, Known, Locked, Breaking, Settled, Delivered, TaskFinish,
       FutureFinish
  <1>9. Delivered'
    BY DEF PoolInv, TypeOK, Places, Known, Owners, Owns, Locked, Delivered, TaskFinish,
       FutureFinish
  <1>10. Heaped'
    BY DEF PoolInv, TypeOK, Places, Known, Owners, Owns, Locked, Breaking, Settled, Delivered,
       Heaped, HeapSafety, TaskFinish, FutureFinish
  <1>11. Pending'
    <2>1. ASSUME NEW g \in Futures, g # cur[w], Coming(g) PROVE Coming(g)'
      BY <2>1, ComingFrame DEF PoolInv, TypeOK, Places, TaskFinish, FutureFinish
    <2> QED
      BY <2>1 DEF PoolInv, TypeOK, Pending, TaskFinish, FutureFinish
  <1>12. Closing'
    BY DEF PoolInv, TypeOK, Places, Known, Closing, TaskFinish, FutureFinish
  <1> QED
    BY <1>1, <1>2, <1>3, <1>4, <1>5, <1>6, <1>7, <1>8, <1>9, <1>10, <1>11, <1>12 DEF PoolInv

LEMMA TaskUnlockKeeps ==
  ASSUME PoolInv, NEW w \in Workers, TaskUnlock(w)
  PROVE  PoolInv'
PROOF
  <1>1. TypeOK'
    BY DEF PoolInv, TypeOK, Places, Known, TaskUnlock
  <1>2. Places'
    BY DEF PoolInv, TypeOK, Places, TaskUnlock
  <1>3. Known'
    BY DEF PoolInv, TypeOK, Places, Known, TaskUnlock
  <1>4. Owners'
    BY DEF PoolInv, TypeOK, Places, Known, Owners, Owns, Closing, TaskUnlock
  <1>5. Pooled'
    BY DEF PoolInv, TypeOK, Places, Known, Owners, Owns, Pooled, InQueue, TaskUnlock
  <1>6. Counted'
    BY CountedFrame DEF PoolInv, TypeOK, Places, Closing, TaskUnlock
  <1>7. Locked'
    BY DEF PoolInv, TypeOK, Places, Known, Locked, TaskUnlock
  <1>8. Breaking'
    BY DEF PoolInv, TypeOK, Places, Known, Locked, Breaking, Settled, Delivered, TaskUnlock
  <1>9. Delivered'
    BY DEF PoolInv, TypeOK, Places, Known, Owners, Owns, Locked, Delivered, TaskUnlock
  <1>10. Heaped'
    BY DEF PoolInv, TypeOK, Places, Known, Owners, Owns, Locked, Breaking, Settled, Delivered,
       Heaped, HeapSafety, TaskUnlock
  <1>11. Pending'
    BY PendingFrame DEF PoolInv, TypeOK, Places, TaskUnlock
  <1>12. Closing'
    BY DEF PoolInv, TypeOK, Places, Known, Closing, TaskUnlock
  <1> QED
    BY <1>1, <1>2, <1>3, <1>4, <1>5, <1>6, <1>7, <1>8, <1>9, <1>10, <1>11, <1>12 DEF PoolInv

LEMMA WorkerUnrefKeeps ==
  ASSUME PoolInv, NEW w \in Workers, FutureUnref(w, "pop")
  PROVE  PoolInv'
PROOF
  <1>a. PICK f \in Futures : cur[w] = f
    BY HeldIsCounted DEF PoolInv, Places, FutureUnref
  <1>b. born[f] /\ ~freed[f] /\ ~down /\ refcnt[f] \in 1 .. 2
    BY <1>a, HeldIsCounted DEF PoolInv, Places, FutureUnref
  <1>c. refcnt' = [refcnt EXCEPT ![f] = @ - 1] /\ freed' = [freed EXCEPT ![f] = (refcnt[f] = 1)]
    BY <1>a DEF FutureUnref
  <1>1. TypeOK'
    <2>1. refcnt' \in [Futures -> 0 .. 2]
      BY <1>b, <1>c DEF PoolInv, TypeOK
    <2> QED
      BY <2>1 DEF PoolInv, TypeOK, FutureUnref
  <1>2. Places'
    BY DEF PoolInv, TypeOK, Places, FutureUnref
  <1>3. Known'
    BY DEF PoolInv, TypeOK, Places, Known, FutureUnref
  <1>4. Owners'
    BY DEF PoolInv, TypeOK, Places, Known, Owners, Owns, Closing, FutureUnref
  <1>5. Pooled'
    BY DEF PoolInv, TypeOK, Places, Known, Owners, Owns, Pooled, InQueue, FutureUnref
  <1>6. Counted'
    <2>1. PoolHolds(f) /\ ~PoolHolds(f)'
      BY <1>a DEF PoolInv, TypeOK, Places, Pooled, InQueue, PoolHolds, FutureUnref
    <2>2. ASSUME NEW g \in Futures
          PROVE  /\ g # f => (PoolHolds(g)' <=> PoolHolds(g))
                 /\ ReceiptHolds(g)' <=> ReceiptHolds(g)
      BY <1>a DEF PoolInv, TypeOK, Places, PoolHolds, ReceiptHolds, FutureUnref
    <2>3. down' = down /\ born' = born
      BY DEF FutureUnref
    <2> QED
      BY <1>b, <1>c, <2>1, <2>2, <2>3 DEF PoolInv, TypeOK, Counted, RefcountExact
  <1>7. Locked'
    BY DEF PoolInv, TypeOK, Places, Known, Locked, FutureUnref
  <1>8. Breaking'
    BY DEF PoolInv, TypeOK, Places, Known, Locked, Breaking, Settled, Delivered, FutureUnref
  <1>9. Delivered'
    BY DEF PoolInv, TypeOK, Places, Known, Owners, Owns, Locked, Delivered, FutureUnref
  <1>10. Heaped'
    <2>1. \A g \in Futures : ~freed'[g] => ~freed[g]
      BY <1>b, <1>c DEF PoolInv, TypeOK
    <2> QED
      BY <2>1 DEF PoolInv, TypeOK, Places, Known, Heaped, HeapSafety, FutureUnref
  <1>11. Pending'
    BY PendingFrame DEF PoolInv, TypeOK, Places, FutureUnref
  <1>12. Closing'
    BY DEF PoolInv, TypeOK, Places, Known, Closing, FutureUnref
  <1> QED
    BY <1>1, <1>2, <1>3, <1>4, <1>5, <1>6, <1>7, <1>8, <1>9, <1>10, <1>11, <1>12 DEF PoolInv

LEMMA StutterKeeps == PoolInv /\ UNCHANGED vars => PoolInv'
PROOF
  <1> SUFFICES ASSUME PoolInv, UNCHANGED vars PROVE PoolInv'
    OBVIOUS
  <1> USE DEF vars
  <1>1. TypeOK' /\ Places' /\ Known'
    BY DEF PoolInv, TypeOK, Places, Known
  <1>2. Owners' /\ Pooled' /\ Locked'
    BY DEF PoolInv, Owners, Owns, Pooled, InQueue, Locked
  <1>3. Counted' /\ Pending'
    BY CountedFrame, PendingFrame DEF PoolInv
  <1>4. Breaking' /\ Delivered' /\ Heaped' /\ Closing'
    BY DEF PoolInv, Breaking, Settled, Delivered, Heaped, HeapSafety, Closing
  <1> QED
    BY <1>1, <1>2, <1>3, <1>4 DEF PoolInv

LEMMA HostCallKeeps ==
  ASSUME PoolInv, NEW h \in Hosts, HostCall(h)
  PROVE  PoolInv'
PROOF
  BY FutureNewKeeps, WaitKeeps, BreakLockKeeps, ShutdownStopKeeps DEF HostCall

LEMMA HostStepKeeps ==
  ASSUME PoolInv, NEW h \in Hosts, HostStep(h)
  PROVE  PoolInv'
PROOF
  BY ValidateKeeps, RefuseKeeps, HoldKeeps, EnqueueKeeps, WaitAgainKeeps, WaitDeliverKeeps,
     WaitWriteBackKeeps, WriteBackKeeps, ReleaseKeeps, HostUnrefKeeps, BreakForfeitKeeps,
     BreakFreeKeeps, ShutdownJoinKeeps, ShutdownFreeKeeps
  DEF HostStep

LEMMA WorkerStepKeeps ==
  ASSUME PoolInv, NEW w \in Workers, WorkerStep(w)
  PROVE  PoolInv'
PROOF
  BY PopKeeps, ExitKeeps, TaskLockKeeps, ThunkKeeps, TaskFinishKeeps, TaskUnlockKeeps,
     WorkerUnrefKeeps
  DEF WorkerStep

LEMMA NextPoolInv == PoolInv /\ [Next]_vars => PoolInv'
PROOF
  BY HostCallKeeps, HostStepKeeps, WorkerStepKeeps, StutterKeeps DEF Next, Finished

-----------------------------------------------------------------------------
(* What follows.                                                            *)

LEMMA PoolInvHolds == Spec => []PoolInv
PROOF
  BY InitPoolInv, NextPoolInv, PTL DEF Spec

\* The locks, the futures, the queue and the threads keep their types, the
\* reference count its range.
THEOREM PoolTypes == Spec => []TypeOK
PROOF
  <1>1. PoolInv => TypeOK
    BY DEF PoolInv
  <1> QED
    BY <1>1, PoolInvHolds, PTL

\* No thunk, write back or untaken OK receipt reaches into a heap that a break
\* freed (run_task, geas_future_wait, geas_contract_break).
THEOREM NoFreedHeap == Spec => []HeapSafety
PROOF
  <1>1. PoolInv => HeapSafety
    BY DEF PoolInv, Heaped
  <1> QED
    BY <1>1, PoolInvHolds, PTL

\* No thread, queue, list, break or host program still has a future that
\* future_unref or shutdown freed.
THEOREM NoFreedFuture == Spec => []FutureSafety
PROOF
  BY HeldIsNotFreed, PoolInvHolds, PTL

\* f->refcnt is the number of parties that hold f, in spite of the plain write
\* outside every lock that sets it to 2.
THEOREM CountIsExact == Spec => []RefcountExact
PROOF
  <1>1. PoolInv => RefcountExact
    BY DEF PoolInv, Counted
  <1> QED
    BY <1>1, PoolInvHolds, PTL

\* However many threads wait on a receipt, one gets it, and an OK it gets is one a
\* thunk produced (geas_future_wait against geas_contract_break).
THEOREM OneDelivery == Spec => []DeliveredOnce
PROOF
  <1>1. PoolInv => DeliveredOnce
    <2> SUFFICES ASSUME PoolInv, NEW f \in Futures
                 PROVE  ndeliv[f] <= 1 /\ (got[f] = "OK" => status[f] = "OK" /\ ran[f])
      BY DEF DeliveredOnce
    <2>1. ndeliv[f] \in {0, 1}
      BY DEF PoolInv, Delivered
    <2>2. got[f] = "OK" => waited[f]
      BY DEF PoolInv, Delivered
    <2> QED
      BY <2>1, <2>2 DEF PoolInv, Delivered
  <1> QED
    BY <1>1, PoolInvHolds, PTL

LEMMA PoolInvDrains == PoolInv => ShutdownDrains
PROOF
  <1> SUFFICES ASSUME PoolInv PROVE ShutdownDrains
    OBVIOUS
  <1>1. ASSUME \A w \in Workers : pc[w] = "exited", NEW f \in Futures, born[f]
        PROVE  done[f]
    <2>1. qstop /\ queue = << >>
      BY <1>1 DEF PoolInv, Closing
    <2>2. ~Coming(f)
      BY <1>1, <2>1 DEF PoolInv, Closing, Coming, InQueue
    <2> QED
      BY <1>1, <2>2 DEF PoolInv, Pending
  <1>2. (\A w \in Workers : pc[w] = "exited") => queue = << >>
    BY DEF PoolInv, Closing
  <1> QED
    BY <1>1, <1>2 DEF PoolInv, Closing, ShutdownDrains

\* When the workers are gone nothing is queued and nothing is without an outcome;
\* when geas_runtime_shutdown returns, no future struct is left.
THEOREM NothingStranded == Spec => []ShutdownDrains
PROOF
  BY PoolInvDrains, PoolInvHolds, PTL

\* A published outcome is changed by nothing but the forfeit of an untaken receipt.
THEOREM OutcomesStand == Spec => OutcomeStands
PROOF
  <1> DEFINE Stands == \A f \in Futures : done[f] =>
                         /\ done'[f]
                         /\ status'[f] # status[f] => ~waited[f] /\ status'[f] = "ERR"
  <1>1. ASSUME PoolInv, NEW h \in Hosts, HostCall(h) PROVE Stands
    BY <1>1 DEF HostCall, FutureNew, Wait, BreakLock, ShutdownStop
  <1>2. ASSUME PoolInv, NEW h \in Hosts, HostStep(h) PROVE Stands
    <2>1. CASE Refuse(h)
      BY <1>2, <2>1 DEF PoolInv, TypeOK, Refuse, FutureFinish
    <2>2. ASSUME NEW f \in Futures, BreakForfeit(h, f) PROVE Stands
      BY <1>2, <2>2 DEF PoolInv, TypeOK, BreakForfeit
    <2>3. CASE UNCHANGED <<done, status>>
      BY <2>3
    <2> QED
      BY <1>2, <2>1, <2>2, <2>3
      DEF HostStep, Validate, Hold, Enqueue, WaitAgain, WaitDeliver, WaitWriteBack, WriteBack,
          Release, FutureUnref, BreakFree, ShutdownJoin, ShutdownFree
  <1>3. ASSUME PoolInv, NEW w \in Workers, WorkerStep(w) PROVE Stands
    <2>1. CASE TaskFinish(w)
      BY <1>3, <2>1 DEF PoolInv, TypeOK, TaskFinish, FutureFinish
    <2>2. CASE UNCHANGED <<done, status>>
      BY <2>2
    <2> QED
      BY <1>3, <2>1, <2>2 DEF WorkerStep, Pop, Exit, TaskLock, Thunk, TaskUnlock, FutureUnref
  <1>4. PoolInv /\ [Next]_vars => [Stands]_vars
    BY <1>1, <1>2, <1>3 DEF Next, Finished, vars
  <1> QED
    BY <1>4, PoolInvHolds, PTL DEF Spec, OutcomeStands

-----------------------------------------------------------------------------
(***************************************************************************)
(* FuturePool implements Receipts, for any threads, instances and futures: *)
(* the initial states map to initial states and every step of a thread is  *)
(* one step of Receipts or none.                                           *)
(***************************************************************************)
USE DEF Making, HostHas, WorkerHas

\* The refinement mapping of FuturePool, as values of its own.
outcomes == [f \in Futures |-> OutcomeOf(f)]
reclaims == [c \in Insts |-> ~heap[c]]

\* What the mapping reads.
mapped == <<born, freed, done, status, got, inst, heap>>

LEMMA OutcomeCases ==
  ASSUME PoolInv, NEW f \in Futures
  PROVE  /\ OutcomeOf(f) = "unborn" <=> ~born[f]
         /\ OutcomeOf(f) = "gone" <=> freed[f]
         /\ OutcomeOf(f) = "pending" <=> born[f] /\ ~freed[f] /\ ~done[f]
         /\ OutcomeOf(f) = "ok" <=> born[f] /\ ~freed[f] /\ done[f] /\ status[f] = "OK"
         /\ OutcomeOf(f) = "err" <=> born[f] /\ ~freed[f] /\ done[f] /\ status[f] # "OK"
PROOF
  <1>1. freed[f] => born[f]
    BY DEF PoolInv, Known
  <1> QED
    BY <1>1 DEF OutcomeOf

\* The outcome of a future nothing happened to.
LEMMA OutcomeFrame ==
  ASSUME NEW f \in Futures, born'[f] = born[f], freed'[f] = freed[f], done'[f] = done[f],
         status'[f] = status[f]
  PROVE  OutcomeOf(f)' = OutcomeOf(f)
PROOF
  BY DEF OutcomeOf

LEMMA OutcomeMoves ==
  ASSUME NEW f \in Futures, NEW o, OutcomeOf(f)' = o,
         \A g \in Futures \ {f} : /\ born'[g] = born[g] /\ freed'[g] = freed[g]
                                  /\ done'[g] = done[g] /\ status'[g] = status[g]
  PROVE  outcomes' = [outcomes EXCEPT ![f] = o]
PROOF
  <1>1. \A g \in Futures : g # f => OutcomeOf(g)' = OutcomeOf(g)
    BY OutcomeFrame
  <1> QED
    BY <1>1 DEF outcomes

LEMMA QuietStutters == UNCHANGED mapped => UNCHANGED R!rvars
PROOF
  <1> SUFFICES ASSUME UNCHANGED mapped PROVE UNCHANGED R!rvars
    OBVIOUS
  <1>1. \A f \in Futures : OutcomeOf(f)' = OutcomeOf(f)
    BY OutcomeFrame DEF mapped
  <1> QED
    BY <1>1 DEF R!rvars, mapped

LEMMA InitMaps == Init => R!Init
PROOF
  BY DEF Init, R!Init, OutcomeOf

-----------------------------------------------------------------------------
(* One lemma per action that is a step of Receipts.                         *)

LEMMA FutureNewMaps ==
  ASSUME PoolInv, PoolInv', NEW h \in Hosts, NEW c \in Insts, NEW f \in Futures,
         NEW m \in {"async", "sync"}, FutureNew(h, c, f, m)
  PROVE  R!Issue(f, c)
PROOF
  <1>1. OutcomeOf(f) = "unborn"
    BY OutcomeCases DEF FutureNew
  <1>2. born'[f] /\ ~freed'[f] /\ ~done'[f]
    BY DEF PoolInv, TypeOK, Known, FutureNew
  <1>3. OutcomeOf(f)' = "pending"
    BY <1>2 DEF OutcomeOf
  <1>4. outcomes' = [outcomes EXCEPT ![f] = "pending"]
    BY <1>3, OutcomeMoves DEF PoolInv, TypeOK, FutureNew
  <1> QED
    BY <1>1, <1>4 DEF R!Issue, outcomes, FutureNew

\* future_finish, by a host that refuses or a worker.
LEMMA FinishMaps ==
  ASSUME PoolInv, PoolInv', NEW f \in Futures, NEW st \in {"OK", "ERR"},
         born[f], ~freed[f], st = "OK" => heap[inst[f]],
         FutureFinish(f, st), UNCHANGED <<born, freed, got, inst, heap>>
  PROVE  (\E o \in {"ok", "err"} : R!Settle(f, o)) \/ UNCHANGED R!rvars
PROOF
  <1>1. CASE done[f]
    <2>1. UNCHANGED mapped
      BY <1>1 DEF PoolInv, TypeOK, FutureFinish, mapped
    <2> QED
      BY <2>1, QuietStutters
  <1>2. CASE ~done[f]
    <2> DEFINE o == IF st = "OK" THEN "ok" ELSE "err"
    <2>1. OutcomeOf(f) = "pending"
      BY <1>2, OutcomeCases
    <2>2. born'[f] /\ ~freed'[f] /\ done'[f] /\ status'[f] = st
      BY <1>2 DEF PoolInv, TypeOK, FutureFinish
    <2>3. OutcomeOf(f)' = o
      BY <2>2 DEF OutcomeOf
    <2>4. outcomes' = [outcomes EXCEPT ![f] = o]
      BY <2>3, OutcomeMoves DEF PoolInv, TypeOK, FutureFinish
    <2>5. inst[f] \in Insts
      BY DEF PoolInv, TypeOK, Known
    <2>6. R!Settle(f, o)
      BY <2>1, <2>4, <2>5 DEF R!Settle, outcomes
    <2> QED
      BY <2>6
  <1> QED
    BY <1>1, <1>2

LEMMA RefuseMaps ==
  ASSUME PoolInv, PoolInv', NEW h \in Hosts, Refuse(h)
  PROVE  (\E f \in Futures, o \in {"ok", "err"} : R!Settle(f, o)) \/ UNCHANGED R!rvars
PROOF
  <1>1. PICK f \in Futures : f = cur[h] /\ born[f] /\ ~freed[f]
    BY HeldIsCounted DEF PoolInv, Places, Refuse
  <1> QED
    BY <1>1, FinishMaps DEF Refuse

LEMMA TaskFinishMaps ==
  ASSUME PoolInv, PoolInv', NEW w \in Workers, TaskFinish(w)
  PROVE  (\E f \in Futures, o \in {"ok", "err"} : R!Settle(f, o)) \/ UNCHANGED R!rvars
PROOF
  <1>1. PICK f \in Futures : f = cur[w] /\ born[f] /\ ~freed[f]
    BY HeldIsCounted DEF PoolInv, Places, TaskFinish
  <1>2. PICK st \in {"OK", "ERR"} : st = res[w]
    BY DEF PoolInv, TypeOK
  <1>3. st = "OK" => heap[inst[f]]
    BY <1>1, <1>2 DEF PoolInv, Heaped, TaskFinish
  <1> QED
    BY <1>1, <1>2, <1>3, FinishMaps DEF TaskFinish

\* A delivery: of the outcome itself, or of what the write back made of an OK.
LEMMA DeliverMaps ==
  ASSUME PoolInv, NEW f \in Futures, NEW st \in {"OK", "ERR"},
         born[f], ~freed[f], done[f], got[f] = "none",
         st = "OK" => status[f] = "OK", status[f] = "OK" => heap[inst[f]],
         got' = [got EXCEPT ![f] = st], UNCHANGED <<born, freed, done, status, inst, heap>>
  PROVE  R!Take(f, st)
PROOF
  <1>1. OutcomeOf(f) \in {"ok", "err"} /\ (OutcomeOf(f) = "ok" <=> status[f] = "OK")
    BY OutcomeCases
  <1>2. outcomes' = outcomes
    BY OutcomeFrame DEF outcomes
  <1>3. inst[f] \in Insts
    BY DEF PoolInv, TypeOK, Known
  <1> QED
    BY <1>1, <1>2, <1>3 DEF R!Take, R!Untaken, outcomes

LEMMA WaitDeliverMaps ==
  ASSUME PoolInv, NEW h \in Hosts, WaitDeliver(h)
  PROVE  \E f \in Futures, t \in {"OK", "ERR"} : R!Take(f, t)
PROOF
  <1>1. PICK f \in Futures : f = cur[h] /\ born[f] /\ ~freed[f]
    BY HeldIsCounted DEF PoolInv, Places, WaitDeliver
  <1>2. PICK st \in {"OK", "ERR"} : st = status[f]
    BY DEF PoolInv, TypeOK
  <1>3. done[f] /\ ~waited[f] /\ got' = [got EXCEPT ![f] = st]
    BY <1>1, <1>2 DEF WaitDeliver, Deliver
  <1>4. got[f] = "none" /\ (status[f] = "OK" => heap[inst[f]])
    BY <1>1, <1>3 DEF PoolInv, Delivered, Heaped, HeapSafety
  <1> QED
    BY <1>1, <1>2, <1>3, <1>4, DeliverMaps DEF WaitDeliver

LEMMA WriteBackMaps ==
  ASSUME PoolInv, NEW h \in Hosts, WriteBack(h)
  PROVE  \E f \in Futures, t \in {"OK", "ERR"} : R!Take(f, t)
PROOF
  <1>1. PICK f \in Futures : f = cur[h] /\ born[f] /\ ~freed[f]
    BY HeldIsCounted DEF PoolInv, Places, WriteBack
  <1>2. PICK st \in {"OK", "ERR"} : got' = [got EXCEPT ![f] = st]
    BY <1>1 DEF WriteBack, Deliver
  <1>3. fmu[f] # None
    BY <1>1 DEF PoolInv, Locked, WriteBack
  <1>4. done[f] /\ got[f] = "none" /\ status[f] = "OK" /\ heap[inst[f]]
    BY <1>1, <1>3 DEF PoolInv, Delivered, Heaped, HeapSafety, WriteBack
  <1> QED
    BY <1>1, <1>2, <1>4, DeliverMaps DEF WriteBack

\* The last hold is dropped on a receipt that was taken.
LEMMA UnrefMaps ==
  ASSUME PoolInv, NEW t \in Threads, NEW next, FutureUnref(t, next), cur[t] # None,
         t \in Hosts => ~linked[cur[t]]
  PROVE  (\E f \in Futures : R!Drop(f)) \/ UNCHANGED R!rvars
PROOF
  <1>1. PICK f \in Futures : /\ f = cur[t] /\ born[f] /\ ~freed[f] /\ ~down
                            /\ refcnt[f] \in 1 .. 2
    BY HeldIsCounted
  <1>2. CASE refcnt[f] # 1
    <2>1. UNCHANGED mapped
      BY <1>1, <1>2 DEF PoolInv, TypeOK, FutureUnref, mapped
    <2> QED
      BY <2>1, QuietStutters
  <1>3. CASE refcnt[f] = 1
    <2>1. ~linked[f]
      <3>1. t \in Workers => PoolHolds(f)
        BY <1>1 DEF PoolHolds
      <3> QED
        BY <1>1, <1>3, <3>1 DEF PoolInv, Counted, RefcountExact, ReceiptHolds
    <2>2. waited[f] /\ fmu[f] = None
      BY <1>1, <2>1 DEF PoolInv, Delivered, FutureUnref
    <2>3. done[f] /\ got[f] # "none"
      BY <2>2 DEF PoolInv, Delivered
    <2>4. OutcomeOf(f) \in {"ok", "err"}
      BY <1>1, <2>3, OutcomeCases
    <2>5. OutcomeOf(f)' = "gone"
      <3>1. born'[f] /\ freed'[f]
        BY <1>1, <1>3 DEF PoolInv, TypeOK, FutureUnref
      <3> QED
        BY <3>1 DEF OutcomeOf
    <2>6. outcomes' = [outcomes EXCEPT ![f] = "gone"]
      BY <1>1, <2>5, OutcomeMoves DEF PoolInv, TypeOK, FutureUnref
    <2>7. R!Drop(f)
      BY <2>3, <2>4, <2>6 DEF R!Drop, R!Untaken, outcomes, FutureUnref
    <2> QED
      BY <2>7
  <1> QED
    BY <1>2, <1>3

LEMMA BreakForfeitMaps ==
  ASSUME PoolInv, NEW h \in Hosts, NEW f \in Futures, BreakForfeit(h, f)
  PROVE  R!Forfeit(f) \/ UNCHANGED R!rvars
PROOF
  <1>1. linked[f] /\ born[f] /\ ~freed[f]
    BY HeldIsNotFreed DEF PoolInv, Breaking, Known, FutureSafety, BreakForfeit
  <1>2. CASE waited[f] \/ (done[f] /\ status[f] = "ERR")
    <2>1. UNCHANGED mapped
      BY <1>2 DEF PoolInv, TypeOK, BreakForfeit, mapped
    <2> QED
      BY <2>1, QuietStutters
  <1>3. CASE ~waited[f] /\ ~(done[f] /\ status[f] = "ERR")
    <2>1. OutcomeOf(f) \in {"pending", "ok"}
      BY <1>1, <1>3, OutcomeCases DEF PoolInv, TypeOK
    <2>2. got[f] = "none"
      BY <1>3 DEF PoolInv, Delivered
    <2>3. OutcomeOf(f)' = "err"
      <3>1. born'[f] /\ ~freed'[f] /\ done'[f] /\ status'[f] = "ERR"
        BY <1>1, <1>3 DEF PoolInv, TypeOK, BreakForfeit
      <3> QED
        BY <3>1 DEF OutcomeOf
    <2>4. outcomes' = [outcomes EXCEPT ![f] = "err"]
      BY <2>3, OutcomeMoves DEF PoolInv, TypeOK, BreakForfeit
    <2>5. R!Forfeit(f)
      BY <2>1, <2>2, <2>4 DEF R!Forfeit, R!Untaken, outcomes, BreakForfeit
    <2> QED
      BY <2>5
  <1> QED
    BY <1>2, <1>3

LEMMA BreakFreeMaps ==
  ASSUME PoolInv, NEW h \in Hosts, BreakFree(h)
  PROVE  \E c \in Insts : R!Reclaim(c)
PROOF
  <1>1. PICK c \in Insts : c = bc[h]
    BY DEF PoolInv, TypeOK, Places, BreakFree
  <1>2. ASSUME NEW f \in Futures, inst[f] = c
        PROVE  got[f] # "none" \/ OutcomeOf(f) = "err"
    <2>1. born[f]
      BY <1>2 DEF PoolInv, Known
    <2>2. CASE linked[f]
      <3>1. Settled(f)
        BY <1>1, <1>2, <2>2 DEF PoolInv, Breaking, BreakFree
      <3>2. ~freed[f]
        BY <2>2, HeldIsNotFreed DEF FutureSafety
      <3> QED
        BY <2>1, <3>1, <3>2, OutcomeCases DEF Settled, PoolInv, Delivered
    <2>3. CASE ~linked[f]
      <3>1. waited[f]
        BY <2>1, <2>3 DEF PoolInv, Delivered, Closing, BreakFree
      <3>2. fmu[f] = None
        BY <2>3 DEF PoolInv, TypeOK, Places, Locked, Owners, Owns
      <3> QED
        BY <3>1, <3>2 DEF PoolInv, Delivered
    <2> QED
      BY <2>2, <2>3
  <1>3. outcomes' = outcomes
    BY OutcomeFrame DEF outcomes, BreakFree
  <1>4. reclaims' = [reclaims EXCEPT ![c] = TRUE]
    BY <1>1 DEF PoolInv, TypeOK, reclaims, BreakFree
  <1>5. R!Reclaim(c)
    BY <1>2, <1>3, <1>4 DEF R!Reclaim, R!Untaken, outcomes, reclaims, BreakFree
  <1> QED
    BY <1>5

LEMMA ShutdownFreeMaps ==
  ASSUME PoolInv, PoolInv', NEW h \in Hosts, ShutdownFree(h)
  PROVE  R!Close
PROOF
  <1>1. \A w \in Workers : pc[w] = "exited"
    BY DEF PoolInv, Closing, ShutdownFree
  <1>2. \A f \in Futures : born[f] => done[f]
    BY <1>1, PoolInvDrains DEF ShutdownDrains
  <1>3. \A f \in Futures : OutcomeOf(f) # "pending"
    BY <1>2, OutcomeCases
  <1>4. ASSUME NEW f \in Futures
        PROVE  OutcomeOf(f)' = IF OutcomeOf(f) = "unborn" THEN "unborn" ELSE "gone"
    <2>1. born'[f] = born[f] /\ (born[f] <=> freed'[f])
      BY DEF PoolInv, Known, Closing, ShutdownFree
    <2>2. OutcomeOf(f) = "unborn" <=> ~born[f]
      BY OutcomeCases
    <2>3. CASE born[f]
      <3>1. OutcomeOf(f)' = "gone"
        BY <2>1, <2>3 DEF OutcomeOf
      <3> QED
        BY <2>2, <2>3, <3>1
    <2>4. CASE ~born[f]
      <3>1. OutcomeOf(f)' = "unborn"
        BY <2>1, <2>4 DEF OutcomeOf
      <3> QED
        BY <2>2, <2>4, <3>1
    <2> QED
      BY <2>3, <2>4
  <1> QED
    BY <1>3, <1>4 DEF R!Close, ShutdownFree

-----------------------------------------------------------------------------
(* Every step.                                                              *)

LEMMA StepMaps == PoolInv /\ PoolInv' /\ [Next]_vars => [R!Next]_(R!rvars)
PROOF
  <1> SUFFICES ASSUME PoolInv, PoolInv', [Next]_vars PROVE R!Next \/ UNCHANGED R!rvars
    OBVIOUS
  <1>1. ASSUME NEW h \in Hosts, HostCall(h) PROVE R!Next \/ UNCHANGED R!rvars
    <2>1. ASSUME NEW c \in Insts, NEW f \in Futures, NEW m \in {"async", "sync"},
                 FutureNew(h, c, f, m)
          PROVE  R!Next
      BY <2>1, FutureNewMaps DEF R!Next
    <2>2. CASE UNCHANGED mapped
      BY <2>2, QuietStutters
    <2> QED
      BY <1>1, <2>1, <2>2 DEF HostCall, Wait, BreakLock, ShutdownStop, mapped
  <1>2. ASSUME NEW h \in Hosts, HostStep(h) PROVE R!Next \/ UNCHANGED R!rvars
    <2>1. CASE Refuse(h)
      BY <2>1, RefuseMaps DEF R!Next
    <2>2. CASE WaitDeliver(h) \/ WriteBack(h)
      BY <2>2, WaitDeliverMaps, WriteBackMaps DEF R!Next
    <2>3. CASE FutureUnref(h, "idle")
      <3>1. cur[h] # None /\ ~linked[cur[h]]
        BY <2>3 DEF PoolInv, Places, Owners, Owns, FutureUnref
      <3> QED
        BY <2>3, <3>1, UnrefMaps DEF R!Next
    <2>4. ASSUME NEW f \in Futures, BreakForfeit(h, f) PROVE R!Next \/ UNCHANGED R!rvars
      BY <2>4, BreakForfeitMaps DEF R!Next
    <2>5. CASE BreakFree(h)
      BY <2>5, BreakFreeMaps DEF R!Next
    <2>6. CASE ShutdownFree(h)
      BY <2>6, ShutdownFreeMaps DEF R!Next
    <2>7. CASE UNCHANGED mapped
      BY <2>7, QuietStutters
    <2> QED
      BY <1>2, <2>1, <2>2, <2>3, <2>4, <2>5, <2>6, <2>7
      DEF HostStep, Validate, Hold, Enqueue, WaitAgain, WaitWriteBack, Release, ShutdownJoin,
          mapped
  <1>3. ASSUME NEW w \in Workers, WorkerStep(w) PROVE R!Next \/ UNCHANGED R!rvars
    <2>1. CASE TaskFinish(w)
      BY <2>1, TaskFinishMaps DEF R!Next
    <2>2. CASE FutureUnref(w, "pop")
      <3>1. cur[w] # None
        BY <2>2 DEF PoolInv, Places, FutureUnref
      <3> QED
        BY <2>2, <3>1, UnrefMaps DEF R!Next
    <2>3. CASE UNCHANGED mapped
      BY <2>3, QuietStutters
    <2> QED
      BY <1>3, <2>1, <2>2, <2>3 DEF WorkerStep, Pop, Exit, TaskLock, Thunk, TaskUnlock, mapped
  <1>4. CASE UNCHANGED vars
    BY <1>4, QuietStutters DEF vars, mapped
  <1> QED
    BY <1>1, <1>2, <1>3, <1>4 DEF Next, Finished

\* The threads of runtime.c keep the ABI's promise of a receipt: it is taken at most
\* once, and a break leaves it taken before or GEAS_ERR_STATE.
THEOREM PoolImplementsReceipts == Spec => ImplementsReceipts
PROOF
  BY InitMaps, StepMaps, PoolInvHolds, PTL DEF Spec, ImplementsReceipts, R!Spec

=============================================================================
