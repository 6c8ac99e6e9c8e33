-------------------------- MODULE Instance_proofs --------------------------
(***************************************************************************)
(* Proofs about Instance, for every set of descriptors and every bound.    *)
(***************************************************************************)
EXTENDS Instance, FiniteSetTheorems, TLAPS

-----------------------------------------------------------------------------
(* Lemmas about the evaluator.                                              *)

\* Latching keeps the array an array of latches.
LEMMA LatchType ==
  ASSUME NEW d, NEW latches \in LatchArrays(d), NEW i \in Pledges(d), NEW o
  PROVE  latch_pledge(latches, i, o) \in LatchArrays(d)
BY DEF LatchArrays, latch_pledge, Latches, PENDING, FULFILLED, BROKEN

\* The policy yields one of the four states of a signed contract.
LEMMA PolicyType ==
  ASSUME NEW d, NEW latches, NEW st
  PROVE  eval_policy(d, latches, st) \in ContractStates
BY DEF eval_policy, ContractStates, LiveStates

\* The policy breaks a contract only when some pledge is latched broken.
LEMMA PolicyArmed ==
  ASSUME NEW d, NEW latches, NEW st, st # "Broken",
         eval_policy(d, latches, st) = "Broken"
  PROVE  \E i \in Pledges(d) : latches[i] = BROKEN
<1>1. BreakFires(d, latches)
  BY DEF eval_policy
<1> QED
  BY <1>1 DEF BreakFires, armed

-----------------------------------------------------------------------------
(* Type correctness.                                                        *)

\* A pledge with an episode belongs to a subcontract of the table.
LEMMA TrackedSub ==
  ASSUME TypeOK, NEW i \in Pledges(desc), Tracked(i)
  PROVE  desc.sub[i] \in Subs(desc)
BY DescsAssumption DEF TypeOK, DescOK, Tracked

\* A fulfillment that runs its thunk keeps every field in its type.
LEMMA RunType ==
  ASSUME TypeOK,
         NEW i \in Pledges(desc), NEW outcome \in Outcomes,
         NEW wrote \in BOOLEAN, NEW commitOk \in BOOLEAN,
         FulfillRun(i, outcome, wrote, commitOk)
  PROVE  TypeOK'
<1> DEFINE n     == Len(hist) + 1
           after == IF outcome = "Fault" THEN latch ELSE latch_pledge(latch, i, outcome)
<1>1. n \in Nat
  BY DEF TypeOK
<1>2. i \in Nat
  <2>1. desc.npledges \in Nat
    BY DescsAssumption DEF TypeOK, DescOK
  <2> QED
    BY <2>1 DEF Pledges
<1>3. after \in [Pledges(desc) -> Latches]
  BY LatchType DEF TypeOK, LatchArrays
<1>4. latch' = after /\ desc' = desc
  BY DEF FulfillRun
<1>5. state' \in ContractStates \cup {"Unsigned"}
  BY PolicyType DEF FulfillRun, TypeOK
<1>6. err' \in [Pledges(desc) -> {"zero", "heap"}]
  BY DEF FulfillRun, TypeOK
<1>7. txn' \in [Subs(desc) -> TxnStates]
  BY DEF FulfillRun, TypeOK, TxnStates
<1>8. conn' \in {"closed", "idle", "txn"}
  BY DEF FulfillRun, TypeOK, ConnInside
<1>9. unwaited' \in Nat
  BY DEF FulfillRun, TypeOK, Receipt
<1>10. buffer' \in SUBSET Nat /\ durable' \in SUBSET Nat
  BY <1>1 DEF FulfillRun, TypeOK, Buffered, Written
<1>11. hist' \in Seq(Runs)
  <2> DEFINE r == [life |-> life, p |-> i, outcome |-> outcome,
                   wrote |-> wrote, ok |-> Delivered(outcome, commitOk)]
  <2>1. r \in Runs
    BY <1>2 DEF Runs, TypeOK, Delivered
  <2>2. hist' = Append(hist, r)
    BY DEF FulfillRun
  <2> QED
    BY <2>1, <2>2 DEF TypeOK
<1>12. commits' \in [Subs(desc) -> Nat]
  <2>1. CASE Tracked(i)
    <3>1. desc.sub[i] \in Subs(desc)
      BY <2>1, TrackedSub
    <3>2. commits[desc.sub[i]] + 1 \in Nat
      BY <3>1 DEF TypeOK
    <3> QED
      BY <3>1, <3>2 DEF FulfillRun, TypeOK
  <2>2. CASE ~Tracked(i)
    BY <2>2 DEF FulfillRun, TypeOK, Completes
  <2> QED
    BY <2>1, <2>2
<1>13. owned' = TRUE /\ dirty' = TRUE /\ UNCHANGED <<vows, row, life, explicit, stale>>
  BY DEF FulfillRun
<1> HIDE DEF n, after
<1> QED
  BY <1>3, <1>4, <1>5, <1>6, <1>7, <1>8, <1>9, <1>10, <1>11, <1>12, <1>13 DEF TypeOK

\* Every step keeps every field in its type.
LEMMA TypeStep == TypeOK /\ [Next]_vars => TypeOK'
<1> SUFFICES ASSUME TypeOK, [Next]_vars PROVE TypeOK'
  OBVIOUS
<1> USE DEF TypeOK
<1>1. CASE Sign
  BY <1>1 DEF Sign, store, HeapAtSign, ContractStates, LiveStates
<1>2. CASE FulfillRefused
  BY <1>2 DEF FulfillRefused, Receipt, store, ghost
<1>3. ASSUME NEW i \in Pledges(desc), Fulfill(i)
      PROVE  TypeOK'
  <2>1. CASE FulfillGated(i)
    BY <2>1 DEF FulfillGated, Receipt, store, ghost
  <2>2. CASE \E outcome \in Outcomes, wrote, commitOk \in BOOLEAN :
               FulfillRun(i, outcome, wrote, commitOk)
    BY <2>2, RunType
  <2> QED
    BY <1>3, <2>1, <2>2 DEF Fulfill
<1>4. CASE Wait
  BY <1>4 DEF Wait, store, ghost
<1>5. CASE Break
  BY <1>5 DEF Break, PayloadsZeroed, ContractStates, LiveStates
<1>6. CASE HostAlloc
  BY <1>6 DEF HostAlloc, store, ghost
<1>7. CASE Park
  <2>1. ParkRow \in [state : ContractStates, latch : [Pledges(desc) -> Latches],
                     err : [Pledges(desc) -> {"zero", "heap"}],
                     txn : [Subs(desc) -> TxnStates], explicit : BOOLEAN]
    BY <1>7 DEF ParkRow, Park, ParkAccepts
  <2> QED
    BY <1>7, <2>1 DEF Park, inst
<1>8. CASE Crash
  BY <1>8 DEF Crash, ContractStates, LiveStates
<1>9. CASE Resume
  <2>1. /\ row.state \in ContractStates
        /\ row.latch \in [Pledges(desc) -> Latches]
        /\ row.err \in [Pledges(desc) -> {"zero", "heap"}]
        /\ row.txn \in [Subs(desc) -> TxnStates]
        /\ row.explicit \in BOOLEAN
    BY <1>9 DEF Resume
  <2>2. owned' \in BOOLEAN /\ vows' \in BOOLEAN /\ stale' \in BOOLEAN
    BY <1>9 DEF Resume, HeapAtSign
  <2>3. /\ state' = row.state /\ latch' = row.latch /\ err' = row.err
        /\ txn' = row.txn /\ explicit' = row.explicit /\ dirty' = FALSE
        /\ life' \in Nat /\ conn' \in {"closed", "idle", "txn"}
    BY <1>9 DEF Resume, ResumedTxn
  <2>4. UNCHANGED <<desc, unwaited, row, buffer, durable, hist, commits>>
    BY <1>9 DEF Resume, store
  <2> QED
    BY <2>1, <2>2, <2>3, <2>4
<1>10. CASE UNCHANGED vars
  BY <1>10 DEF vars, inst, store, ghost
<1> QED
  BY <1>1, <1>2, <1>3, <1>4, <1>5, <1>6, <1>7, <1>8, <1>9, <1>10 DEF Next

\* The first state is well typed.
LEMMA InitType == Init => TypeOK
<1> SUFFICES ASSUME Init PROVE TypeOK
  OBVIOUS
<1>1. /\ desc \in Descs /\ state = "Unsigned" /\ conn = "closed"
      /\ unwaited = 0 /\ row = NoRow /\ buffer = {} /\ durable = {} /\ life = 0
      /\ owned = FALSE /\ vows = FALSE
      /\ explicit = FALSE /\ dirty = FALSE /\ stale = FALSE
  BY DEF Init
<1>2. latch \in [Pledges(desc) -> Latches]
  BY DEF Init, Latches
<1>3. err \in [Pledges(desc) -> {"zero", "heap"}]
  BY DEF Init
<1>4. txn \in [Subs(desc) -> TxnStates] /\ commits \in [Subs(desc) -> Nat]
  BY DEF Init, TxnStates
<1>5. hist \in Seq(Runs)
  BY DEF Init
<1> QED
  BY <1>1, <1>2, <1>3, <1>4, <1>5 DEF TypeOK

\* Every reachable state of an instance is well typed.
THEOREM TypeCorrect == Spec => []TypeOK
BY InitType, TypeStep, PTL DEF Spec
-----------------------------------------------------------------------------
(* The inductive invariant behind the safety theorems.                      *)

\* Before the first signature there is nothing.
Fresh ==
  life = 0 =>
    /\ state = "Unsigned"
    /\ row = NoRow
    /\ explicit = FALSE
    /\ \A i \in Pledges(desc) : latch[i] = PENDING /\ err[i] = "zero"
    /\ \A s \in Subs(desc) : txn[s] = "TXN_NONE"

\* Without an instance there is no connection; an explicit break is final.
Ended ==
  /\ state = "Unsigned" => conn = "closed"
  /\ Alive /\ explicit => state = "Broken"

\* The row is as consistent as the instance it was written from.
RowConsistent ==
  row # NoRow =>
    /\ row.explicit => row.state = "Broken"
    /\ row.state = "Broken" => row.explicit \/ \E i \in Pledges(desc) : row.latch[i] = BROKEN
    /\ \A i \in Pledges(desc) : row.err[i] = "heap" <=> row.latch[i] = BROKEN /\ ~row.explicit
    /\ ~dirty => row.txn = txn

\* A committed episode is done, for as long as no stale row was resumed.
CommittedIsDone ==
  ~stale => \A s \in Subs(desc) : commits[s] = 0 \/ (commits[s] = 1 /\ txn[s] = "TXN_DONE")

IInv ==
  /\ TypeOK
  /\ Fresh
  /\ Ended
  /\ RowConsistent
  /\ CommittedIsDone
  /\ EpisodeOwnsTransaction
  /\ BreakNeedsABrokenPledge
  /\ ErrorsReadable

\* The first state satisfies the invariant: no instance, no row, no commit.
LEMMA InitIInv == Init => IInv
<1> SUFFICES ASSUME Init PROVE IInv
  OBVIOUS
<1>1. TypeOK
  BY InitType
<1>2. Fresh /\ Ended /\ RowConsistent
  BY DEF Init, Fresh, Ended, RowConsistent, Alive
<1>3. CommittedIsDone
  BY DEF Init, CommittedIsDone
<1>4. EpisodeOwnsTransaction
  BY DEF Init, EpisodeOwnsTransaction
<1>5. BreakNeedsABrokenPledge /\ ErrorsReadable
  BY DEF Init, BreakNeedsABrokenPledge, ErrorsReadable, Alive
<1> QED
  BY <1>1, <1>2, <1>3, <1>4, <1>5 DEF IInv

\* A run of a thunk keeps the episodes and the connection in step.
LEMMA RunEpisode ==
  ASSUME IInv, NEW i \in Pledges(desc), NEW outcome \in Outcomes,
         NEW wrote \in BOOLEAN, NEW commitOk \in BOOLEAN,
         FulfillRun(i, outcome, wrote, commitOk)
  PROVE  EpisodeOwnsTransaction' /\ CommittedIsDone'
<1> DEFINE after == IF outcome = "Fault" THEN latch ELSE latch_pledge(latch, i, outcome)
           done  == Completes(i, outcome, after)
           ends  == RollsBack(i, outcome) \/ done
           s     == desc.sub[i]
<1>1. /\ txn \in [Subs(desc) -> TxnStates] /\ commits \in [Subs(desc) -> Nat]
      /\ conn \in {"closed", "idle", "txn"}
  BY DEF IInv, TypeOK
<1>2. CASE ~Tracked(i)
  <2>1. ~ends /\ ConnInside(i) = conn
    BY <1>2 DEF Completes, RollsBack, ConnInside, Opens
  <2>2. txn' = txn /\ conn' = conn /\ commits' = commits /\ desc' = desc /\ stale' = stale
    BY <1>2, <2>1 DEF FulfillRun
  <2>3. conn # "txn" => buffer' = buffer
    BY <2>1 DEF FulfillRun, Buffered
  <2> QED
    BY <2>2, <2>3 DEF IInv, EpisodeOwnsTransaction, CommittedIsDone
<1>3. CASE Tracked(i)
  <2>1. s \in Subs(desc)
    BY <1>3, TrackedSub DEF IInv
  <2>2. txn[s] # "TXN_DONE" /\ conn # "closed"
    BY <1>3 DEF FulfillRun, MayRun, GateDone, Tracked
  <2>3. \A t \in Subs(desc) : t # s => txn[t] # "TXN_OPEN"
    <3>1. CASE txn[s] = "TXN_NONE"
      <4>1. conn = "idle"
        BY <1>3, <3>1 DEF FulfillRun, MayRun, Opens
      <4> QED
        BY <4>1 DEF IInv, EpisodeOwnsTransaction
    <3>2. CASE txn[s] = "TXN_OPEN"
      BY <3>2, <2>1 DEF IInv, EpisodeOwnsTransaction
    <3> QED
      BY <3>1, <3>2, <2>1, <2>2, <1>1 DEF TxnStates
  <2>4. ConnInside(i) = "txn"
    <3>1. CASE txn[s] = "TXN_NONE"
      BY <1>3, <3>1 DEF ConnInside, Opens
    <3>2. CASE txn[s] = "TXN_OPEN"
      <4>1. conn = "txn"
        BY <1>1, <2>1, <2>2, <3>2 DEF IInv, EpisodeOwnsTransaction
      <4> QED
        BY <4>1 DEF ConnInside
    <3> QED
      BY <3>1, <3>2, <2>1, <2>2, <1>1 DEF TxnStates
  <2>5. txn' = [txn EXCEPT ![s] = IF ends THEN "TXN_DONE" ELSE "TXN_OPEN"]
    BY <1>3 DEF FulfillRun
  <2>6. /\ conn' = IF ends THEN "idle" ELSE "txn"
        /\ ends => buffer' = {}
        /\ desc' = desc /\ stale' = stale
    BY <2>4 DEF FulfillRun
  <2>7. EpisodeOwnsTransaction'
    <3> HIDE DEF ends, s
    <3> QED
      BY <1>1, <2>1, <2>3, <2>5, <2>6 DEF EpisodeOwnsTransaction
  <2>8. CommittedIsDone'
    <3> SUFFICES ASSUME ~stale, NEW t \in Subs(desc)
                 PROVE  commits'[t] = 0 \/ (commits'[t] = 1 /\ txn'[t] = "TXN_DONE")
      BY <2>6 DEF CommittedIsDone
    <3>1. commits[t] = 0 \/ (commits[t] = 1 /\ txn[t] = "TXN_DONE")
      BY DEF IInv, CommittedIsDone
    <3>2. commits' = IF done /\ commitOk THEN [commits EXCEPT ![s] = @ + 1] ELSE commits
      BY DEF FulfillRun
    <3>3. done => ends
      OBVIOUS
    <3> HIDE DEF done, ends, s
    <3>4. CASE t = s
      BY <1>1, <2>1, <2>2, <2>5, <3>1, <3>2, <3>3, <3>4
    <3>5. CASE t # s
      BY <1>1, <2>1, <2>5, <3>1, <3>2, <3>5
    <3> QED
      BY <3>4, <3>5
  <2> QED
    BY <2>7, <2>8
<1> QED
  BY <1>2, <1>3

\* A run of a thunk keeps the latches, the payloads and the state in step.
LEMMA RunLatch ==
  ASSUME IInv, NEW i \in Pledges(desc), NEW outcome \in Outcomes,
         NEW wrote \in BOOLEAN, NEW commitOk \in BOOLEAN,
         FulfillRun(i, outcome, wrote, commitOk)
  PROVE  /\ BreakNeedsABrokenPledge' /\ ErrorsReadable'
         /\ Fresh' /\ Ended' /\ RowConsistent'
<1> DEFINE after == IF outcome = "Fault" THEN latch ELSE latch_pledge(latch, i, outcome)
<1>1. /\ state \in LiveStates /\ state # "Broken" /\ state # "Unsigned"
  BY DEF FulfillRun, MayRun, LiveStates
<1>2. /\ latch \in LatchArrays(desc) /\ life \in Nat
      /\ err \in [Pledges(desc) -> {"zero", "heap"}]
  BY DEF IInv, TypeOK, LatchArrays
<1>3. ~explicit
  BY <1>1 DEF IInv, Ended, Alive
<1>4. /\ latch' = after /\ owned' = TRUE /\ dirty' = TRUE
      /\ UNCHANGED <<desc, row, life, explicit>>
  BY DEF FulfillRun
<1>5. state' = "Broken" => \E j \in Pledges(desc) : after[j] = BROKEN
  <2>1. CASE outcome = "Fault"
    BY <1>1, <2>1 DEF FulfillRun
  <2>2. CASE outcome # "Fault"
    <3>1. state' = eval_policy(desc, after, state)
      BY <2>2 DEF FulfillRun
    <3> HIDE DEF after
    <3> QED
      BY <1>1, <3>1, PolicyArmed
  <2> QED
    BY <2>1, <2>2
<1>6. state' # "Unsigned"
  BY <1>1, PolicyType DEF FulfillRun, ContractStates, LiveStates
<1>7. \A j \in Pledges(desc) : err'[j] = "heap" <=> after[j] = BROKEN
  <2>1. \A j \in Pledges(desc) : err[j] = "heap" <=> latch[j] = BROKEN
    BY <1>1, <1>3 DEF IInv, ErrorsReadable, Alive
  <2>2. CASE outcome = "Err" /\ latch[i] = PENDING
    <3>1. after = [latch EXCEPT ![i] = BROKEN] /\ err' = [err EXCEPT ![i] = "heap"]
      BY <2>2 DEF FulfillRun, latch_pledge
    <3> QED
      BY <1>2, <2>1, <3>1 DEF LatchArrays
  <2>3. CASE outcome # "Err" /\ latch[i] = PENDING
    <3>1. after = latch \/ after = [latch EXCEPT ![i] = FULFILLED]
      BY <2>3 DEF latch_pledge
    <3>2. err' = err
      BY <2>3 DEF FulfillRun
    <3> HIDE DEF after
    <3> QED
      BY <1>2, <2>1, <2>3, <3>1, <3>2 DEF LatchArrays, PENDING, FULFILLED, BROKEN
  <2>4. CASE latch[i] # PENDING
    <3>1. after = latch /\ err' = err
      BY <2>4 DEF latch_pledge, FulfillRun
    <3> QED
      BY <2>1, <3>1
  <2> QED
    BY <2>2, <2>3, <2>4
<1>8. life # 0
  BY <1>1 DEF IInv, Fresh
<1> HIDE DEF after
<1>9. BreakNeedsABrokenPledge'
  BY <1>4, <1>5 DEF BreakNeedsABrokenPledge
<1>10. ErrorsReadable'
  BY <1>3, <1>4, <1>7 DEF ErrorsReadable
<1>11. Fresh' /\ Ended'
  BY <1>3, <1>4, <1>6, <1>8 DEF Fresh, Ended
<1>12. RowConsistent'
  BY <1>4 DEF IInv, RowConsistent
<1> QED
  BY <1>9, <1>10, <1>11, <1>12

\* Every step keeps the invariant.
LEMMA StepIInv == IInv /\ [Next]_vars => IInv'
<1> SUFFICES ASSUME IInv, [Next]_vars PROVE IInv'
  OBVIOUS
<1>0. TypeOK'
  BY TypeStep DEF IInv
<1> USE DEF IInv
<1> DEFINE Rest == /\ Fresh' /\ Ended' /\ RowConsistent' /\ CommittedIsDone'
                   /\ EpisodeOwnsTransaction' /\ BreakNeedsABrokenPledge' /\ ErrorsReadable'
<1> SUFFICES Rest
  BY <1>0
<1>1. CASE Sign
  <2>1. /\ life = 0 /\ life' = 1 /\ state' = "Signed" /\ conn' \in {"idle", "closed"}
        /\ UNCHANGED <<desc, latch, err, txn, row, buffer, explicit, dirty, stale, commits>>
    BY <1>1 DEF Sign, store
  <2>2. /\ \A i \in Pledges(desc) : latch[i] = PENDING /\ err[i] = "zero"
        /\ \A s \in Subs(desc) : txn[s] = "TXN_NONE"
        /\ row = NoRow /\ ~explicit /\ state = "Unsigned"
    BY <2>1 DEF Fresh
  <2>3. conn # "txn" /\ buffer = {}
    BY <2>2 DEF Ended, EpisodeOwnsTransaction
  <2> QED
    BY <2>1, <2>2, <2>3 DEF Fresh, Ended, RowConsistent, CommittedIsDone,
         EpisodeOwnsTransaction, BreakNeedsABrokenPledge, ErrorsReadable, Alive,
         PENDING, BROKEN
<1>2. CASE FulfillRefused \/ Wait \/ \E i \in Pledges(desc) : FulfillGated(i)
  <2>1. UNCHANGED <<desc, state, latch, err, txn, conn, store, ghost>>
    BY <1>2 DEF FulfillRefused, Wait, FulfillGated
  <2>2. owned => owned'
    BY <1>2 DEF FulfillRefused, Wait, FulfillGated
  <2> QED
    BY <2>1, <2>2 DEF store, ghost, Fresh, Ended, RowConsistent, CommittedIsDone,
         EpisodeOwnsTransaction, BreakNeedsABrokenPledge, ErrorsReadable, Alive
<1>3. CASE \E i \in Pledges(desc), outcome \in Outcomes, wrote, commitOk \in BOOLEAN :
             FulfillRun(i, outcome, wrote, commitOk)
  BY <1>3, RunEpisode, RunLatch
<1>4. CASE Break
  <2>1. /\ state # "Unsigned" /\ state' = "Broken" /\ conn' = "closed" /\ buffer' = {}
        /\ err' = [i \in Pledges(desc) |-> "zero"] /\ explicit'
        /\ UNCHANGED <<desc, latch, txn, row, life, dirty, stale, commits>>
    BY <1>4 DEF Break, PayloadsZeroed
  <2> QED
    BY <2>1 DEF Fresh, Ended, RowConsistent, CommittedIsDone,
         EpisodeOwnsTransaction, BreakNeedsABrokenPledge, ErrorsReadable, Alive
<1>5. CASE HostAlloc
  <2>1. owned' /\ UNCHANGED <<desc, state, latch, err, txn, conn, store, ghost>>
    BY <1>5 DEF HostAlloc
  <2> QED
    BY <2>1 DEF store, ghost, Fresh, Ended, RowConsistent, CommittedIsDone,
         EpisodeOwnsTransaction, BreakNeedsABrokenPledge, ErrorsReadable, Alive
<1>6. CASE Park
  <2>1. /\ state # "Unsigned" /\ row' = ParkRow /\ dirty' = FALSE
        /\ UNCHANGED <<inst, buffer, life, explicit, stale, commits>>
    BY <1>6 DEF Park, ParkAccepts
  <2>2. /\ row'.state = state /\ row'.latch = latch /\ row'.err = err /\ row'.txn = txn
        /\ row'.explicit = explicit
    BY <2>1 DEF ParkRow
  <2>3. life # 0
    BY <2>1 DEF Fresh
  <2>4. RowConsistent'
    BY <2>1, <2>2 DEF RowConsistent, inst, Ended, Alive, BreakNeedsABrokenPledge, ErrorsReadable
  <2> QED
    BY <2>1, <2>3, <2>4 DEF inst, Fresh, Ended, CommittedIsDone,
         EpisodeOwnsTransaction, BreakNeedsABrokenPledge, ErrorsReadable, Alive
<1>7. CASE Crash
  <2>1. /\ state # "Unsigned" /\ state' = "Unsigned" /\ conn' = "closed" /\ buffer' = {}
        /\ UNCHANGED <<desc, latch, txn, row, life, explicit, dirty, stale, commits>>
    BY <1>7 DEF Crash
  <2>2. life # 0
    BY <2>1 DEF Fresh
  <2> QED
    BY <2>1, <2>2 DEF Fresh, Ended, RowConsistent, CommittedIsDone,
         EpisodeOwnsTransaction, BreakNeedsABrokenPledge, ErrorsReadable, Alive
<1>8. CASE Resume
  <2>1. /\ state = "Unsigned" /\ row # NoRow /\ life' = life + 1
        /\ \A s \in Subs(desc) : row.txn[s] # "TXN_OPEN"
        /\ state' = row.state /\ latch' = row.latch /\ err' = row.err /\ txn' = row.txn
        /\ owned' = (desc.npledges > 0 \/ desc.nvows > 0)
        /\ conn' \in {"idle", "closed"} /\ explicit' = row.explicit
        /\ UNCHANGED <<desc, row, buffer, commits>>
    BY <1>8 DEF Resume, ResumedTxn, HeapAtSign, store
  <2>2. (stale' <=> stale \/ dirty) /\ dirty' = FALSE
    BY <1>8 DEF Resume
  <2>3. life' # 0 /\ row.state # "Unsigned"
    BY <2>1 DEF TypeOK, ContractStates, LiveStates
  <2>4. conn = "closed" /\ buffer = {}
    BY <2>1 DEF Ended, EpisodeOwnsTransaction
  <2>5. Pledges(desc) # {} => owned'
    <3>1. desc.npledges \in Nat
      BY DescsAssumption DEF TypeOK, DescOK
    <3>2. ASSUME Pledges(desc) # {} PROVE desc.npledges > 0
      BY <3>1, <3>2 DEF Pledges
    <3>3. ASSUME desc.npledges > 0 PROVE owned'
      <4>1. desc.npledges > 0 \/ desc.nvows > 0
        BY <3>3
      <4> QED
        BY <4>1, <2>1, Zenon
    <3> QED
      BY <3>2, <3>3
  <2>6. Fresh' /\ Ended' /\ RowConsistent'
    BY <2>1, <2>2, <2>3 DEF Fresh, Ended, RowConsistent
  <2>7. CommittedIsDone'
    BY <2>1, <2>2 DEF CommittedIsDone, RowConsistent
  <2>8. EpisodeOwnsTransaction'
    BY <2>1, <2>4 DEF EpisodeOwnsTransaction
  <2>9. BreakNeedsABrokenPledge' /\ ErrorsReadable'
    BY <2>1, <2>5 DEF RowConsistent, BreakNeedsABrokenPledge, ErrorsReadable
  <2> QED
    BY <2>6, <2>7, <2>8, <2>9
<1>9. CASE UNCHANGED vars
  BY <1>9 DEF vars, inst, store, ghost, Fresh, Ended, RowConsistent, CommittedIsDone,
       EpisodeOwnsTransaction, BreakNeedsABrokenPledge, ErrorsReadable, Alive
<1> QED
  BY <1>1, <1>2, <1>3, <1>4, <1>5, <1>6, <1>7, <1>8, <1>9 DEF Next, Fulfill

\* The invariant holds in every reachable state.
LEMMA Invariance == Spec => []IInv
BY InitIInv, StepIInv, PTL DEF Spec

-----------------------------------------------------------------------------
(* The theorems.                                                            *)

\* The connection is inside a transaction exactly when one episode is open,
\* whatever the descriptor and whatever the backend refuses.
THEOREM EpisodesOwnTransactions == Spec => []EpisodeOwnsTransaction
BY Invariance, PTL DEF IInv

\* The arming rule holds for every policy, written or defaulted.
THEOREM ArmedBreaks == Spec => []BreakNeedsABrokenPledge
BY Invariance, PTL DEF IInv

\* No payload of a freed heap is handed out, and none is lost before a break.
THEOREM PayloadsReadable == Spec => []ErrorsReadable
BY Invariance, PTL DEF IInv

\* Without a stale resume no episode commits twice, over any number of lives.
THEOREM CommitsOnce == Spec => []CommittedOnceWhenFresh
<1>1. IInv => CommittedOnceWhenFresh
  BY DEF IInv, TypeOK, CommittedIsDone, CommittedOnceWhenFresh
<1> QED
  BY <1>1, Invariance, PTL

\* Broken is terminal: nothing runs, latches or is written after it.
THEOREM TerminalBroken == Spec => BrokenIsTerminal
<1> DEFINE Stays == state = "Broken" /\ state' # "Unsigned" =>
                      /\ state' = "Broken"
                      /\ latch' = latch
                      /\ hist' = hist
                      /\ durable' = durable
<1>1. [Next]_vars => Stays
  <2> SUFFICES ASSUME [Next]_vars, state = "Broken", state' # "Unsigned"
               PROVE  state' = "Broken" /\ latch' = latch /\ hist' = hist /\ durable' = durable
    OBVIOUS
  <2>1. ~Sign /\ ~Resume /\ ~Crash
    BY DEF Sign, Resume, Crash
  <2>2. \A i \in Pledges(desc) : ~Fulfill(i)
    BY DEF Fulfill, FulfillGated, FulfillRun, MayRun, LiveStates
  <2>3. CASE FulfillRefused \/ Wait \/ HostAlloc \/ Park \/ Break
    BY <2>3 DEF FulfillRefused, Wait, HostAlloc, Park, Break, inst, store, ghost
  <2>4. CASE UNCHANGED vars
    BY <2>4 DEF vars, inst, store, ghost
  <2> QED
    BY <2>1, <2>2, <2>3, <2>4 DEF Next
<1> QED
  BY <1>1, PTL DEF Spec, BrokenIsTerminal

-----------------------------------------------------------------------------
(***************************************************************************)
(* What the structural default policy says of the latches, in the state,   *)
(* in the partial surface and from step to step, and what the park row     *)
(* says of the instance.                                                   *)
(***************************************************************************)
(* The default policy without its loops.                                    *)

\* Every pledge holds want and no subcontract is empty.
AllHold(d, latches, want) ==
  /\ d.npledges > 0
  /\ \A i \in Pledges(d) : latches[i] = want
  /\ \A s \in Subs(d) : \E i \in Pledges(d) : d.sub[i] = s

\* What the default policy says of the latches of an instance that stands.
Verdict(d, latches) == eval_policy(d, latches, "Signed")

\* The instance and its row stand where the default policy puts them.
StateIsTheVerdict ==
  ~has_trees(desc) =>
    /\ Alive /\ ~explicit => state = Verdict(desc, latch)
    /\ row # NoRow /\ ~row.explicit => row.state = Verdict(desc, row.latch)

\* An explicit break recorded in the row is one the instance remembers.
RowExplicit == row # NoRow /\ row.explicit => explicit

PolicyInv == IInv /\ StateIsTheVerdict /\ RowExplicit /\ CleanRowIsTheInstance

\* A descriptor of the set is well formed.
LEMMA DescFields ==
  ASSUME TypeOK
  PROVE  /\ desc.npledges \in Nat
         /\ desc.nsubs \in Nat
         /\ desc.sub \in [Pledges(desc) -> Int]
         /\ desc.named \subseteq Subs(desc)
         /\ DescOK(desc)
BY DescsAssumption DEF TypeOK, DescOK

\* The default line, read without its loops: the pledges of the subcontracts and
\* the loose ones are all the pledges there are.
LEMMA DefaultLine ==
  ASSUME NEW d, d.npledges \in Nat, NEW latches, NEW want
  PROVE  default_line(d, latches, want) <=> AllHold(d, latches, want)
<1>1. ASSUME default_line(d, latches, want) PROVE AllHold(d, latches, want)
  <2>1. ASSUME NEW i \in Pledges(d) PROVE latches[i] = want
    <3>1. CASE pledge_is_loose(d, i)
      BY <1>1, <3>1 DEF default_line
    <3>2. CASE ~pledge_is_loose(d, i)
      <4>1. d.sub[i] \in Subs(d) /\ i \in SubPledges(d, d.sub[i])
        BY <3>2 DEF pledge_is_loose, SubPledges
      <4> QED
        BY <1>1, <4>1 DEF default_line, sub_all
    <3> QED
      BY <3>1, <3>2
  <2>2. \A s \in Subs(d) : \E i \in Pledges(d) : d.sub[i] = s
    BY <1>1 DEF default_line, sub_all, SubPledges
  <2>3. Pledges(d) # {}
    BY <1>1, <2>2 DEF default_line
  <2> QED
    BY <2>1, <2>2, <2>3 DEF AllHold, Pledges
<1>2. ASSUME AllHold(d, latches, want) PROVE default_line(d, latches, want)
  <2>1. \A s \in Subs(d) : sub_all(d, latches, s, want)
    BY <1>2 DEF AllHold, sub_all, SubPledges
  <2>2. 0 \in Pledges(d)
    BY <1>2 DEF AllHold, Pledges
  <2> QED
    BY <1>2, <2>1, <2>2 DEF AllHold, default_line, pledge_is_loose
<1> QED
  BY <1>1, <1>2

\* Whatever holds of all the pledges holds of the first one.
LEMMA OneVerdict ==
  ASSUME NEW d, d.npledges \in Nat, NEW latches, NEW want, AllHold(d, latches, want)
  PROVE  0 \in Pledges(d) /\ latches[0] = want
BY DEF AllHold, Pledges

\* The verdict of the default policy, case by case.
LEMMA DefaultVerdict ==
  ASSUME NEW d, d.npledges \in Nat, ~has_trees(d), NEW latches
  PROVE  /\ Verdict(d, latches) = "Broken" <=> AllHold(d, latches, BROKEN)
         /\ Verdict(d, latches) = "Fulfilled" <=> AllHold(d, latches, FULFILLED)
         /\ Verdict(d, latches) = "Partial" <=>
              ~AllHold(d, latches, FULFILLED) /\ default_partial(d, latches)
<1>1. BreakFires(d, latches) <=> AllHold(d, latches, BROKEN)
  <2>1. AllHold(d, latches, BROKEN) => armed(d, latches)
    BY OneVerdict DEF armed
  <2> QED
    BY <2>1, DefaultLine DEF BreakFires
<1>2. FulfillFires(d, latches) <=> AllHold(d, latches, FULFILLED)
  BY DefaultLine DEF FulfillFires
<1>3. PartialFires(d, latches) <=> default_partial(d, latches)
  BY DEF PartialFires
<1>4. ~(AllHold(d, latches, BROKEN) /\ AllHold(d, latches, FULFILLED))
  BY OneVerdict DEF BROKEN, FULFILLED
<1>5. ~(AllHold(d, latches, BROKEN) /\ default_partial(d, latches))
  <2> SUFFICES ASSUME AllHold(d, latches, BROKEN), default_partial(d, latches)
               PROVE  FALSE
    OBVIOUS
  <2>1. PICK i \in Pledges(d) : latches[i] = FULFILLED
    BY DEF default_partial, sub_all, SubPledges
  <2> QED
    BY <2>1 DEF AllHold, BROKEN, FULFILLED
<1> QED
  BY <1>1, <1>2, <1>3, <1>4, <1>5 DEF Verdict, eval_policy

\* Nothing has landed yet: the verdict on pending latches is Signed.
LEMMA PendingVerdict ==
  ASSUME NEW d, d.npledges \in Nat, ~has_trees(d), NEW latches,
         \A i \in Pledges(d) : latches[i] = PENDING
  PROVE  Verdict(d, latches) = "Signed"
<1>1. ~AllHold(d, latches, BROKEN) /\ ~AllHold(d, latches, FULFILLED)
  BY OneVerdict DEF PENDING, BROKEN, FULFILLED
<1>2. ~default_partial(d, latches)
  BY DEF default_partial, sub_all, SubPledges, PENDING, FULFILLED
<1>3. Verdict(d, latches) \in ContractStates
  BY PolicyType DEF Verdict
<1> QED
  BY <1>1, <1>2, <1>3, DefaultVerdict DEF ContractStates, LiveStates

-----------------------------------------------------------------------------
(* The invariant.                                                           *)

\* The first state: no instance and no row.
LEMMA InitPolicy == Init => PolicyInv
<1> SUFFICES ASSUME Init PROVE PolicyInv
  OBVIOUS
<1>1. IInv
  BY InitIInv
<1>2. state = "Unsigned" /\ row = NoRow
  BY DEF Init
<1> QED
  BY <1>1, <1>2 DEF PolicyInv, StateIsTheVerdict, RowExplicit, CleanRowIsTheInstance, Alive

\* An instance evaluates its policy after every latch, and a fault latches nothing.
LEMMA RunVerdict ==
  ASSUME PolicyInv, NEW i \in Pledges(desc), NEW outcome \in Outcomes,
         NEW wrote \in BOOLEAN, NEW commitOk \in BOOLEAN,
         FulfillRun(i, outcome, wrote, commitOk)
  PROVE  ~has_trees(desc) => state' = Verdict(desc, latch')
<1> SUFFICES ASSUME ~has_trees(desc) PROVE state' = Verdict(desc, latch')
  OBVIOUS
<1>1. state \in LiveStates /\ state # "Broken" /\ Alive
  BY DEF FulfillRun, MayRun, LiveStates, Alive
<1>2. ~explicit
  BY <1>1 DEF PolicyInv, IInv, Ended
<1>3. CASE outcome = "Fault"
  <2>1. state' = state /\ latch' = latch
    BY <1>3 DEF FulfillRun
  <2> QED
    BY <1>1, <1>2, <2>1 DEF PolicyInv, StateIsTheVerdict
<1>4. CASE outcome # "Fault"
  <2>1. state' = eval_policy(desc, latch', state)
    BY <1>4 DEF FulfillRun
  <2> QED
    BY <1>1, <2>1 DEF Verdict, eval_policy
<1> QED
  BY <1>3, <1>4

\* Every step keeps the invariant.
LEMMA StepPolicy == PolicyInv /\ [Next]_vars => PolicyInv'
<1> SUFFICES ASSUME PolicyInv, [Next]_vars PROVE PolicyInv'
  OBVIOUS
<1>0. IInv'
  BY StepIInv DEF PolicyInv
<1> DEFINE Rest == StateIsTheVerdict' /\ RowExplicit' /\ CleanRowIsTheInstance'
<1> SUFFICES Rest
  BY <1>0 DEF PolicyInv
<1>t. TypeOK /\ desc.npledges \in Nat
  BY DescFields DEF PolicyInv, IInv
<1>1. CASE Sign
  <2>1. /\ life = 0 /\ state' = "Signed"
        /\ UNCHANGED <<desc, latch, row, explicit>>
    BY <1>1 DEF Sign, store
  <2>2. row = NoRow /\ \A i \in Pledges(desc) : latch[i] = PENDING
    BY <2>1 DEF PolicyInv, IInv, Fresh
  <2>3. ~has_trees(desc) => Verdict(desc, latch) = "Signed"
    BY <1>t, <2>2, PendingVerdict
  <2> QED
    BY <2>1, <2>2, <2>3 DEF StateIsTheVerdict, RowExplicit, CleanRowIsTheInstance
<1>2. CASE FulfillRefused \/ Wait \/ HostAlloc \/ \E i \in Pledges(desc) : FulfillGated(i)
  <2>1. UNCHANGED <<desc, state, latch, err, txn, row, explicit, dirty>>
    BY <1>2 DEF FulfillRefused, Wait, HostAlloc, FulfillGated, store, ghost
  <2> QED
    BY <2>1 DEF PolicyInv, StateIsTheVerdict, RowExplicit, CleanRowIsTheInstance, Alive
<1>3. ASSUME NEW i \in Pledges(desc), NEW outcome \in Outcomes,
             NEW wrote \in BOOLEAN, NEW commitOk \in BOOLEAN,
             FulfillRun(i, outcome, wrote, commitOk)
      PROVE  Rest
  <2>1. dirty' = TRUE /\ UNCHANGED <<desc, row, explicit>>
    BY <1>3 DEF FulfillRun
  <2>2. ~has_trees(desc) => state' = Verdict(desc, latch')
    BY <1>3, RunVerdict
  <2> QED
    BY <2>1, <2>2 DEF PolicyInv, StateIsTheVerdict, RowExplicit, CleanRowIsTheInstance
<1>4. CASE Break
  <2>1. /\ Alive /\ state' = "Broken" /\ explicit' = TRUE
        /\ err' = [i \in Pledges(desc) |-> "zero"]
        /\ UNCHANGED <<desc, latch, txn, row, dirty>>
    BY <1>4 DEF Break, PayloadsZeroed, Alive
  <2>2. StateIsTheVerdict' /\ RowExplicit'
    BY <2>1 DEF PolicyInv, StateIsTheVerdict, RowExplicit
  <2>3. ASSUME row # NoRow, ~dirty, row.explicit = TRUE
        PROVE  row.latch = latch /\ row.txn = txn /\ row.state = "Broken" /\ row.err = err'
    <3>1. explicit = TRUE
      BY <1>t, <2>3 DEF PolicyInv, RowExplicit, TypeOK
    <3>2. row.latch = latch /\ row.txn = txn
      BY <2>3, <3>1 DEF PolicyInv, CleanRowIsTheInstance
    <3>3. row.state = "Broken" /\ \A i \in Pledges(desc) : row.err[i] # "heap"
      BY <2>3 DEF PolicyInv, IInv, RowConsistent
    <3>4. row.err \in [Pledges(desc) -> {"zero", "heap"}]
      BY <1>t, <2>3 DEF TypeOK
    <3> QED
      BY <2>1, <3>2, <3>3, <3>4
  <2> QED
    BY <2>1, <2>2, <2>3 DEF CleanRowIsTheInstance
<1>5. CASE Park
  <2>1. /\ Alive /\ row' = ParkRow
        /\ UNCHANGED <<desc, state, latch, err, txn, explicit>>
    BY <1>5 DEF Park, ParkAccepts, inst, Alive
  <2>2. /\ row'.state = state /\ row'.latch = latch /\ row'.err = err /\ row'.txn = txn
        /\ row'.explicit = explicit
    BY <2>1 DEF ParkRow
  <2> QED
    BY <2>1, <2>2 DEF PolicyInv, StateIsTheVerdict, RowExplicit, CleanRowIsTheInstance
<1>6. CASE Crash
  <2>1. state' = "Unsigned" /\ UNCHANGED <<desc, latch, txn, row, explicit, dirty>>
    BY <1>6 DEF Crash
  <2> QED
    BY <2>1 DEF PolicyInv, StateIsTheVerdict, RowExplicit, CleanRowIsTheInstance, Alive
<1>7. CASE Resume
  <2>1. /\ row # NoRow /\ state' = row.state /\ latch' = row.latch /\ err' = row.err
        /\ txn' = row.txn /\ explicit' = row.explicit /\ UNCHANGED <<desc, row>>
    BY <1>7 DEF Resume, ResumedTxn, store
  <2> QED
    BY <2>1 DEF PolicyInv, StateIsTheVerdict, RowExplicit, CleanRowIsTheInstance
<1>8. CASE UNCHANGED vars
  BY <1>8 DEF vars, inst, store, ghost, PolicyInv, StateIsTheVerdict, RowExplicit,
              CleanRowIsTheInstance, Alive
<1> QED
  BY <1>1, <1>2, <1>3, <1>4, <1>5, <1>6, <1>7, <1>8 DEF Next, Fulfill

\* The invariant holds in every reachable state.
LEMMA PolicyInvariance == Spec => []PolicyInv
BY InitPolicy, StepPolicy, PTL DEF Spec

-----------------------------------------------------------------------------
(* The theorems.                                                            *)

\* A clean row is the instance, through breaks, crashes and resumes: a process
\* that dies after a park loses nothing that the park had seen.
THEOREM CleanRows == Spec => []CleanRowIsTheInstance
BY PolicyInvariance, PTL DEF PolicyInv

\* The state of a default contract is the plain reading of its latches.
LEMMA ExactVerdict == PolicyInv => DefaultStateIsExact
<1> SUFFICES ASSUME PolicyInv, Alive, ~explicit, ~has_trees(desc)
             PROVE  /\ state = "Fulfilled" <=> Uniform(FULFILLED)
                    /\ state = "Broken" <=> Uniform(BROKEN)
                    /\ state = "Partial" <=>
                         /\ ~Uniform(FULFILLED)
                         /\ \E s \in Subs(desc) :
                              /\ \E i \in Pledges(desc) : desc.sub[i] = s
                              /\ \A i \in Pledges(desc) : desc.sub[i] = s => latch[i] = FULFILLED
  BY DEF DefaultStateIsExact
<1>1. desc.npledges \in Nat /\ state = Verdict(desc, latch)
  BY DescFields DEF PolicyInv, IInv, StateIsTheVerdict
<1>2. \A want : Uniform(want) <=> AllHold(desc, latch, want)
  BY DEF Uniform, AllHold
<1>3. default_partial(desc, latch) <=>
        \E s \in Subs(desc) :
          /\ \E i \in Pledges(desc) : desc.sub[i] = s
          /\ \A i \in Pledges(desc) : desc.sub[i] = s => latch[i] = FULFILLED
  BY DEF default_partial, sub_all, SubPledges
<1> QED
  BY <1>1, <1>2, <1>3, DefaultVerdict

\* The structural default never reports a state its latches do not support,
\* for any number of pledges and subcontracts, empty ones included.
THEOREM DefaultIsExact == Spec => []DefaultStateIsExact
BY PolicyInvariance, ExactVerdict, PTL

\* Uniform latches leave the other item states of the partial surface empty.
LEMMA UniformSurface ==
  ASSUME PolicyInv, NEW want \in {FULFILLED, BROKEN}, AllHold(desc, latch, want),
         NEW other \in Latches, other # want
  PROVE  partial_scan(desc, latch, other) = {}
<1>1. \A s \in Subs(desc) : sub_all(desc, latch, s, want)
  BY DEF AllHold, sub_all, SubPledges
<1>2. \A s \in Subs(desc) : ~sub_all(desc, latch, s, IF want = BROKEN THEN FULFILLED ELSE BROKEN)
  BY DEF AllHold, sub_all, SubPledges, FULFILLED, BROKEN
<1>3. \A s \in Subs(desc) : sub_item_state(desc, latch, s) = want
  BY <1>1, <1>2 DEF sub_item_state, FULFILLED, BROKEN
<1>4. desc.named \subseteq Subs(desc)
  BY DescFields DEF PolicyInv, IInv
<1>5. {s \in desc.named : sub_item_state(desc, latch, s) = other} = {}
  BY <1>3, <1>4
<1>6. {j \in Pledges(desc) : pledge_is_loose(desc, j) /\ loose_item_state(latch, j) = other} = {}
  BY DEF AllHold, loose_item_state
<1> QED
  BY <1>5, <1>6 DEF partial_scan

\* The partial surface agrees with the verdict beside it.
LEMMA SurfaceOfTheVerdict == PolicyInv => PartialSurfaceAgrees
<1> SUFFICES ASSUME PolicyInv, Alive, ~explicit, ~has_trees(desc)
             PROVE  /\ state = "Fulfilled" =>
                         /\ partial_scan(desc, latch, PENDING) = {}
                         /\ partial_scan(desc, latch, BROKEN) = {}
                         /\ geas_partial_nerrors(desc, latch) = 0
                    /\ state = "Broken" =>
                         /\ partial_scan(desc, latch, PENDING) = {}
                         /\ partial_scan(desc, latch, FULFILLED) = {}
                         /\ geas_partial_nerrors(desc, latch) = desc.npledges
  BY DEF PartialSurfaceAgrees
<1>1. desc.npledges \in Nat /\ state = Verdict(desc, latch)
  BY DescFields DEF PolicyInv, IInv, StateIsTheVerdict
<1> DEFINE Errors == {i \in Pledges(desc) : latch[i] = BROKEN}
<1>2. ASSUME state = "Fulfilled"
      PROVE  /\ partial_scan(desc, latch, PENDING) = {}
             /\ partial_scan(desc, latch, BROKEN) = {}
             /\ geas_partial_nerrors(desc, latch) = 0
  <2>1. AllHold(desc, latch, FULFILLED)
    BY <1>1, <1>2, DefaultVerdict
  <2>2. Errors = {}
    BY <2>1 DEF AllHold, FULFILLED, BROKEN
  <2>3. geas_partial_nerrors(desc, latch) = 0
    BY <2>2, FS_EmptySet DEF geas_partial_nerrors
  <2> QED
    BY <2>1, <2>3, UniformSurface DEF Latches, PENDING, FULFILLED, BROKEN
<1>3. ASSUME state = "Broken"
      PROVE  /\ partial_scan(desc, latch, PENDING) = {}
             /\ partial_scan(desc, latch, FULFILLED) = {}
             /\ geas_partial_nerrors(desc, latch) = desc.npledges
  <2>1. AllHold(desc, latch, BROKEN)
    BY <1>1, <1>3, DefaultVerdict
  <2>2. Errors = 0 .. desc.npledges - 1
    BY <2>1 DEF AllHold, Pledges
  <2>3. Cardinality(0 .. desc.npledges - 1) = desc.npledges
    <3>1. 0 \in Int /\ desc.npledges - 1 \in Int /\ desc.npledges > 0
      BY <1>1, <2>1 DEF AllHold
    <3>2. Cardinality(0 .. desc.npledges - 1)
            = IF 0 > desc.npledges - 1 THEN 0 ELSE desc.npledges - 1 - 0 + 1
      BY <3>1, FS_Interval
    <3> QED
      BY <1>1, <3>1, <3>2
  <2>4. geas_partial_nerrors(desc, latch) = desc.npledges
    BY <2>2, <2>3 DEF geas_partial_nerrors
  <2> QED
    BY <2>1, <2>4, UniformSurface DEF Latches, PENDING, FULFILLED, BROKEN
<1> QED
  BY <1>2, <1>3

\* A default contract's partial surface never contradicts its state, and a broken
\* one reports an error for every pledge, whatever their number.
THEOREM SurfaceAgrees == Spec => []PartialSurfaceAgrees
BY PolicyInvariance, SurfaceOfTheVerdict, PTL

\* Latching moves a verdict forward: what landed stays landed.
LEMMA VerdictAdvances ==
  ASSUME NEW d, d.npledges \in Nat, ~has_trees(d),
         NEW latches \in LatchArrays(d), NEW i \in Pledges(d), NEW outcome,
         NEW after, after = latch_pledge(latches, i, outcome)
  PROVE  /\ Verdict(d, latches) = "Fulfilled" => Verdict(d, after) = "Fulfilled"
         /\ Verdict(d, latches) = "Partial" => Verdict(d, after) \in {"Partial", "Fulfilled"}
<1>1. \A j \in Pledges(d) : latches[j] = FULFILLED => after[j] = FULFILLED
  BY DEF latch_pledge, LatchArrays, PENDING, FULFILLED
<1>2. AllHold(d, latches, FULFILLED) => AllHold(d, after, FULFILLED)
  BY <1>1 DEF AllHold
<1>3. default_partial(d, latches) => default_partial(d, after)
  BY <1>1 DEF default_partial, sub_all, SubPledges
<1> QED
  BY <1>2, <1>3, DefaultVerdict

\* Under the default policy no later call takes back what the state announced.
THEOREM DefaultAdvances == Spec => DefaultNeverRegresses
<1> DEFINE Forward == ~has_trees(desc) /\ Alive /\ state' # "Unsigned" /\ ~explicit' =>
                        /\ state = "Fulfilled" => state' = "Fulfilled"
                        /\ state = "Partial" => state' \in {"Partial", "Fulfilled"}
<1>1. PolicyInv /\ [Next]_vars => Forward
  <2> SUFFICES ASSUME PolicyInv, [Next]_vars, ~has_trees(desc), Alive,
                      state' # "Unsigned", ~explicit'
               PROVE  /\ state = "Fulfilled" => state' = "Fulfilled"
                      /\ state = "Partial" => state' \in {"Partial", "Fulfilled"}
    OBVIOUS
  <2>1. ~Sign /\ ~Resume /\ ~Crash /\ ~Break
    BY DEF Sign, Resume, Crash, Break, Alive
  <2>2. CASE UNCHANGED state
    BY <2>2
  <2>3. ASSUME NEW i \in Pledges(desc), NEW outcome \in Outcomes,
               NEW wrote \in BOOLEAN, NEW commitOk \in BOOLEAN,
               FulfillRun(i, outcome, wrote, commitOk), outcome # "Fault"
        PROVE  /\ state = "Fulfilled" => state' = "Fulfilled"
               /\ state = "Partial" => state' \in {"Partial", "Fulfilled"}
    <3>1. latch' = latch_pledge(latch, i, outcome) /\ UNCHANGED <<desc, explicit>>
      BY <2>3 DEF FulfillRun
    <3>2. state = Verdict(desc, latch)
      BY <3>1 DEF PolicyInv, StateIsTheVerdict
    <3>3. state' = Verdict(desc, latch')
      BY <2>3, RunVerdict
    <3>4. desc.npledges \in Nat /\ latch \in LatchArrays(desc)
      BY DescFields DEF PolicyInv, IInv, TypeOK, LatchArrays
    <3> QED
      BY <3>1, <3>2, <3>3, <3>4, VerdictAdvances
  <2>4. ASSUME NEW i \in Pledges(desc), NEW wrote \in BOOLEAN, NEW commitOk \in BOOLEAN,
               FulfillRun(i, "Fault", wrote, commitOk)
        PROVE  UNCHANGED state
    BY <2>4 DEF FulfillRun
  <2>5. CASE FulfillRefused \/ Wait \/ HostAlloc \/ Park \/ \E i \in Pledges(desc) : FulfillGated(i)
    <3>1. UNCHANGED state
      BY <2>5 DEF FulfillRefused, Wait, HostAlloc, Park, FulfillGated, inst
    <3> QED
      BY <3>1, <2>2
  <2>6. CASE UNCHANGED vars
    BY <2>6, <2>2 DEF vars, inst
  <2> QED
    BY <2>1, <2>2, <2>3, <2>4, <2>5, <2>6 DEF Next, Fulfill
<1> QED
  BY <1>1, PolicyInvariance, PTL DEF Spec, DefaultNeverRegresses

-----------------------------------------------------------------------------
(***************************************************************************)
(* What the database keeps of an episode, and the inductive invariant.     *)
(***************************************************************************)

\* The database and the transaction hold rows of runs that happened, each in a
\* life the contract has had and of one of its pledges.
RowsAreRuns ==
  /\ buffer \subseteq DOMAIN hist
  /\ durable \subseteq DOMAIN hist
  /\ \A n \in DOMAIN hist : hist[n].life \in 1 .. life /\ hist[n].p \in Pledges(desc)

\* What is buffered was written in this life, by the open episode or by a pledge
\* that has none.
BufferOfTheOpen ==
  \A n \in buffer :
    /\ hist[n].life = life
    /\ desc.sub[hist[n].p] \in desc.txn => txn[desc.sub[hist[n].p]] = "TXN_OPEN"

\* An episode that never opened wrote nothing, and one that is open has nothing
\* in the database: while its transaction stands, every row of it is buffered.
OpenIsBuffered ==
  \A s \in desc.txn :
    /\ txn[s] = "TXN_NONE" => EpisodeRows(life, s) = {}
    /\ txn[s] = "TXN_OPEN" => EpisodeRows(life, s) \cap durable = {}
    /\ txn[s] = "TXN_OPEN" /\ conn = "txn" => EpisodeRows(life, s) \subseteq buffer

EpisodeInv ==
  /\ IInv
  /\ RowsAreRuns
  /\ BufferOfTheOpen
  /\ OpenIsBuffered
  /\ EpisodeAtomic
  /\ CommitMeansFulfilled

-----------------------------------------------------------------------------
\* The first state: no run, no row.
LEMMA InitEpisode == Init => EpisodeInv
<1> SUFFICES ASSUME Init PROVE EpisodeInv
  OBVIOUS
<1>1. IInv
  BY InitIInv
<1>2. /\ hist = << >> /\ buffer = {} /\ durable = {} /\ state = "Unsigned"
      /\ \A s \in Subs(desc) : txn[s] = "TXN_NONE"
  BY DEF Init
<1>3. DOMAIN hist = {}
  BY <1>2
<1>4. \A l, s : EpisodeRows(l, s) = {}
  BY <1>3 DEF EpisodeRows
<1> QED
  BY <1>1, <1>2, <1>3, <1>4 DEF EpisodeInv, RowsAreRuns, BufferOfTheOpen, OpenIsBuffered,
       EpisodeAtomic, CommitMeansFulfilled, Alive

\* The transactional subcontracts are subcontracts.
LEMMA TxnSubs ==
  ASSUME TypeOK
  PROVE  desc.txn \subseteq Subs(desc)
BY DescsAssumption DEF TypeOK, DescOK

\* A thunk run adds its own row, and its own only, to the episode it ran in.
LEMMA RunRows ==
  ASSUME EpisodeInv, NEW i \in Pledges(desc), NEW outcome \in Outcomes,
         NEW wrote \in BOOLEAN, NEW commitOk \in BOOLEAN,
         FulfillRun(i, outcome, wrote, commitOk)
  PROVE  /\ Len(hist) + 1 \notin DOMAIN hist
         /\ DOMAIN hist' = DOMAIN hist \cup {Len(hist) + 1}
         /\ \A n \in DOMAIN hist : hist'[n] = hist[n]
         /\ hist'[Len(hist) + 1].life = life
         /\ hist'[Len(hist) + 1].p = i
         /\ hist'[Len(hist) + 1].ok = Delivered(outcome, commitOk)
         /\ \A l, s : EpisodeRows(l, s)' =
              IF wrote /\ l = life /\ s = desc.sub[i]
              THEN EpisodeRows(l, s) \cup {Len(hist) + 1} ELSE EpisodeRows(l, s)
<1> DEFINE n == Len(hist) + 1
           r == [life |-> life, p |-> i, outcome |-> outcome,
                 wrote |-> wrote, ok |-> Delivered(outcome, commitOk)]
<1>1. hist \in Seq(Runs) /\ Len(hist) \in Nat /\ DOMAIN hist = 1 .. Len(hist)
  BY DEF EpisodeInv, IInv, TypeOK
<1>2. hist' = Append(hist, r) /\ desc' = desc
  BY DEF FulfillRun
<1>3. n \notin DOMAIN hist /\ DOMAIN hist' = DOMAIN hist \cup {n}
  BY <1>1, <1>2
<1>4. \A m \in DOMAIN hist : hist'[m] = hist[m]
  BY <1>1, <1>2
<1>5. hist'[n] = r
  BY <1>1, <1>2
<1>6. /\ hist'[n].life = life /\ hist'[n].p = i /\ hist'[n].wrote = wrote
      /\ hist'[n].ok = Delivered(outcome, commitOk)
  BY <1>5
<1>7. ASSUME NEW l, NEW s
      PROVE  EpisodeRows(l, s)' =
               IF wrote /\ l = life /\ s = desc.sub[i]
               THEN EpisodeRows(l, s) \cup {n} ELSE EpisodeRows(l, s)
  <2> HIDE DEF n, r
  <2> QED
    BY <1>2, <1>3, <1>4, <1>6 DEF EpisodeRows
<1> QED
  BY <1>3, <1>4, <1>6, <1>7

\* What a latched pledge holds, a later run does not take back.
LEMMA FulfilledStays ==
  ASSUME EpisodeInv, NEW i \in Pledges(desc), NEW outcome \in Outcomes,
         NEW wrote \in BOOLEAN, NEW commitOk \in BOOLEAN,
         FulfillRun(i, outcome, wrote, commitOk),
         NEW s, sub_all(desc, latch, s, FULFILLED)
  PROVE  sub_all(desc, latch', s, FULFILLED)
<1>1. latch \in [Pledges(desc) -> Latches]
  BY DEF EpisodeInv, IInv, TypeOK
<1>2. latch' = latch \/ latch' = latch_pledge(latch, i, outcome)
  BY DEF FulfillRun
<1>3. \A j \in Pledges(desc) : latch[j] = FULFILLED => latch'[j] = FULFILLED
  BY <1>1, <1>2 DEF latch_pledge, PENDING, FULFILLED
<1> QED
  BY <1>3 DEF sub_all, SubPledges

\* A pledge without an episode writes no row of one: on a closed connection it
\* writes nothing, and otherwise its subcontract is not transactional.
LEMMA LooseRun ==
  ASSUME EpisodeInv, NEW i \in Pledges(desc), NEW outcome \in Outcomes,
         NEW wrote \in BOOLEAN, NEW commitOk \in BOOLEAN,
         FulfillRun(i, outcome, wrote, commitOk), ~Tracked(i)
  PROVE  EpisodeInv'
<1> DEFINE n == Len(hist) + 1
<1>0. IInv'
  BY StepIInv DEF EpisodeInv, Next, Fulfill
<1>1. wrote => desc.sub[i] \notin desc.txn
  BY DEF FulfillRun, Tracked
<1>2. ~Completes(i, outcome, latch') /\ ~RollsBack(i, outcome) /\ ConnInside(i) = conn
  BY DEF Completes, RollsBack, ConnInside, Opens
<1>3. /\ txn' = txn /\ conn' = conn /\ UNCHANGED <<desc, life>>
      /\ buffer' = Buffered(i, n, wrote) /\ durable' = Written(i, n, wrote)
  BY <1>2 DEF FulfillRun, Completes
<1>4. /\ buffer \subseteq buffer' /\ buffer' \subseteq buffer \cup {n}
      /\ durable \subseteq durable' /\ durable' \subseteq durable \cup {n}
      /\ wrote \/ (buffer' = buffer /\ durable' = durable)
  BY <1>3 DEF Buffered, Written
<1>5. /\ n \notin DOMAIN hist
      /\ DOMAIN hist' = DOMAIN hist \cup {n}
      /\ \A m \in DOMAIN hist : hist'[m] = hist[m]
      /\ hist'[n].life = life
      /\ hist'[n].p = i
  BY RunRows
<1>6. \A l, s : s \in desc.txn => EpisodeRows(l, s)' = EpisodeRows(l, s)
  BY <1>1, RunRows
<1>7. \A l, s : n \notin EpisodeRows(l, s)
  BY <1>5 DEF EpisodeRows
<1>8. state \in LiveStates /\ life \in Nat /\ life # 0
  <2>1. state \in LiveStates /\ state # "Unsigned"
    BY DEF FulfillRun, MayRun, LiveStates
  <2> QED
    BY <2>1 DEF EpisodeInv, IInv, TypeOK, Fresh
<1> HIDE DEF n
<1>9. RowsAreRuns'
  BY <1>3, <1>4, <1>5, <1>8 DEF EpisodeInv, RowsAreRuns
<1>10. BufferOfTheOpen'
  <2> SUFFICES ASSUME NEW m \in buffer'
               PROVE  /\ hist'[m].life = life
                      /\ desc.sub[hist'[m].p] \in desc.txn => txn[desc.sub[hist'[m].p]] = "TXN_OPEN"
    BY <1>3 DEF BufferOfTheOpen
  <2>1. CASE m = n
    <3>1. wrote
      BY <1>4, <1>5, <2>1 DEF EpisodeInv, RowsAreRuns
    <3> QED
      BY <1>1, <1>5, <2>1, <3>1
  <2>2. CASE m # n
    BY <1>4, <1>5, <2>2 DEF EpisodeInv, RowsAreRuns, BufferOfTheOpen
  <2> QED
    BY <2>1, <2>2
<1>11. OpenIsBuffered'
  BY <1>3, <1>4, <1>6, <1>7 DEF EpisodeInv, OpenIsBuffered
<1>12. EpisodeAtomic'
  BY <1>3, <1>4, <1>6, <1>7 DEF EpisodeInv, EpisodeAtomic
<1>13. CommitMeansFulfilled'
  <2> SUFFICES ASSUME NEW s \in desc.txn, EpisodeRows(life, s) \cap durable # {}
               PROVE  sub_all(desc, latch', s, FULFILLED) /\ txn[s] = "TXN_DONE"
    BY <1>3, <1>4, <1>6, <1>7 DEF CommitMeansFulfilled
  <2>1. sub_all(desc, latch, s, FULFILLED) /\ txn[s] = "TXN_DONE"
    BY <1>8 DEF EpisodeInv, CommitMeansFulfilled, Alive, LiveStates
  <2> QED
    BY <2>1, FulfilledStays
<1> QED
  BY <1>0, <1>9, <1>10, <1>11, <1>12, <1>13 DEF EpisodeInv

\* A pledge of an episode writes into the open transaction: its rows reach the
\* database together, when the last pledge completes, or not at all.
LEMMA EpisodeRun ==
  ASSUME EpisodeInv, NEW i \in Pledges(desc), NEW outcome \in Outcomes,
         NEW wrote \in BOOLEAN, NEW commitOk \in BOOLEAN,
         FulfillRun(i, outcome, wrote, commitOk), Tracked(i)
  PROVE  EpisodeInv'
<1> DEFINE n    == Len(hist) + 1
           done == Completes(i, outcome, latch')
           ends == RollsBack(i, outcome) \/ done
           buf  == Buffered(i, n, wrote)
<1>s. PICK s : s = desc.sub[i]
  OBVIOUS
<1>l. PICK now : now = life
  OBVIOUS
<1>0. IInv'
  BY StepIInv DEF EpisodeInv, Next, Fulfill
<1>1. /\ s \in desc.txn /\ s \in Subs(desc) /\ desc.txn \subseteq Subs(desc)
      /\ txn \in [Subs(desc) -> TxnStates] /\ conn \in {"closed", "idle", "txn"}
  BY <1>s, TrackedSub, TxnSubs DEF EpisodeInv, IInv, TypeOK, Tracked
<1>2. \/ txn[s] = "TXN_NONE" /\ conn = "idle"
      \/ txn[s] = "TXN_OPEN" /\ conn = "txn"
  <2>1. txn[s] # "TXN_DONE" /\ conn # "closed"
    BY <1>s DEF FulfillRun, MayRun, GateDone, Tracked
  <2>2. txn[s] = "TXN_NONE" => conn = "idle"
    BY <1>s DEF FulfillRun, MayRun, Opens
  <2>3. txn[s] = "TXN_OPEN" => conn # "idle"
    BY <1>1 DEF EpisodeInv, IInv, EpisodeOwnsTransaction
  <2> QED
    BY <1>1, <2>1, <2>2, <2>3 DEF TxnStates
<1>3. \A t \in Subs(desc) : t # s => txn[t] # "TXN_OPEN"
  BY <1>1, <1>2 DEF EpisodeInv, IInv, EpisodeOwnsTransaction
<1>4. ConnInside(i) = "txn"
  BY <1>s, <1>2 DEF ConnInside, Opens, Tracked
<1>5. buf = (IF wrote THEN buffer \cup {n} ELSE buffer) /\ Written(i, n, wrote) = durable
  BY <1>4 DEF Buffered, Written
<1>6. /\ txn' = [txn EXCEPT ![s] = IF ends THEN "TXN_DONE" ELSE "TXN_OPEN"]
      /\ conn' = IF ends THEN "idle" ELSE "txn"
      /\ buffer' = IF ends THEN {} ELSE buf
      /\ durable' = IF done /\ commitOk THEN durable \cup buf ELSE durable
      /\ UNCHANGED <<desc, life>>
  BY <1>s, <1>4, <1>5 DEF FulfillRun
<1>7. done => sub_all(desc, latch', s, FULFILLED)
  BY <1>s DEF Completes
<1>8. /\ n \notin DOMAIN hist
      /\ DOMAIN hist' = DOMAIN hist \cup {n}
      /\ \A m \in DOMAIN hist : hist'[m] = hist[m]
      /\ hist'[n].life = life
      /\ hist'[n].p = i
      /\ \A l, t : EpisodeRows(l, t)' =
           IF wrote /\ l = now /\ t = s
           THEN EpisodeRows(l, t) \cup {n} ELSE EpisodeRows(l, t)
  <2> HIDE DEF n
  <2>1. n = Len(hist) + 1
    BY DEF n
  <2>2. \A l, t : EpisodeRows(l, t)' =
           IF wrote /\ l = now /\ t = s
           THEN EpisodeRows(l, t) \cup {Len(hist) + 1} ELSE EpisodeRows(l, t)
    <3>1. \A l, t : EpisodeRows(l, t)' =
             IF wrote /\ l = life /\ t = desc.sub[i]
             THEN EpisodeRows(l, t) \cup {Len(hist) + 1} ELSE EpisodeRows(l, t)
      BY RunRows
    <3> QED
      BY <1>s, <1>l, <3>1, Zenon
  <2> QED
    BY <2>1, <2>2, RunRows
<1>9. state \in LiveStates /\ life \in Nat /\ life # 0
  <2>1. state \in LiveStates /\ state # "Unsigned"
    BY DEF FulfillRun, MayRun, LiveStates
  <2> QED
    BY <2>1 DEF EpisodeInv, IInv, TypeOK, Fresh
<1>10. n \notin durable /\ n \notin buffer
  BY <1>8 DEF EpisodeInv, RowsAreRuns
<1>11. EpisodeRows(now, s) \subseteq buffer /\ EpisodeRows(now, s) \cap durable = {}
  BY <1>l, <1>1, <1>2 DEF EpisodeInv, OpenIsBuffered
<1>12. EpisodeRows(now, s)' \subseteq buf /\ EpisodeRows(now, s)' \cap durable = {}
  <2>1. EpisodeRows(now, s)' = IF wrote THEN EpisodeRows(now, s) \cup {n} ELSE EpisodeRows(now, s)
    BY <1>8
  <2> HIDE DEF n, buf
  <2> QED
    BY <1>5, <1>10, <1>11, <2>1
<1>13. \A l, t : l # now \/ (t \in desc.txn /\ t # s) => EpisodeRows(l, t) \cap buf = {}
  <2> SUFFICES ASSUME NEW l, NEW t, l # now \/ (t \in desc.txn /\ t # s),
                      NEW m \in EpisodeRows(l, t), m \in buf
               PROVE  FALSE
    OBVIOUS
  <2>1. m \in DOMAIN hist /\ hist[m].life = l /\ desc.sub[hist[m].p] = t
    BY DEF EpisodeRows
  <2>2. m \in buffer
    BY <1>5, <1>8, <2>1
  <2> QED
    BY <1>l, <1>1, <1>3, <2>1, <2>2 DEF EpisodeInv, BufferOfTheOpen
<1> HIDE DEF n, done, ends, buf
<1>14. RowsAreRuns'
  BY <1>5, <1>6, <1>8, <1>9 DEF EpisodeInv, RowsAreRuns
<1>15. BufferOfTheOpen'
  <2> SUFFICES ASSUME NEW m \in buffer'
               PROVE  /\ hist'[m].life = life
                      /\ desc.sub[hist'[m].p] \in desc.txn => txn'[desc.sub[hist'[m].p]] = "TXN_OPEN"
    BY <1>6 DEF BufferOfTheOpen
  <2>1. ~ends /\ txn' = [txn EXCEPT ![s] = "TXN_OPEN"] /\ m \in buf
    BY <1>6
  <2>2. CASE m = n
    BY <1>s, <1>1, <1>8, <2>1, <2>2
  <2>3. CASE m # n
    BY <1>1, <1>5, <1>8, <2>1, <2>3 DEF EpisodeInv, RowsAreRuns, BufferOfTheOpen
  <2> QED
    BY <2>2, <2>3
<1>16. OpenIsBuffered'
  <2> SUFFICES ASSUME NEW t \in desc.txn
               PROVE  /\ txn'[t] = "TXN_NONE" => EpisodeRows(now, t)' = {}
                      /\ txn'[t] = "TXN_OPEN" => EpisodeRows(now, t)' \cap durable' = {}
                      /\ txn'[t] = "TXN_OPEN" /\ conn' = "txn" => EpisodeRows(now, t)' \subseteq buffer'
    BY <1>l, <1>6 DEF OpenIsBuffered, EpisodeRows
  <2>1. CASE t = s
    <3>1. txn'[t] = IF ends THEN "TXN_DONE" ELSE "TXN_OPEN"
      BY <1>1, <1>6, <2>1
    <3>2. ~ends => ~done
      BY DEF ends
    <3> QED
      BY <1>6, <1>12, <2>1, <3>1, <3>2
  <2>2. CASE t # s
    <3>1. txn'[t] = txn[t] /\ txn[t] # "TXN_OPEN"
      BY <1>1, <1>3, <1>6, <2>2
    <3>2. EpisodeRows(now, t)' = EpisodeRows(now, t)
      BY <1>8, <2>2
    <3> QED
      BY <1>l, <3>1, <3>2 DEF EpisodeInv, OpenIsBuffered
  <2> QED
    BY <2>1, <2>2
<1>17. EpisodeAtomic'
  <2> SUFFICES ASSUME NEW l \in 1 .. life, NEW t \in desc.txn
               PROVE  \/ EpisodeRows(l, t)' \subseteq durable'
                      \/ EpisodeRows(l, t)' \cap durable' = {}
    BY <1>6 DEF EpisodeAtomic
  <2>1. CASE l = now /\ t = s
    <3>1. EpisodeRows(l, t)' \subseteq buf /\ EpisodeRows(l, t)' \cap durable = {}
      BY <1>12, <2>1
    <3> QED
      BY <1>6, <3>1
  <2>2. CASE ~(l = now /\ t = s)
    <3>1. EpisodeRows(l, t)' = EpisodeRows(l, t) /\ EpisodeRows(l, t) \cap buf = {}
      BY <1>8, <1>13, <2>2
    <3>2. EpisodeRows(l, t) \subseteq durable \/ EpisodeRows(l, t) \cap durable = {}
      BY DEF EpisodeInv, EpisodeAtomic
    <3> QED
      BY <1>6, <3>1, <3>2
  <2> QED
    BY <2>1, <2>2
<1>18. CommitMeansFulfilled'
  <2> SUFFICES ASSUME NEW t \in desc.txn, EpisodeRows(now, t)' \cap durable' # {}
               PROVE  sub_all(desc, latch', t, FULFILLED) /\ txn'[t] = "TXN_DONE"
    BY <1>l, <1>6 DEF CommitMeansFulfilled, EpisodeRows
  <2>1. CASE t = s
    <3>1. done /\ ends
      BY <1>6, <1>12, <2>1 DEF ends
    <3> QED
      BY <1>1, <1>6, <1>7, <2>1, <3>1
  <2>2. CASE t # s
    <3>1. EpisodeRows(now, t)' = EpisodeRows(now, t) /\ EpisodeRows(now, t) \cap buf = {}
      BY <1>8, <1>13, <2>2
    <3>2. EpisodeRows(now, t) \cap durable # {}
      BY <1>6, <3>1
    <3>3. sub_all(desc, latch, t, FULFILLED) /\ txn[t] = "TXN_DONE"
      BY <1>l, <1>9, <3>2 DEF EpisodeInv, CommitMeansFulfilled, Alive, LiveStates
    <3>4. txn'[t] = txn[t]
      BY <1>1, <1>6, <2>2
    <3> QED
      BY <3>3, <3>4, FulfilledStays
  <2> QED
    BY <2>1, <2>2
<1> QED
  BY <1>0, <1>14, <1>15, <1>16, <1>17, <1>18 DEF EpisodeInv

\* A new life starts with no row of its own.
LEMMA NewLife ==
  ASSUME EpisodeInv, IInv', state = "Unsigned", life' = life + 1,
         UNCHANGED <<desc, buffer, durable, hist>>
  PROVE  EpisodeInv'
<1>1. life \in Nat /\ buffer = {}
  BY DEF EpisodeInv, IInv, TypeOK, Ended, EpisodeOwnsTransaction
<1>l. PICK new : new = life + 1
  OBVIOUS
<1>2. \A s : EpisodeRows(new, s)' = {}
  <2> SUFFICES ASSUME NEW s, NEW n \in EpisodeRows(new, s)' PROVE FALSE
    OBVIOUS
  <2>1. n \in DOMAIN hist /\ hist[n].life = new
    BY DEF EpisodeRows
  <2> QED
    BY <1>l, <1>1, <2>1 DEF EpisodeInv, RowsAreRuns
<1>3. \A l, s : EpisodeRows(l, s)' = EpisodeRows(l, s)
  BY DEF EpisodeRows
<1>4. RowsAreRuns' /\ BufferOfTheOpen'
  BY <1>1 DEF EpisodeInv, RowsAreRuns, BufferOfTheOpen
<1>5. OpenIsBuffered' /\ CommitMeansFulfilled'
  <2>1. \A s \in desc.txn : {n \in DOMAIN hist' : /\ hist'[n].wrote
                                                 /\ hist'[n].life = life'
                                                 /\ desc'.sub[hist'[n].p] = s} = {}
    BY <1>l, <1>2 DEF EpisodeRows
  <2> QED
    BY <2>1 DEF OpenIsBuffered, CommitMeansFulfilled, EpisodeRows
<1>6. EpisodeAtomic'
  <2> SUFFICES ASSUME NEW l \in 1 .. life', NEW s \in desc.txn
               PROVE  \/ EpisodeRows(l, s)' \subseteq durable
                      \/ EpisodeRows(l, s)' \cap durable = {}
    BY DEF EpisodeAtomic
  <2>1. CASE l = new
    BY <1>2, <2>1
  <2>2. CASE l \in 1 .. life
    BY <1>3, <2>2 DEF EpisodeInv, EpisodeAtomic
  <2> QED
    BY <1>l, <1>1, <2>1, <2>2
<1> QED
  BY <1>4, <1>5, <1>6 DEF EpisodeInv

\* Every step keeps the invariant.
LEMMA StepEpisode == EpisodeInv /\ [Next]_vars => EpisodeInv'
<1> SUFFICES ASSUME EpisodeInv, [Next]_vars PROVE EpisodeInv'
  OBVIOUS
<1>0. IInv'
  BY StepIInv DEF EpisodeInv
<1>1. CASE Sign
  BY <1>0, <1>1, NewLife DEF Sign, store
<1>2. CASE FulfillRefused \/ Wait \/ HostAlloc \/ Park \/ \E i \in Pledges(desc) : FulfillGated(i)
  <2>1. UNCHANGED <<desc, state, latch, txn, conn, buffer, durable, hist, life>>
    BY <1>2 DEF FulfillRefused, Wait, HostAlloc, Park, FulfillGated, inst, store, ghost
  <2> QED
    BY <1>0, <2>1 DEF EpisodeInv, RowsAreRuns, BufferOfTheOpen, OpenIsBuffered,
         EpisodeAtomic, CommitMeansFulfilled, EpisodeRows, Alive
<1>3. CASE \E i \in Pledges(desc), outcome \in Outcomes, wrote, commitOk \in BOOLEAN :
             FulfillRun(i, outcome, wrote, commitOk)
  BY <1>3, LooseRun, EpisodeRun
<1>4. CASE Break \/ Crash
  <2>1. /\ conn' = "closed" /\ buffer' = {} /\ Alive
        /\ UNCHANGED <<desc, latch, txn, durable, hist, life>>
    BY <1>4 DEF Break, Crash, Alive
  <2> QED
    BY <1>0, <2>1 DEF EpisodeInv, RowsAreRuns, BufferOfTheOpen, OpenIsBuffered,
         EpisodeAtomic, CommitMeansFulfilled, EpisodeRows
<1>5. CASE Resume
  BY <1>0, <1>5, NewLife DEF Resume, store
<1>6. CASE UNCHANGED vars
  BY <1>0, <1>6 DEF vars, inst, store, ghost, EpisodeInv, RowsAreRuns, BufferOfTheOpen,
       OpenIsBuffered, EpisodeAtomic, CommitMeansFulfilled, EpisodeRows, Alive
<1> QED
  BY <1>1, <1>2, <1>3, <1>4, <1>5, <1>6 DEF Next, Fulfill

\* The invariant holds in every reachable state.
LEMMA EpisodeInvariance == Spec => []EpisodeInv
BY InitEpisode, StepEpisode, PTL DEF Spec

-----------------------------------------------------------------------------
(***************************************************************************)
(* The rows behind a fulfilled subcontract.  An episode that is not done   *)
(* has a pledge that is not latched Ok, so the run that completes the      *)
(* subcontract is the one that commits, and its receipt says whether the   *)
(* backend did.                                                            *)
(***************************************************************************)

\* Where there is a store, an episode that is not done is not fulfilled.
Unfulfilled(fates, latches) ==
  desc.hasStore => \A s \in desc.txn :
    fates[s] # "TXN_DONE" => ~sub_all(desc, latches, s, FULFILLED)

\* A live instance of a contract with a store has its connection, and a contract
\* without one never wrote a row.
Connected ==
  /\ state \in LiveStates /\ desc.hasStore => conn # "closed"
  /\ ~desc.hasStore => conn = "closed" /\ \A n \in DOMAIN hist : ~hist[n].wrote

DurableInv ==
  /\ EpisodeInv
  /\ Unfulfilled(txn, latch)
  /\ row # NoRow => Unfulfilled(row.txn, row.latch)
  /\ Connected
  /\ FulfilledIsDurable

\* A run moves the latches of its own subcontract only.
LEMMA OtherSubs ==
  ASSUME EpisodeInv, NEW i \in Pledges(desc), NEW outcome \in Outcomes,
         NEW wrote \in BOOLEAN, NEW commitOk \in BOOLEAN,
         FulfillRun(i, outcome, wrote, commitOk),
         NEW s, s # desc.sub[i]
  PROVE  sub_all(desc, latch', s, FULFILLED) => sub_all(desc, latch, s, FULFILLED)
<1>1. latch \in [Pledges(desc) -> Latches]
  BY DEF EpisodeInv, IInv, TypeOK
<1>2. latch' = latch \/ latch' = latch_pledge(latch, i, outcome)
  BY DEF FulfillRun
<1>3. \A j \in Pledges(desc) : j # i => latch'[j] = latch[j]
  BY <1>1, <1>2 DEF latch_pledge
<1> QED
  BY <1>3 DEF sub_all, SubPledges

\* A run that is not an Ok completes no subcontract.
LEMMA OnlyOkCompletes ==
  ASSUME EpisodeInv, NEW i \in Pledges(desc), NEW outcome \in Outcomes,
         NEW wrote \in BOOLEAN, NEW commitOk \in BOOLEAN,
         FulfillRun(i, outcome, wrote, commitOk), outcome # "Ok",
         ~sub_all(desc, latch, desc.sub[i], FULFILLED)
  PROVE  ~sub_all(desc, latch', desc.sub[i], FULFILLED)
<1>1. latch \in [Pledges(desc) -> Latches]
  BY DEF EpisodeInv, IInv, TypeOK
<1>2. CASE latch' = latch
  BY <1>2
<1>3. CASE latch' # latch
  <2>1. latch'[i] = BROKEN
    BY <1>1, <1>3 DEF FulfillRun, latch_pledge, Outcomes
  <2>2. i \in SubPledges(desc, desc.sub[i])
    BY DEF SubPledges
  <2> QED
    BY <2>1, <2>2 DEF sub_all, BROKEN, FULFILLED
<1> QED
  BY <1>2, <1>3

\* The episode of a run that goes through the gate is not done, and all its rows
\* are in the transaction the run writes into.
LEMMA RunBuffers ==
  ASSUME EpisodeInv, NEW i \in Pledges(desc), NEW outcome \in Outcomes,
         NEW wrote \in BOOLEAN, NEW commitOk \in BOOLEAN,
         FulfillRun(i, outcome, wrote, commitOk), Tracked(i)
  PROVE  /\ desc.sub[i] \in desc.txn /\ txn[desc.sub[i]] # "TXN_DONE"
         /\ EpisodeRows(life, desc.sub[i]) \subseteq buffer
         /\ wrote => Len(hist) + 1 \in Buffered(i, Len(hist) + 1, wrote)
         /\ buffer \subseteq Buffered(i, Len(hist) + 1, wrote)
<1>s. PICK s : s = desc.sub[i]
  OBVIOUS
<1>1. /\ s \in desc.txn /\ s \in Subs(desc)
      /\ txn \in [Subs(desc) -> TxnStates] /\ conn \in {"closed", "idle", "txn"}
  BY <1>s, TrackedSub, TxnSubs DEF EpisodeInv, IInv, TypeOK, Tracked
<1>2. txn[s] # "TXN_DONE" /\ conn # "closed"
  BY <1>s DEF FulfillRun, MayRun, GateDone, Tracked
<1>3. txn[s] = "TXN_OPEN" => conn = "txn"
  BY <1>1, <1>2 DEF EpisodeInv, IInv, EpisodeOwnsTransaction
<1>4. txn[s] = "TXN_NONE" \/ txn[s] = "TXN_OPEN"
  BY <1>1, <1>2 DEF TxnStates
<1>5. ConnInside(i) = "txn"
  BY <1>s, <1>3, <1>4 DEF ConnInside, Opens
<1>6. EpisodeRows(life, s) \subseteq buffer
  BY <1>1, <1>3, <1>4 DEF EpisodeInv, OpenIsBuffered
<1>7. /\ wrote => Len(hist) + 1 \in Buffered(i, Len(hist) + 1, wrote)
      /\ buffer \subseteq Buffered(i, Len(hist) + 1, wrote)
  BY <1>5 DEF Buffered
<1> QED
  BY <1>s, <1>1, <1>2, <1>6, <1>7

\* A run keeps the invariant: the completing one commits its rows or says it did not.
LEMMA RunDurable ==
  ASSUME DurableInv, NEW i \in Pledges(desc), NEW outcome \in Outcomes,
         NEW wrote \in BOOLEAN, NEW commitOk \in BOOLEAN,
         FulfillRun(i, outcome, wrote, commitOk)
  PROVE  DurableInv'
<1>e. EpisodeInv
  BY DEF DurableInv
<1>0. EpisodeInv'
  BY <1>e, StepEpisode DEF Next, Fulfill
<1>n. PICK n : n = Len(hist) + 1
  OBVIOUS
<1>l. PICK now : now = life
  OBVIOUS
<1>s. PICK own : own = desc.sub[i]
  OBVIOUS
<1>1. /\ n \notin DOMAIN hist
      /\ DOMAIN hist' = DOMAIN hist \cup {n}
      /\ \A m \in DOMAIN hist : hist'[m] = hist[m]
      /\ hist'[n].life = now /\ hist'[n].p = i
      /\ hist'[n].ok = Delivered(outcome, commitOk)
  BY <1>e, <1>n, <1>l, RunRows
<1>2. \A t : EpisodeRows(now, t)' =
        IF wrote /\ t = own THEN EpisodeRows(now, t) \cup {n} ELSE EpisodeRows(now, t)
  <2>1. \A l, t : EpisodeRows(l, t)' =
           IF wrote /\ l = life /\ t = desc.sub[i]
           THEN EpisodeRows(l, t) \cup {Len(hist) + 1} ELSE EpisodeRows(l, t)
    BY <1>e, RunRows
  <2> QED
    BY <1>n, <1>l, <1>s, <2>1, Zenon
<1>3. UNCHANGED <<desc, life, row>> /\ state \in LiveStates /\ state # "Unsigned"
  BY DEF FulfillRun, MayRun, LiveStates
<1>4. durable \subseteq durable'
  BY DEF FulfillRun, Written
<1>5. Connected'
  <2>1. CASE desc.hasStore
    <3>1. conn # "closed"
      BY <1>3, <2>1 DEF DurableInv, Connected
    <3>2. conn' # "closed"
      BY <3>1 DEF FulfillRun, ConnInside
    <3> QED
      BY <1>3, <2>1, <3>2 DEF Connected
  <2>2. CASE ~desc.hasStore
    <3>1. conn = "closed" /\ \A m \in DOMAIN hist : ~hist[m].wrote
      BY <2>2 DEF DurableInv, Connected
    <3>2. ~wrote /\ ~Tracked(i)
      BY <3>1 DEF FulfillRun, Tracked
    <3>3. conn' = conn
      BY <3>2 DEF FulfillRun, ConnInside, Opens, RollsBack, Completes
    <3>4. hist' = Append(hist, [life |-> life, p |-> i, outcome |-> outcome,
                                wrote |-> wrote, ok |-> Delivered(outcome, commitOk)])
      BY DEF FulfillRun
    <3>5. hist'[n].wrote = wrote
      BY <1>e, <1>n, <3>4 DEF EpisodeInv, IInv, TypeOK
    <3> QED
      BY <1>1, <1>3, <2>2, <3>1, <3>2, <3>3, <3>5 DEF Connected
  <2> QED
    BY <2>1, <2>2
<1>6. desc.hasStore /\ own \in desc.txn => Tracked(i)
  BY <1>s, <1>3 DEF DurableInv, Connected, Tracked
<1>7. \A t \in desc.txn : t # own => txn'[t] = txn[t]
  <2>1. txn \in [Subs(desc) -> TxnStates] /\ desc.txn \subseteq Subs(desc)
    BY <1>e, TxnSubs DEF EpisodeInv, IInv, TypeOK
  <2> QED
    BY <1>s, <2>1 DEF FulfillRun
<1>8. desc.hasStore /\ own \in desc.txn /\ txn'[own] # "TXN_DONE" =>
        ~sub_all(desc, latch', own, FULFILLED)
  <2> SUFFICES ASSUME desc.hasStore, own \in desc.txn, txn'[own] # "TXN_DONE"
               PROVE  ~sub_all(desc, latch', own, FULFILLED)
    OBVIOUS
  <2>1. txn \in [Subs(desc) -> TxnStates] /\ own \in Subs(desc) /\ Tracked(i)
    BY <1>e, <1>6, TxnSubs DEF EpisodeInv, IInv, TypeOK
  <2>2. ~RollsBack(i, outcome) /\ ~Completes(i, outcome, latch')
    BY <1>s, <2>1 DEF FulfillRun
  <2> QED
    BY <1>s, <2>1, <2>2 DEF RollsBack, Completes, Outcomes
<1>9. \A t : t # own => (sub_all(desc, latch', t, FULFILLED) =>
                           sub_all(desc, latch, t, FULFILLED))
  BY <1>e, <1>s, OtherSubs
<1>10. Unfulfilled(txn, latch)'
  BY <1>3, <1>7, <1>8, <1>9 DEF DurableInv, Unfulfilled
<1>11. (row # NoRow => Unfulfilled(row.txn, row.latch))'
  BY <1>3 DEF DurableInv, Unfulfilled
<1>12. FulfilledIsDurable'
  <2> SUFFICES ASSUME NEW t \in desc.txn, sub_all(desc, latch', t, FULFILLED),
                      \A m \in DOMAIN hist' :
                        hist'[m].life = now /\ desc.sub[hist'[m].p] = t => hist'[m].ok
               PROVE  EpisodeRows(now, t)' \subseteq durable'
    BY <1>l, <1>3 DEF FulfilledIsDurable, EpisodeRows
  <2>1. CASE ~desc.hasStore
    <3>1. EpisodeRows(now, t)' = {}
      BY <1>3, <1>5, <2>1 DEF Connected, EpisodeRows
    <3> QED
      BY <3>1
  <2>2. CASE desc.hasStore /\ t # own
    <3>1. sub_all(desc, latch, t, FULFILLED)
      BY <1>9, <2>2
    <3>2. \A m \in DOMAIN hist :
            hist[m].life = life /\ desc.sub[hist[m].p] = t => hist[m].ok
      BY <1>l, <1>1
    <3>3. EpisodeRows(now, t) \subseteq durable
      BY <1>l, <1>3, <3>1, <3>2 DEF DurableInv, FulfilledIsDurable, Alive
    <3> QED
      BY <1>2, <1>4, <2>2, <3>3
  <2>3. CASE desc.hasStore /\ t = own
    <3>1. Tracked(i)
      BY <1>6, <2>3
    <3>2. /\ txn[own] # "TXN_DONE" /\ EpisodeRows(now, own) \subseteq buffer
          /\ wrote => n \in Buffered(i, n, wrote)
          /\ buffer \subseteq Buffered(i, n, wrote)
      BY <1>e, <1>n, <1>l, <1>s, <3>1, RunBuffers
    <3>3. ~sub_all(desc, latch, own, FULFILLED)
      BY <2>3, <3>2 DEF DurableInv, Unfulfilled
    <3>4. outcome = "Ok"
      BY <1>e, <1>s, <2>3, <3>3, OnlyOkCompletes
    <3>5. hist'[n].ok
      BY <1>s, <1>1, <2>3
    <3>6. commitOk
      BY <1>1, <3>5 DEF Delivered
    <3>7. Completes(i, outcome, latch')
      BY <1>s, <2>3, <3>1, <3>4 DEF Completes
    <3>8. Buffered(i, n, wrote) \subseteq durable'
      BY <1>n, <3>4, <3>6, <3>7 DEF FulfillRun
    <3> QED
      BY <1>2, <2>3, <3>2, <3>8
  <2> QED
    BY <2>1, <2>2, <2>3
<1> QED
  BY <1>0, <1>5, <1>10, <1>11, <1>12 DEF DurableInv

\* A new life has written nothing yet.
LEMMA LifeDurable ==
  ASSUME DurableInv, EpisodeInv', life' = life + 1,
         UNCHANGED <<desc, row, durable, hist>>,
         conn' = IF desc.hasStore THEN "idle" ELSE "closed",
         Unfulfilled(txn, latch)'
  PROVE  DurableInv'
<1>1. Connected'
  BY DEF DurableInv, Connected
<1>2. (row # NoRow => Unfulfilled(row.txn, row.latch))'
  BY DEF DurableInv, Unfulfilled
<1>3. FulfilledIsDurable'
  <2>1. life \in Nat /\ \A n \in DOMAIN hist : hist[n].life \in 1 .. life
    BY DEF DurableInv, EpisodeInv, RowsAreRuns, IInv, TypeOK
  <2>2. \A n \in DOMAIN hist' : hist'[n].life # life'
    BY <2>1
  <2> QED
    BY <2>2 DEF FulfilledIsDurable, EpisodeRows
<1> QED
  BY <1>1, <1>2, <1>3 DEF DurableInv

LEMMA InitDurable == Init => DurableInv
<1> SUFFICES ASSUME Init PROVE DurableInv
  OBVIOUS
<1>1. EpisodeInv
  BY InitEpisode
<1>2. /\ hist = << >> /\ state = "Unsigned" /\ row = NoRow /\ conn = "closed"
      /\ \A j \in Pledges(desc) : latch[j] = PENDING
  BY DEF Init
<1>3. \A s : ~sub_all(desc, latch, s, FULFILLED)
  BY <1>2 DEF sub_all, SubPledges, PENDING, FULFILLED
<1>4. DOMAIN hist = {}
  BY <1>2
<1> QED
  BY <1>1, <1>2, <1>3, <1>4 DEF DurableInv, Unfulfilled, Connected, FulfilledIsDurable,
       Alive, LiveStates

LEMMA StepDurable == DurableInv /\ [Next]_vars => DurableInv'
<1> SUFFICES ASSUME DurableInv, [Next]_vars PROVE DurableInv'
  OBVIOUS
<1>0. EpisodeInv'
  BY StepEpisode DEF DurableInv
<1>1. CASE Sign
  <2>1. UNCHANGED <<desc, latch, txn, row, durable, hist>>
    BY <1>1 DEF Sign, store
  <2>2. Unfulfilled(txn, latch)'
    BY <2>1 DEF DurableInv, Unfulfilled
  <2> QED
    BY <1>0, <1>1, <2>1, <2>2, LifeDurable DEF Sign
<1>2. CASE FulfillRefused \/ Wait \/ HostAlloc \/ \E i \in Pledges(desc) : FulfillGated(i)
  <2>1. UNCHANGED <<desc, state, latch, txn, conn, row, durable, hist, life>>
    BY <1>2 DEF FulfillRefused, Wait, HostAlloc, FulfillGated, store, ghost
  <2> QED
    BY <1>0, <2>1 DEF DurableInv, Unfulfilled, Connected, FulfilledIsDurable,
         EpisodeRows, Alive
<1>3. CASE \E i \in Pledges(desc), outcome \in Outcomes, wrote, commitOk \in BOOLEAN :
             FulfillRun(i, outcome, wrote, commitOk)
  BY <1>3, RunDurable
<1>4. CASE Break \/ Crash
  <2>1. /\ conn' = "closed" /\ state' \notin LiveStates /\ Alive
        /\ UNCHANGED <<desc, latch, txn, row, durable, hist, life>>
    BY <1>4 DEF Break, Crash, Alive, LiveStates
  <2> QED
    BY <1>0, <2>1 DEF DurableInv, Unfulfilled, Connected, FulfilledIsDurable, EpisodeRows
<1>5. CASE Park
  <2>1. UNCHANGED <<desc, state, latch, txn, conn, durable, hist, life>>
    BY <1>5 DEF Park, inst
  <2>2. row'.txn = txn /\ row'.latch = latch
    BY <1>5 DEF Park, ParkRow
  <2> QED
    BY <1>0, <2>1, <2>2 DEF DurableInv, Unfulfilled, Connected, FulfilledIsDurable,
         EpisodeRows, Alive
<1>6. CASE Resume
  <2>1. /\ UNCHANGED <<desc, row, durable, hist>> /\ row # NoRow
        /\ latch' = row.latch /\ txn' = row.txn
    BY <1>6 DEF Resume, ResumedTxn, store
  <2>2. Unfulfilled(txn, latch)'
    BY <2>1 DEF DurableInv, Unfulfilled
  <2> QED
    BY <1>0, <1>6, <2>1, <2>2, LifeDurable DEF Resume
<1>7. CASE UNCHANGED vars
  BY <1>0, <1>7 DEF vars, inst, store, ghost, DurableInv, Unfulfilled, Connected,
       FulfilledIsDurable, EpisodeRows, Alive
<1> QED
  BY <1>1, <1>2, <1>3, <1>4, <1>5, <1>6, <1>7 DEF Next, Fulfill

-----------------------------------------------------------------------------
(* The theorems.                                                            *)

\* All or nothing, for every descriptor, every number of runs and of lives, and
\* whatever the backend refuses: the database never keeps a part of an episode.
THEOREM EpisodesAreAtomic == Spec => []EpisodeAtomic
BY EpisodeInvariance, PTL DEF EpisodeInv

\* Rows of an episode in the database mean that every pledge of its subcontract
\* is latched Ok and that the episode is closed for good in this life.
THEOREM CommitsAreFulfilled == Spec => []CommitMeansFulfilled
BY EpisodeInvariance, PTL DEF EpisodeInv

\* For every descriptor and backend: when every fulfillment in a subcontract was
\* answered GEAS_OK and it reads as fulfilled, all its rows are in the database.
THEOREM FulfilledRowsStand == Spec => []FulfilledIsDurable
<1>1. DurableInv => FulfilledIsDurable
  BY DEF DurableInv
<1> QED
  BY <1>1, InitDurable, StepDurable, PTL DEF Spec

=============================================================================
