---------------------------- MODULE Bridge_proofs ----------------------------
(***************************************************************************)
(* What Bridge keeps for any number of replicas, sessions, tokens and      *)
(* calls, with servers that stop and die: one instance is behind one       *)
(* stream or one row, a park keeps the work, a broken token stays dead.    *)
(***************************************************************************)
EXTENDS Bridge, TLAPS

USE BridgeNone, BridgeBounds DEF Phases, Move, sessv, callv, histv

-----------------------------------------------------------------------------
(* The inductive invariant, in parts.                                       *)

\* The session has, or is about to have, the one instance of its token: signed
\* and not yet inserted, in the table, or popped and not yet torn down.
Claimant(s) == ph[s] = "signed" \/ live[s] \/ (ender[s] # "none" /\ ~torn[s])

\* What the phase of a handler says about its session.
Phased ==
  \A s \in Sessions :
    /\ ph[s] = "none" <=> tok[s] = None
    /\ ph[s] = "none" <=> srv[s] = None
    /\ live[s] => ph[s] \in {"inserted", "yield", "wait", "exit"} /\ ender[s] = "none"
    /\ ender[s] # "none" => ph[s] \notin {"none", "signed", "built"}
    /\ torn[s] => ender[s] # "none" /\ broken[s]
    /\ kept[s] # None => torn[s] /\ kept[s] = work[s]

\* One claimant to a token, and none beside a row.
Claimed ==
  /\ \A r, s \in Sessions : Claimant(r) /\ Claimant(s) /\ tok[r] = tok[s] => r = s
  /\ \A s \in Sessions : Claimant(s) => row[tok[s]] = None
  /\ \A t \in Tokens : (\A s \in Sessions : tok[s] # t) => row[t] = None

\* A dead token was issued, has no row, and its claimant reads broken.
Dead ==
  \A t \in dead :
    /\ row[t] = None
    /\ \E s \in Sessions : tok[s] = t
    /\ \A s \in Sessions : Claimant(s) /\ tok[s] = t => broken[s] /\ ph[s] # "signed"

\* A unary call works on a session that was in the table, under its lock.
Called ==
  \A c \in Calls :
    /\ cs[c] # None <=> cpc[c] # "idle"
    /\ cs[c] # None => live[cs[c]] \/ ender[cs[c]] # "none"
    /\ cpc[c] = "body" => /\ lock[cs[c]] = c /\ ~broken[cs[c]]
                          /\ work[cs[c]] < MaxWork

BridgeInv == TypeOK /\ Phased /\ Claimed /\ Dead /\ Called

\* A step that only moves a handler on, or touches the stream's own flags.
LEMMA QuietKeeps ==
  ASSUME BridgeInv, TypeOK',
         UNCHANGED <<srv, tok, live, ender, torn, lock, broken, work, row, callv, histv>>,
         \A s \in Sessions : \/ ph'[s] = ph[s]
                            \/ /\ ph[s] \in {"inserted", "yield", "wait"}
                               /\ ph'[s] \in {"yield", "wait", "exit"}
  PROVE  BridgeInv'
PROOF
  <1>1. Phased'
    BY DEF BridgeInv, Phased
  <1>2. \A s \in Sessions : Claimant(s)' <=> Claimant(s)
    BY DEF Claimant
  <1>3. Claimed'
    BY <1>2 DEF BridgeInv, Claimed
  <1>4. Dead'
    BY <1>2 DEF BridgeInv, Dead
  <1>5. Called'
    BY DEF BridgeInv, Called
  <1> QED
    BY <1>1, <1>3, <1>4, <1>5 DEF BridgeInv

-----------------------------------------------------------------------------
(* Every action keeps the invariant.                                        *)

LEMMA InitBridgeInv == Init => BridgeInv
PROOF
  <1> SUFFICES ASSUME Init PROVE BridgeInv
    OBVIOUS
  <1>1. TypeOK
    BY DEF Init, TypeOK
  <1>2. Phased /\ Claimed /\ Dead /\ Called
    BY DEF Init, Phased, Claimed, Claimant, Dead, Called
  <1> QED
    BY <1>1, <1>2 DEF BridgeInv

LEMMA SessionSignKeeps ==
  ASSUME BridgeInv, NEW s \in Sessions, NEW v \in Servers, NEW t \in Tokens, SessionSign(s, v, t)
  PROVE  BridgeInv'
PROOF
  <1>1. TypeOK'
    BY DEF BridgeInv, TypeOK, Phased, Called, SessionSign
  <1>2. Phased'
    BY DEF BridgeInv, TypeOK, Phased, SessionSign
  <1>3. Claimed'
    BY DEF BridgeInv, TypeOK, Phased, Claimed, Claimant, SessionSign
  <1>4. Dead'
    BY DEF BridgeInv, TypeOK, Phased, Claimed, Claimant, Dead, SessionSign
  <1>5. Called'
    BY DEF BridgeInv, TypeOK, Phased, Called, SessionSign
  <1> QED
    BY <1>1, <1>2, <1>3, <1>4, <1>5 DEF BridgeInv

LEMMA SessionInsertKeeps ==
  ASSUME BridgeInv, NEW s \in Sessions, SessionInsert(s)
  PROVE  BridgeInv'
PROOF
  <1>1. TypeOK'
    BY DEF BridgeInv, TypeOK, Phased, Called, SessionInsert
  <1>2. Phased'
    BY DEF BridgeInv, TypeOK, Phased, SessionInsert
  <1>3. Claimed'
    BY DEF BridgeInv, TypeOK, Phased, Claimed, Claimant, SessionInsert
  <1>4. Dead'
    BY DEF BridgeInv, TypeOK, Phased, Claimed, Claimant, Dead, SessionInsert
  <1>5. Called'
    BY DEF BridgeInv, TypeOK, Phased, Called, SessionInsert
  <1> QED
    BY <1>1, <1>2, <1>3, <1>4, <1>5 DEF BridgeInv

LEMMA ResumeReadKeeps ==
  ASSUME BridgeInv, NEW s \in Sessions, NEW v \in Servers, NEW t \in Tokens, ResumeRead(s, v, t)
  PROVE  BridgeInv'
PROOF
  <1>1. TypeOK'
    BY DEF BridgeInv, TypeOK, Phased, Called, ResumeRead
  <1>2. Phased'
    BY DEF BridgeInv, TypeOK, Phased, ResumeRead
  <1>3. Claimed'
    BY DEF BridgeInv, TypeOK, Phased, Claimed, Claimant, ResumeRead
  <1>4. Dead'
    BY DEF BridgeInv, TypeOK, Phased, Claimed, Claimant, Dead, ResumeRead
  <1>5. Called'
    BY DEF BridgeInv, TypeOK, Phased, Called, ResumeRead
  <1> QED
    BY <1>1, <1>2, <1>3, <1>4, <1>5 DEF BridgeInv

LEMMA ResumeClaimKeeps ==
  ASSUME BridgeInv, NEW s \in Sessions, ResumeClaim(s)
  PROVE  BridgeInv'
PROOF
  <1>1. TypeOK'
    <2>1. tok[s] \in Tokens /\ srv[s] \in Servers
      BY DEF BridgeInv, TypeOK, Phased, ResumeClaim
    <2>2. CASE row[tok[s]] # None
      BY <2>1, <2>2 DEF BridgeInv, TypeOK, ResumeClaim
    <2>3. CASE row[tok[s]] = None
      BY <2>1, <2>3 DEF BridgeInv, TypeOK, ResumeClaim
    <2> QED
      BY <2>2, <2>3
  <1>2. Phased'
    BY DEF BridgeInv, TypeOK, Phased, ResumeClaim
  <1>3. Claimed'
    BY DEF BridgeInv, TypeOK, Phased, Claimed, Claimant, ResumeClaim
  <1>4. Dead'
    BY DEF BridgeInv, TypeOK, Phased, Claimed, Claimant, Dead, ResumeClaim
  <1>5. Called'
    BY DEF BridgeInv, TypeOK, Phased, Called, ResumeClaim
  <1> QED
    BY <1>1, <1>2, <1>3, <1>4, <1>5 DEF BridgeInv

LEMMA ResumeClaimFailsKeeps ==
  ASSUME BridgeInv, NEW s \in Sessions, ResumeClaimFails(s)
  PROVE  BridgeInv'
PROOF
  <1>1. TypeOK'
    BY DEF BridgeInv, TypeOK, Phased, Called, ResumeClaimFails
  <1>2. Phased'
    BY DEF BridgeInv, TypeOK, Phased, ResumeClaimFails
  <1>3. Claimed'
    BY DEF BridgeInv, TypeOK, Phased, Claimed, Claimant, ResumeClaimFails
  <1>4. Dead'
    BY DEF BridgeInv, TypeOK, Phased, Claimed, Claimant, Dead, ResumeClaimFails
  <1>5. Called'
    BY DEF BridgeInv, TypeOK, Phased, Called, ResumeClaimFails
  <1> QED
    BY <1>1, <1>2, <1>3, <1>4, <1>5 DEF BridgeInv

LEMMA StreamEndsKeeps ==
  ASSUME BridgeInv, NEW s \in Sessions, StreamEnds(s)
  PROVE  BridgeInv'
PROOF
  <1>1. TypeOK'
    BY DEF BridgeInv, TypeOK, StreamEnds
  <1> QED
    BY <1>1, QuietKeeps DEF BridgeInv, TypeOK, StreamEnds

LEMMA AddCallbackKeeps ==
  ASSUME BridgeInv, NEW s \in Sessions, AddCallback(s)
  PROVE  BridgeInv'
PROOF
  <1>1. TypeOK'
    BY DEF BridgeInv, TypeOK, AddCallback
  <1> QED
    BY <1>1, QuietKeeps DEF BridgeInv, TypeOK, AddCallback

LEMMA YieldKeeps ==
  ASSUME BridgeInv, NEW s \in Sessions, Yield(s)
  PROVE  BridgeInv'
PROOF
  <1>1. TypeOK'
    BY DEF BridgeInv, TypeOK, Yield
  <1> QED
    BY <1>1, QuietKeeps DEF BridgeInv, TypeOK, Yield

LEMMA WaitDoneKeeps ==
  ASSUME BridgeInv, NEW s \in Sessions, WaitDone(s)
  PROVE  BridgeInv'
PROOF
  <1>1. TypeOK'
    BY DEF BridgeInv, TypeOK, WaitDone
  <1> QED
    BY <1>1, QuietKeeps DEF BridgeInv, TypeOK, WaitDone

LEMMA CallbackPopsKeeps ==
  ASSUME BridgeInv, NEW s \in Sessions, CallbackPops(s)
  PROVE  BridgeInv'
PROOF
  <1>1. TypeOK'
    BY DEF BridgeInv, TypeOK, Phased, Called, CallbackPops, Pop
  <1>2. Phased'
    BY DEF BridgeInv, TypeOK, Phased, CallbackPops, Pop
  <1>3. Claimed'
    BY DEF BridgeInv, TypeOK, Phased, Claimed, Claimant, CallbackPops, Pop
  <1>4. Dead'
    BY DEF BridgeInv, TypeOK, Phased, Claimed, Claimant, Dead, CallbackPops, Pop
  <1>5. Called'
    BY DEF BridgeInv, TypeOK, Phased, Called, CallbackPops, Pop
  <1> QED
    BY <1>1, <1>2, <1>3, <1>4, <1>5 DEF BridgeInv

LEMMA HandlerPopsKeeps ==
  ASSUME BridgeInv, NEW s \in Sessions, HandlerPops(s)
  PROVE  BridgeInv'
PROOF
  <1>1. TypeOK'
    BY DEF BridgeInv, TypeOK, Phased, Called, HandlerPops, Pop
  <1>2. Phased'
    BY DEF BridgeInv, TypeOK, Phased, HandlerPops, Pop
  <1>3. Claimed'
    BY DEF BridgeInv, TypeOK, Phased, Claimed, Claimant, HandlerPops, Pop
  <1>4. Dead'
    BY DEF BridgeInv, TypeOK, Phased, Claimed, Claimant, Dead, HandlerPops, Pop
  <1>5. Called'
    BY DEF BridgeInv, TypeOK, Phased, Called, HandlerPops, Pop
  <1> QED
    BY <1>1, <1>2, <1>3, <1>4, <1>5 DEF BridgeInv

LEMMA TearDownKeeps ==
  ASSUME BridgeInv, NEW s \in Sessions, TearDown(s)
  PROVE  BridgeInv'
PROOF
  <1>1. TypeOK'
    BY DEF BridgeInv, TypeOK, Phased, Called, TearDown, Parks, Parked
  <1>2. Phased'
    BY DEF BridgeInv, TypeOK, Phased, TearDown, Parks, Parked
  <1>3. Claimed'
    BY DEF BridgeInv, TypeOK, Phased, Claimed, Claimant, TearDown, Parks, Parked
  <1>4. Dead'
    BY DEF BridgeInv, TypeOK, Phased, Claimed, Claimant, Dead, TearDown, Parks, Parked
  <1>5. Called'
    BY DEF BridgeInv, TypeOK, Phased, Called, TearDown, Parks, Parked
  <1> QED
    BY <1>1, <1>2, <1>3, <1>4, <1>5 DEF BridgeInv

LEMMA ResolveKeeps ==
  ASSUME BridgeInv, NEW c \in Calls, NEW s \in Sessions, Resolve(c, s)
  PROVE  BridgeInv'
PROOF
  <1>1. TypeOK'
    BY DEF BridgeInv, TypeOK, Phased, Called, Resolve
  <1>2. Phased'
    BY DEF BridgeInv, TypeOK, Phased, Resolve
  <1>3. Claimed'
    BY DEF BridgeInv, TypeOK, Phased, Claimed, Claimant, Resolve
  <1>4. Dead'
    BY DEF BridgeInv, TypeOK, Phased, Claimed, Claimant, Dead, Resolve
  <1>5. Called'
    BY DEF BridgeInv, TypeOK, Phased, Called, Resolve
  <1> QED
    BY <1>1, <1>2, <1>3, <1>4, <1>5 DEF BridgeInv

LEMMA FulfillRefusedKeeps ==
  ASSUME BridgeInv, NEW c \in Calls, FulfillRefused(c)
  PROVE  BridgeInv'
PROOF
  <1>1. TypeOK'
    BY DEF BridgeInv, TypeOK, Phased, Called, FulfillRefused, Answer
  <1>2. Phased'
    BY DEF BridgeInv, TypeOK, Phased, FulfillRefused, Answer
  <1>3. Claimed'
    BY DEF BridgeInv, TypeOK, Phased, Claimed, Claimant, FulfillRefused, Answer
  <1>4. Dead'
    BY DEF BridgeInv, TypeOK, Phased, Claimed, Claimant, Dead, FulfillRefused, Answer
  <1>5. Called'
    BY DEF BridgeInv, TypeOK, Phased, Called, FulfillRefused, Answer
  <1> QED
    BY <1>1, <1>2, <1>3, <1>4, <1>5 DEF BridgeInv

LEMMA FulfillBodyKeeps ==
  ASSUME BridgeInv, NEW c \in Calls, FulfillBody(c)
  PROVE  BridgeInv'
PROOF
  <1>1. TypeOK'
    BY DEF BridgeInv, TypeOK, Phased, Called, FulfillBody
  <1>2. Phased'
    BY DEF BridgeInv, TypeOK, Phased, FulfillBody
  <1>3. Claimed'
    BY DEF BridgeInv, TypeOK, Phased, Claimed, Claimant, FulfillBody
  <1>4. Dead'
    BY DEF BridgeInv, TypeOK, Phased, Claimed, Claimant, Dead, FulfillBody
  <1>5. Called'
    BY DEF BridgeInv, TypeOK, Phased, Called, FulfillBody
  <1> QED
    BY <1>1, <1>2, <1>3, <1>4, <1>5 DEF BridgeInv

LEMMA FulfillAnswersKeeps ==
  ASSUME BridgeInv, NEW c \in Calls, FulfillAnswers(c)
  PROVE  BridgeInv'
PROOF
  <1>1. TypeOK'
    BY DEF BridgeInv, TypeOK, Phased, Called, FulfillAnswers, Answer
  <1>2. Phased'
    <2>1. kept[cs[c]] = None
      BY DEF BridgeInv, TypeOK, Phased, Called, FulfillAnswers
    <2> QED
      BY <2>1 DEF BridgeInv, TypeOK, Phased, FulfillAnswers, Answer
  <1>3. Claimed'
    BY DEF BridgeInv, TypeOK, Phased, Claimed, Claimant, FulfillAnswers, Answer
  <1>4. Dead'
    BY DEF BridgeInv, TypeOK, Phased, Claimed, Claimant, Dead, FulfillAnswers, Answer
  <1>5. Called'
    BY DEF BridgeInv, TypeOK, Phased, Called, FulfillAnswers, Answer
  <1> QED
    BY <1>1, <1>2, <1>3, <1>4, <1>5 DEF BridgeInv

LEMMA BreakRpcKeeps ==
  ASSUME BridgeInv, NEW c \in Calls, BreakRpc(c)
  PROVE  BridgeInv'
PROOF
  <1>1. TypeOK'
    BY DEF BridgeInv, TypeOK, Phased, Called, BreakRpc, Answer
  <1>2. Phased'
    BY DEF BridgeInv, TypeOK, Phased, BreakRpc, Answer
  <1>3. Claimed'
    BY DEF BridgeInv, TypeOK, Phased, Claimed, Claimant, BreakRpc, Answer
  <1>4. Dead'
    <2>1. PICK s \in Sessions : s = cs[c] /\ (live[s] \/ ender[s] # "none")
      BY DEF BridgeInv, TypeOK, Called, BreakRpc
    <2>2. broken' = [broken EXCEPT ![s] = TRUE] /\ UNCHANGED <<ph, tok, live, ender, torn, row>>
      BY <2>1 DEF BreakRpc
    <2>3. \A r \in Sessions : Claimant(r)' <=> Claimant(r)
      BY <2>2 DEF Claimant
    <2>4. CASE broken[s]
      <3>1. dead' = dead
        BY <2>1, <2>4 DEF BreakRpc
      <3> QED
        BY <2>2, <2>3, <3>1 DEF BridgeInv, TypeOK, Dead
    <2>5. CASE ~broken[s]
      <3>1. dead' = dead \cup {tok[s]}
        BY <2>1, <2>5 DEF BreakRpc
      <3>2. Claimant(s) /\ ph[s] # "signed" /\ tok[s] \in Tokens
        BY <2>1, <2>5 DEF BridgeInv, TypeOK, Phased, Claimant
      <3>3. row[tok[s]] = None /\ \A r \in Sessions : Claimant(r) /\ tok[r] = tok[s] => r = s
        BY <3>2 DEF BridgeInv, Claimed
      <3> QED
        BY <2>2, <2>3, <3>1, <3>2, <3>3 DEF BridgeInv, TypeOK, Dead
    <2> QED
      BY <2>4, <2>5
  <1>5. Called'
    BY DEF BridgeInv, TypeOK, Phased, Called, BreakRpc, Answer
  <1> QED
    BY <1>1, <1>2, <1>3, <1>4, <1>5 DEF BridgeInv

LEMMA StopKeeps ==
  ASSUME BridgeInv, NEW v \in Servers, Stop(v)
  PROVE  BridgeInv'
PROOF
  <1>1. TypeOK'
    BY DEF BridgeInv, TypeOK, Stop, Mine
  <1> QED
    BY <1>1, QuietKeeps DEF BridgeInv, TypeOK, Stop, Mine

LEMMA DrainKeeps ==
  ASSUME BridgeInv, NEW v \in Servers, Drain(v)
  PROVE  BridgeInv'
PROOF
  <1>1. TypeOK'
    BY DEF BridgeInv, TypeOK, Phased, Called, Drain, Mine
  <1>2. Phased'
    BY DEF BridgeInv, TypeOK, Phased, Drain, Mine
  <1>3. Claimed'
    BY DEF BridgeInv, TypeOK, Phased, Claimed, Claimant, Drain, Mine
  <1>4. Dead'
    BY DEF BridgeInv, TypeOK, Phased, Claimed, Claimant, Dead, Drain, Mine
  <1>5. Called'
    BY DEF BridgeInv, TypeOK, Phased, Called, Drain, Mine
  <1> QED
    BY <1>1, <1>2, <1>3, <1>4, <1>5 DEF BridgeInv

LEMMA DrainWakesKeeps ==
  ASSUME BridgeInv, NEW s \in Sessions, DrainWakes(s)
  PROVE  BridgeInv'
PROOF
  <1>1. TypeOK'
    BY DEF BridgeInv, TypeOK, DrainWakes, Mine
  <1> QED
    BY <1>1, QuietKeeps DEF BridgeInv, TypeOK, DrainWakes, Mine

LEMMA DrainBreaksKeeps ==
  ASSUME BridgeInv, NEW s \in Sessions, DrainBreaks(s)
  PROVE  BridgeInv'
PROOF
  <1>1. TypeOK'
    BY DEF BridgeInv, TypeOK, Phased, Called, DrainBreaks
  <1>2. Phased'
    BY DEF BridgeInv, TypeOK, Phased, DrainBreaks
  <1>3. Claimed'
    BY DEF BridgeInv, TypeOK, Phased, Claimed, Claimant, DrainBreaks
  <1>4. Dead'
    BY DEF BridgeInv, TypeOK, Phased, Claimed, Claimant, Dead, DrainBreaks
  <1>5. Called'
    BY DEF BridgeInv, TypeOK, Phased, Called, DrainBreaks
  <1> QED
    BY <1>1, <1>2, <1>3, <1>4, <1>5 DEF BridgeInv

LEMMA StoppedKeeps ==
  ASSUME BridgeInv, NEW v \in Servers, Stopped(v)
  PROVE  BridgeInv'
PROOF
  <1>1. TypeOK'
    BY DEF BridgeInv, TypeOK, Stopped, Mine
  <1> QED
    BY <1>1, QuietKeeps DEF BridgeInv, TypeOK, Stopped, Mine

LEMMA DiesKeeps ==
  ASSUME BridgeInv, NEW v \in Servers, Dies(v)
  PROVE  BridgeInv'
PROOF
  <1>1. TypeOK'
    BY DEF BridgeInv, TypeOK, Phased, Called, Dies, Mine
  <1>2. Phased'
    BY DEF BridgeInv, TypeOK, Phased, Dies, Mine
  <1>3. Claimed'
    BY DEF BridgeInv, TypeOK, Phased, Claimed, Claimant, Dies, Mine
  <1>4. Dead'
    BY DEF BridgeInv, TypeOK, Phased, Claimed, Claimant, Dead, Dies, Mine
  <1>5. Called'
    BY DEF BridgeInv, TypeOK, Phased, Called, Dies, Mine
  <1> QED
    BY <1>1, <1>2, <1>3, <1>4, <1>5 DEF BridgeInv

LEMMA NextBridgeInv == BridgeInv /\ [Next]_vars => BridgeInv'
PROOF
  <1> SUFFICES ASSUME BridgeInv, [Next]_vars PROVE BridgeInv'
    OBVIOUS
  <1>1. ASSUME NEW s \in Sessions, HandlerStep(s) PROVE BridgeInv'
    BY <1>1, SessionInsertKeeps, ResumeClaimKeeps, ResumeClaimFailsKeeps, AddCallbackKeeps,
       YieldKeeps, WaitDoneKeeps, HandlerPopsKeeps
    DEF HandlerStep
  <1>2. ASSUME NEW s \in Sessions, EndStep(s) PROVE BridgeInv'
    BY <1>2, CallbackPopsKeeps, TearDownKeeps, DrainWakesKeeps, DrainBreaksKeeps DEF EndStep
  <1>3. ASSUME NEW c \in Calls, CallStep(c) PROVE BridgeInv'
    BY <1>3, FulfillRefusedKeeps, FulfillBodyKeeps, FulfillAnswersKeeps, BreakRpcKeeps
    DEF CallStep
  <1>4. ASSUME NEW v \in Servers, Stop(v) \/ StopStep(v) \/ Dies(v) PROVE BridgeInv'
    BY <1>4, StopKeeps, DrainKeeps, StoppedKeeps, DiesKeeps DEF StopStep
  <1>5. CASE UNCHANGED vars
    <2>1. TypeOK'
      BY <1>5 DEF BridgeInv, TypeOK, vars
    <2> QED
      BY <1>5, <2>1, QuietKeeps DEF vars
  <1> QED
    BY <1>1, <1>2, <1>3, <1>4, <1>5, SessionSignKeeps, ResumeReadKeeps, StreamEndsKeeps,
       ResolveKeeps
    DEF Next

-----------------------------------------------------------------------------
(* What follows.                                                            *)

LEMMA BridgeInvHolds == Spec => []BridgeInv
PROOF
  BY InitBridgeInv, NextBridgeInv, PTL DEF Spec

\* Servers, sessions, calls and the park store keep their types; the work of an
\* instance its bound.
THEOREM BridgeTypes == Spec => []TypeOK
PROOF
  <1>1. BridgeInv => TypeOK
    BY DEF BridgeInv
  <1> QED
    BY <1>1, BridgeInvHolds, PTL

\* However many replicas race for a token, its instance is behind one stream or one
\* row: the DELETE of _resume is the claim, the pop of end_session the right to park.
THEOREM OneInstancePerToken == Spec => []NeverBoth
PROOF
  <1>1. BridgeInv => NeverBoth
    <2> SUFFICES ASSUME BridgeInv, NEW t \in Tokens
                 PROVE  /\ \A r, s \in Holders(t) : r = s
                        /\ row[t] # None => Holders(t) = {}
      BY DEF NeverBoth
    <2>1. \A s \in Holders(t) : s \in Sessions /\ tok[s] = t /\ Claimant(s)
      BY DEF Holders, Claimant
    <2> QED
      BY <2>1 DEF BridgeInv, Claimed
  <1> QED
    BY <1>1, BridgeInvHolds, PTL

\* A park writes all the fulfillments that were answered, and no body runs on an
\* instance that was torn down: both sides hold the session lock.
THEOREM ParkLosesNoWork == Spec => []ParkKeepsTheWork
PROOF
  <1>1. BridgeInv => ParkKeepsTheWork
    BY DEF BridgeInv, Phased, Called, ParkKeepsTheWork
  <1> QED
    BY <1>1, BridgeInvHolds, PTL

\* After an explicit Break no row and no unbroken session carries the token again.
THEOREM BrokenStaysDead == Spec => []BrokenTokenIsDead
PROOF
  <1>1. BridgeInv => BrokenTokenIsDead
    BY DEF BridgeInv, Dead, Claimant, Holders, BrokenTokenIsDead
  <1> QED
    BY <1>1, BridgeInvHolds, PTL

=============================================================================
