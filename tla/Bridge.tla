------------------------------- MODULE Bridge -------------------------------
(***************************************************************************)
(* The gRPC bridge server (bridge_server.py): replicas that share one park *)
(* store, each with an instance table, session streams that own their      *)
(* instances, unary pledge calls, the termination callback, the one shot   *)
(* claim of a parked instance, the shutdown drain and the death of a       *)
(* server.                                                                 *)
(*                                                                         *)
(* An instance is abstracted to how many fulfillments it holds (work) and  *)
(* whether it was broken; its park row carries the work.  A section under  *)
(* the session's lock that waits for nothing inside is one step, except    *)
(* the body of a pledge.  gRPC itself is external: it runs handlers,       *)
(* reports the end of a stream once, and calls the registered callback.    *)
(***************************************************************************)
EXTENDS Integers, FiniteSets

CONSTANTS
  Servers,    \* replicas over one park store
  Sessions,   \* instance ids, each issued at most once
  Tokens,     \* park tokens, each issued by at most one Session call
  Calls,      \* unary rpc handlers
  None,       \* no server, session or token; a free lock
  MaxWork,    \* bound: fulfillments of one instance
  MayStop     \* whether servers may be stopped or die

ASSUME BridgeNone == None \notin Servers \cup Sessions \cup Tokens \cup Calls
ASSUME BridgeBounds == MaxWork \in Nat /\ MayStop \in BOOLEAN

VARIABLES
  up,      \* "serving", "stopping", "draining" or "down"
  rlock,   \* _resume_lock of each server: the session that holds it
  ph,      \* where the handler of a session is
  srv,     \* its server
  tok,     \* its park_token
  live,    \* the session is in the instance table
  done,    \* the done event
  over,    \* the stream has terminated
  cb,      \* the callback: "none", "registered" or "run"
  ender,   \* who popped the entry: "none", "callback", "handler" or "drain"
  torn,    \* the entry's popper is through with the instance
  lock,    \* the session lock: the call that holds it
  broken,  \* the instance is broken
  work,    \* fulfillments the instance holds
  row,     \* the row of the park store under a token: its work, or None
  cpc,     \* where a unary call is
  cs,      \* the session a unary call resolved
  best,    \* history: the most work ever parked under a token
  kept,    \* history: the work a session's own park wrote, or None
  dead     \* history: tokens whose instance an explicit Break ended

sessv == <<ph, srv, tok, live, done, over, cb, ender, torn, lock, broken, work>>
callv == <<cpc, cs>>
histv == <<best, kept, dead>>
vars  == <<up, rlock, sessv, row, callv, histv>>

Phases == {"none", "signed", "built", "inserted", "yield", "wait", "exit", "gone", "lost"}

Init ==
  /\ up = [v \in Servers |-> "serving"]
  /\ rlock = [v \in Servers |-> None]
  /\ ph = [s \in Sessions |-> "none"]
  /\ srv = [s \in Sessions |-> None]
  /\ tok = [s \in Sessions |-> None]
  /\ live = [s \in Sessions |-> FALSE]
  /\ done = [s \in Sessions |-> FALSE]
  /\ over = [s \in Sessions |-> FALSE]
  /\ cb = [s \in Sessions |-> "none"]
  /\ ender = [s \in Sessions |-> "none"]
  /\ torn = [s \in Sessions |-> FALSE]
  /\ lock = [s \in Sessions |-> None]
  /\ broken = [s \in Sessions |-> FALSE]
  /\ work = [s \in Sessions |-> 0]
  /\ row = [t \in Tokens |-> None]
  /\ cpc = [c \in Calls |-> "idle"]
  /\ cs = [c \in Calls |-> None]
  /\ best = [t \in Tokens |-> 0]
  /\ kept = [s \in Sessions |-> None]
  /\ dead = {}

Move(s, p) == ph' = [ph EXCEPT ![s] = p]

-----------------------------------------------------------------------------
(* Session and Resume, up to the insert.                                    *)

\* Session: sign and issue a token.  A refused sign aborts the rpc.
SessionSign(s, v, t) ==
  /\ up[v] = "serving"
  /\ ph[s] = "none"
  /\ \A r \in Sessions : tok[r] # t
  /\ srv' = [srv EXCEPT ![s] = v]
  /\ tok' = [tok EXCEPT ![s] = t]
  /\ Move(s, "signed")
  /\ UNCHANGED <<up, rlock, live, done, over, cb, ender, torn, lock, broken, work, row,
                 callv, histv>>

SessionInsert(s) ==
  /\ ph[s] = "signed"
  /\ live' = [live EXCEPT ![s] = TRUE]
  /\ Move(s, "inserted")
  /\ UNCHANGED <<up, rlock, srv, tok, done, over, cb, ender, torn, lock, broken, work, row,
                 callv, histv>>

\* Mutant: a token without a row is resumed.
ResumeReadAny(s, v, t) ==
  /\ up[v] = "serving"
  /\ ph[s] = "none"
  /\ rlock[v] = None
  /\ rlock' = [rlock EXCEPT ![v] = s]
  /\ srv' = [srv EXCEPT ![s] = v]
  /\ tok' = [tok EXCEPT ![s] = t]
  /\ work' = [work EXCEPT ![s] = row[t]]
  /\ Move(s, "built")
  /\ UNCHANGED <<up, live, done, over, cb, ender, torn, lock, broken, row, callv, histv>>

\* Resume: under _resume_lock the runtime reads the row and stands a copy up.  No
\* row, or a hash that disagrees, aborts the rpc and changes nothing.
ResumeRead(s, v, t) ==
  /\ up[v] = "serving"
  /\ ph[s] = "none"
  /\ rlock[v] = None
  /\ row[t] # None
  /\ rlock' = [rlock EXCEPT ![v] = s]
  /\ srv' = [srv EXCEPT ![s] = v]
  /\ tok' = [tok EXCEPT ![s] = t]
  /\ work' = [work EXCEPT ![s] = row[t]]
  /\ Move(s, "built")
  /\ UNCHANGED <<up, live, done, over, cb, ender, torn, lock, broken, row, callv, histv>>

\* Mutant: the number of rows the DELETE removed is not looked at.
ClaimUnchecked(s) ==
  /\ ph[s] = "built"
  /\ row' = [row EXCEPT ![tok[s]] = None]
  /\ rlock' = [rlock EXCEPT ![srv[s]] = None]
  /\ live' = [live EXCEPT ![s] = TRUE]
  /\ Move(s, "inserted")
  /\ UNCHANGED <<up, srv, tok, done, over, cb, ender, torn, lock, broken, work, callv, histv>>

\* The DELETE claims the row and the copy is inserted; a DELETE that removed
\* nothing breaks the copy and aborts with NOT_FOUND.
ResumeClaim(s) ==
  /\ ph[s] = "built"
  /\ row' = [row EXCEPT ![tok[s]] = None]
  /\ rlock' = [rlock EXCEPT ![srv[s]] = None]
  /\ IF row[tok[s]] # None
     THEN /\ live' = [live EXCEPT ![s] = TRUE]
          /\ Move(s, "inserted")
          /\ UNCHANGED broken
     ELSE /\ broken' = [broken EXCEPT ![s] = TRUE]
          /\ Move(s, "gone")
          /\ UNCHANGED live
  /\ UNCHANGED <<up, srv, tok, done, over, cb, ender, torn, lock, work, callv, histv>>

\* The DELETE raises a database error: the rpc fails, the copy stays behind in
\* the runtime and in no table, the row stays in the store.
ResumeClaimFails(s) ==
  /\ ph[s] = "built"
  /\ rlock' = [rlock EXCEPT ![srv[s]] = None]
  /\ Move(s, "gone")
  /\ UNCHANGED <<up, srv, tok, live, done, over, cb, ender, torn, lock, broken, work,
                 row, callv, histv>>

-----------------------------------------------------------------------------
(* The life of a stream.                                                    *)

\* The peer cancels, closes, dies or is cut off.
StreamEnds(s) ==
  /\ ph[s] \in {"signed", "built", "inserted", "yield", "wait"}
  /\ ~over[s]
  /\ over' = [over EXCEPT ![s] = TRUE]
  /\ UNCHANGED <<up, rlock, ph, srv, tok, live, done, cb, ender, torn, lock, broken, work,
                 row, callv, histv>>

\* Mutant: the answer of add_callback is not looked at.
AddCallbackUnchecked(s) ==
  /\ ph[s] = "inserted"
  /\ cb' = [cb EXCEPT ![s] = IF over[s] THEN "none" ELSE "registered"]
  /\ Move(s, IF over[s] THEN "gone" ELSE "yield")
  /\ UNCHANGED <<up, rlock, srv, tok, live, done, over, ender, torn, lock, broken, work,
                 row, callv, histv>>

\* add_callback answers False when the rpc is already over, and the handler then
\* ends the session itself.
AddCallback(s) ==
  /\ ph[s] = "inserted"
  /\ cb' = [cb EXCEPT ![s] = IF over[s] THEN "none" ELSE "registered"]
  /\ Move(s, IF over[s] THEN "exit" ELSE "yield")
  /\ UNCHANGED <<up, rlock, srv, tok, live, done, over, ender, torn, lock, broken, work,
                 row, callv, histv>>

\* The signature is sent and the handler waits on done, or the generator is closed
\* at its yield because the stream is over.
Yield(s) ==
  /\ ph[s] = "yield"
  /\ \/ Move(s, "wait")
     \/ over[s] /\ Move(s, "exit")
  /\ UNCHANGED <<up, rlock, srv, tok, live, done, over, cb, ender, torn, lock, broken, work,
                 row, callv, histv>>

WaitDone(s) ==
  /\ ph[s] = "wait"
  /\ done[s]
  /\ Move(s, "exit")
  /\ UNCHANGED <<up, rlock, srv, tok, live, done, over, cb, ender, torn, lock, broken, work,
                 row, callv, histv>>

-----------------------------------------------------------------------------
(* end_session.  The pop of the table decides who tears the instance down.  *)

\* Mutant: the one that got the entry does not set done.
PopSilent(s, who) ==
  /\ live' = [live EXCEPT ![s] = FALSE]
  /\ ender' = [ender EXCEPT ![s] = IF live[s] THEN who ELSE @]
  /\ UNCHANGED done

\* table.remove, and done.set() by the one that got the entry.
Pop(s, who) ==
  /\ live' = [live EXCEPT ![s] = FALSE]
  /\ done' = [done EXCEPT ![s] = @ \/ live[s]]
  /\ ender' = [ender EXCEPT ![s] = IF live[s] THEN who ELSE @]

\* gRPC calls the registered callback when the stream terminates.
CallbackPops(s) ==
  /\ cb[s] = "registered"
  /\ over[s]
  /\ cb' = [cb EXCEPT ![s] = "run"]
  /\ Pop(s, "callback")
  /\ UNCHANGED <<up, rlock, ph, srv, tok, over, torn, lock, broken, work, row, callv, histv>>

\* The inline end, or the finally of the handler.
HandlerPops(s) ==
  /\ ph[s] = "exit"
  /\ Move(s, "gone")
  /\ Pop(s, "handler")
  /\ UNCHANGED <<up, rlock, srv, tok, over, cb, torn, lock, broken, work, row, callv, histv>>

\* Mutant: a broken instance parks.
ParksAlways(s) == TRUE

\* The runtime refuses to park what an explicit Break ended.
Parks(s) == ~broken[s]

\* The park writes the row, or fails and leaves the store as it was.
Parked(s, stored) ==
  /\ row' = [row EXCEPT ![tok[s]] = IF stored THEN work[s] ELSE @]
  /\ kept' = [kept EXCEPT ![s] = IF stored THEN work[s] ELSE @]
  /\ best' = [best EXCEPT ![tok[s]] = IF stored /\ work[s] > @ THEN work[s] ELSE @]

\* Mutant: the session lock is not taken.
TearDownUnlocked(s) ==
  /\ ender[s] \in {"callback", "handler"} /\ ~torn[s]
  /\ torn' = [torn EXCEPT ![s] = TRUE]
  /\ broken' = [broken EXCEPT ![s] = TRUE]
  /\ \E stored \in BOOLEAN : (stored => Parks(s)) /\ Parked(s, stored)
  /\ UNCHANGED <<up, rlock, ph, srv, tok, live, done, over, cb, ender, lock, work,
                 callv, dead>>

\* Under the session lock: park, whatever comes of it, then break.
TearDown(s) ==
  /\ ender[s] \in {"callback", "handler"} /\ ~torn[s]
  /\ lock[s] = None
  /\ torn' = [torn EXCEPT ![s] = TRUE]
  /\ broken' = [broken EXCEPT ![s] = TRUE]
  /\ \E stored \in BOOLEAN : (stored => Parks(s)) /\ Parked(s, stored)
  /\ UNCHANGED <<up, rlock, ph, srv, tok, live, done, over, cb, ender, lock, work,
                 callv, dead>>

-----------------------------------------------------------------------------
(* The unary calls: resolve the id, then one runtime call under the lock.   *)

Resolve(c, s) ==
  /\ cpc[c] = "idle"
  /\ live[s] /\ up[srv[s]] = "serving"
  /\ \E p \in {"fulfill", "break"} : cpc' = [cpc EXCEPT ![c] = p]
  /\ cs' = [cs EXCEPT ![c] = s]
  /\ UNCHANGED <<up, rlock, sessv, row, histv>>

Answer(c) ==
  /\ cpc' = [cpc EXCEPT ![c] = "idle"]
  /\ cs' = [cs EXCEPT ![c] = None]

\* A GeasError aborts the rpc and leaves no fulfillment behind: a broken instance
\* always answers one, a live one may.
FulfillRefused(c) ==
  /\ cpc[c] = "fulfill"
  /\ lock[cs[c]] = None
  /\ Answer(c)
  /\ UNCHANGED <<up, rlock, sessv, row, histv>>

\* The body runs with the session lock held.
FulfillBody(c) ==
  /\ cpc[c] = "fulfill"
  /\ lock[cs[c]] = None
  /\ ~broken[cs[c]] /\ work[cs[c]] < MaxWork
  /\ lock' = [lock EXCEPT ![cs[c]] = c]
  /\ cpc' = [cpc EXCEPT ![c] = "body"]
  /\ UNCHANGED <<up, rlock, ph, srv, tok, live, done, over, cb, ender, torn, broken, work,
                 row, cs, histv>>

FulfillAnswers(c) ==
  /\ cpc[c] = "body"
  /\ work' = [work EXCEPT ![cs[c]] = @ + 1]
  /\ lock' = [lock EXCEPT ![cs[c]] = None]
  /\ Answer(c)
  /\ UNCHANGED <<up, rlock, ph, srv, tok, live, done, over, cb, ender, torn, broken,
                 row, histv>>

\* Break ends the instance, if it stands, and leaves its entry to the stream.
BreakRpc(c) ==
  LET s == cs[c] IN
  /\ cpc[c] = "break"
  /\ lock[s] = None
  /\ broken' = [broken EXCEPT ![s] = TRUE]
  /\ dead' = IF broken[s] THEN dead ELSE dead \cup {tok[s]}
  /\ Answer(c)
  /\ UNCHANGED <<up, rlock, ph, srv, tok, live, done, over, cb, ender, torn, lock, work,
                 row, best, kept>>

-----------------------------------------------------------------------------
(* The end of a server.                                                     *)

Mine(v) == {s \in Sessions : srv[s] = v}

\* server.stop(0): no new rpc, every stream terminates.
Stop(v) ==
  /\ MayStop
  /\ up[v] = "serving"
  /\ up' = [up EXCEPT ![v] = "stopping"]
  /\ over' = [s \in Sessions |-> over[s] \/ s \in Mine(v)]
  /\ UNCHANGED <<rlock, ph, srv, tok, live, done, cb, ender, torn, lock, broken, work,
                 row, callv, histv>>

\* table.drain(): what the callbacks and handlers left is the loop's to end.
Drain(v) ==
  /\ up[v] = "stopping"
  /\ up' = [up EXCEPT ![v] = "draining"]
  /\ live' = [s \in Sessions |-> live[s] /\ s \notin Mine(v)]
  /\ ender' = [s \in Sessions |-> IF live[s] /\ s \in Mine(v) THEN "drain" ELSE ender[s]]
  /\ UNCHANGED <<rlock, ph, srv, tok, done, over, cb, torn, lock, broken, work, row,
                 callv, histv>>

\* The loop over the drained entries, one at a time: done.set().
DrainWakes(s) ==
  /\ ender[s] = "drain" /\ ~done[s]
  /\ \A r \in Mine(srv[s]) : ender[r] = "drain" /\ done[r] => torn[r]
  /\ done' = [done EXCEPT ![s] = TRUE]
  /\ UNCHANGED <<up, rlock, ph, srv, tok, live, over, cb, ender, torn, lock, broken, work,
                 row, callv, histv>>

\* Then the instance is broken under its lock, without a park.
DrainBreaks(s) ==
  /\ ender[s] = "drain" /\ done[s] /\ ~torn[s]
  /\ lock[s] = None
  /\ torn' = [torn EXCEPT ![s] = TRUE]
  /\ broken' = [broken EXCEPT ![s] = TRUE]
  /\ UNCHANGED <<up, rlock, ph, srv, tok, live, done, over, cb, ender, lock, work, row,
                 callv, histv>>

\* pool.shutdown(wait=True): every handler and call has returned, and the callbacks
\* that tear down are through; then rt.shutdown().
Stopped(v) ==
  /\ up[v] = "draining"
  /\ \A s \in Mine(v) : /\ ph[s] = "gone"
                        /\ ender[s] # "none" => torn[s]
  /\ \A c \in Calls : cs[c] \notin Mine(v)
  /\ up' = [up EXCEPT ![v] = "down"]
  /\ UNCHANGED <<rlock, sessv, row, callv, histv>>

\* The process of a server dies: its sessions, copies and calls go with it.
Dies(v) ==
  /\ MayStop
  /\ up[v] # "down"
  /\ up' = [up EXCEPT ![v] = "down"]
  /\ rlock' = [rlock EXCEPT ![v] = None]
  /\ ph' = [s \in Sessions |-> IF s \in Mine(v) THEN "lost" ELSE ph[s]]
  /\ live' = [s \in Sessions |-> live[s] /\ s \notin Mine(v)]
  /\ over' = [s \in Sessions |-> over[s] \/ s \in Mine(v)]
  /\ cb' = [s \in Sessions |-> IF s \in Mine(v) THEN "none" ELSE cb[s]]
  /\ ender' = [s \in Sessions |-> IF s \in Mine(v) /\ ~torn[s] THEN "none" ELSE ender[s]]
  /\ lock' = [s \in Sessions |-> IF s \in Mine(v) THEN None ELSE lock[s]]
  /\ cpc' = [c \in Calls |-> IF cs[c] \in Mine(v) THEN "idle" ELSE cpc[c]]
  /\ cs' = [c \in Calls |-> IF cs[c] \in Mine(v) THEN None ELSE cs[c]]
  /\ UNCHANGED <<srv, tok, done, torn, broken, work, row, histv>>

-----------------------------------------------------------------------------
\* A handler goes on.
HandlerStep(s) ==
  \/ SessionInsert(s) \/ ResumeClaim(s) \/ ResumeClaimFails(s)
  \/ AddCallback(s) \/ Yield(s) \/ WaitDone(s) \/ HandlerPops(s)

\* gRPC's callback, and the end of a session by whoever popped it.
EndStep(s) == CallbackPops(s) \/ TearDown(s) \/ DrainWakes(s) \/ DrainBreaks(s)

CallStep(c) == FulfillRefused(c) \/ FulfillBody(c) \/ FulfillAnswers(c) \/ BreakRpc(c)

StopStep(v) == Drain(v) \/ Stopped(v)

Next ==
  \/ \E s \in Sessions, v \in Servers, t \in Tokens : SessionSign(s, v, t) \/ ResumeRead(s, v, t)
  \/ \E s \in Sessions : HandlerStep(s) \/ EndStep(s) \/ StreamEnds(s)
  \/ \E c \in Calls : CallStep(c) \/ \E s \in Sessions : Resolve(c, s)
  \/ \E v \in Servers : Stop(v) \/ StopStep(v) \/ Dies(v)

\* Handler threads, calls and callbacks run; no client has to call, leave or stay.
Fairness ==
  /\ \A s \in Sessions : WF_vars(HandlerStep(s)) /\ WF_vars(EndStep(s))
  /\ \A c \in Calls : WF_vars(CallStep(c))
  /\ \A v \in Servers : WF_vars(StopStep(v))

Spec == Init /\ [][Next]_vars
FairSpec == Spec /\ Fairness

-----------------------------------------------------------------------------
(* Properties.                                                              *)

\* Type invariant of the servers, the sessions, the calls and the park store.
TypeOK ==
  /\ up \in [Servers -> {"serving", "stopping", "draining", "down"}]
  /\ rlock \in [Servers -> Sessions \cup {None}]
  /\ ph \in [Sessions -> Phases]
  /\ srv \in [Sessions -> Servers \cup {None}]
  /\ tok \in [Sessions -> Tokens \cup {None}]
  /\ live \in [Sessions -> BOOLEAN]
  /\ done \in [Sessions -> BOOLEAN]
  /\ over \in [Sessions -> BOOLEAN]
  /\ cb \in [Sessions -> {"none", "registered", "run"}]
  /\ ender \in [Sessions -> {"none", "callback", "handler", "drain"}]
  /\ torn \in [Sessions -> BOOLEAN]
  /\ lock \in [Sessions -> Calls \cup {None}]
  /\ broken \in [Sessions -> BOOLEAN]
  /\ work \in [Sessions -> 0 .. MaxWork]
  /\ row \in [Tokens -> (0 .. MaxWork) \cup {None}]
  /\ cpc \in [Calls -> {"idle", "fulfill", "break", "body"}]
  /\ cs \in [Calls -> Sessions \cup {None}]
  /\ best \in [Tokens -> 0 .. MaxWork]
  /\ kept \in [Sessions -> (0 .. MaxWork) \cup {None}]
  /\ dead \subseteq Tokens

\* The sessions that hold the instance of a token: in a table, or popped by an
\* end_session that is not through with it.
Holders(t) ==
  {s \in Sessions : tok[s] = t /\ (live[s] \/ (ender[s] # "none" /\ ~torn[s]))}

(***************************************************************************)
(* One instance lives behind one stream or one row, never behind both and  *)
(* never behind two streams, however the replicas race for a token: the    *)
(* DELETE is the claim, and end_session parks only what it popped.         *)
(***************************************************************************)
NeverBoth ==
  \A t \in Tokens :
    /\ \A r, s \in Holders(t) : r = s
    /\ row[t] # None => Holders(t) = {}

(***************************************************************************)
(* A fulfillment that was answered before its session parked is in the     *)
(* row, and no body runs on an instance that was torn down: end_session    *)
(* waits for the session lock the body holds.                              *)
(***************************************************************************)
ParkKeepsTheWork ==
  /\ \A s \in Sessions : kept[s] # None => kept[s] = work[s]
  /\ \A c \in Calls : cpc[c] = "body" => ~broken[cs[c]]

(***************************************************************************)
(* An instance an explicit Break ended never comes back: no row carries    *)
(* its token, and every session that still holds it reads broken, whatever *)
(* stale copies other replicas stood up.                                   *)
(***************************************************************************)
BrokenTokenIsDead ==
  \A t \in dead : row[t] = None /\ \A s \in Holders(t) : broken[s]

(***************************************************************************)
(* A stream that is over takes its session out of the table, also when it  *)
(* ended before the callback was registered.                               *)
(***************************************************************************)
OverStreamLeaves == \A s \in Sessions : (over[s] /\ live[s]) ~> ~live[s]

(***************************************************************************)
(* A server that was told to stop gets down: no handler stays parked on a  *)
(* done event nobody sets, whoever won the entry.                          *)
(***************************************************************************)
StopsAtLast == \A v \in Servers : up[v] = "stopping" ~> up[v] = "down"

-----------------------------------------------------------------------------
(* What the documentation says and the code does not keep.                  *)

\* docs/bridge.md:49: the death of a stream loses nothing a resume cannot recover.
\* A session that won its claim holds all the work parked under its token.
ResumeLosesNothing ==
  \A s \in Sessions : live[s] => work[s] >= best[tok[s]]

=============================================================================
