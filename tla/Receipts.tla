------------------------------ MODULE Receipts ------------------------------
(***************************************************************************)
(* What the ABI promises of a receipt, without a thread, a lock or a       *)
(* queue: it gets an outcome, is taken at most once, and a break that      *)
(* reclaims its instance leaves it exactly two fates, taken before the     *)
(* break or GEAS_ERR_STATE.                                                *)
(***************************************************************************)
CONSTANTS Futures, Insts, None

VARIABLES
  outcome,   \* "unborn", "pending", "ok", "err", or "gone" once the struct is freed
  taken,     \* what the one wait that took it got: "none", "OK" or "ERR"
  owner,     \* the instance it was issued by
  reclaimed  \* the instances whose heap is gone

rvars == <<outcome, taken, owner, reclaimed>>

Untaken(f) == taken[f] = "none"

Init ==
  /\ outcome = [f \in Futures |-> "unborn"]
  /\ taken = [f \in Futures |-> "none"]
  /\ owner = [f \in Futures |-> None]
  /\ reclaimed = [c \in Insts |-> FALSE]

Issue(f, c) ==
  /\ outcome[f] = "unborn"
  /\ outcome' = [outcome EXCEPT ![f] = "pending"]
  /\ owner' = [owner EXCEPT ![f] = c]
  /\ UNCHANGED <<taken, reclaimed>>

\* An outcome is good only while the instance it lives on is there.
Settle(f, o) ==
  /\ outcome[f] = "pending"
  /\ o = "ok" => ~reclaimed[owner[f]]
  /\ outcome' = [outcome EXCEPT ![f] = o]
  /\ UNCHANGED <<taken, owner, reclaimed>>

\* A break on its way turns an untaken receipt into an error.
Forfeit(f) ==
  /\ outcome[f] \in {"pending", "ok"}
  /\ Untaken(f)
  /\ outcome' = [outcome EXCEPT ![f] = "err"]
  /\ UNCHANGED <<taken, owner, reclaimed>>

\* The one delivery; a good outcome may still fail its write back.
Take(f, t) ==
  /\ outcome[f] \in {"ok", "err"}
  /\ Untaken(f)
  /\ t = "OK" => outcome[f] = "ok"
  /\ outcome[f] = "ok" => ~reclaimed[owner[f]]
  /\ taken' = [taken EXCEPT ![f] = t]
  /\ UNCHANGED <<outcome, owner, reclaimed>>

\* A receipt that was taken may be freed.
Drop(f) ==
  /\ outcome[f] \in {"ok", "err"} /\ ~Untaken(f)
  /\ outcome' = [outcome EXCEPT ![f] = "gone"]
  /\ UNCHANGED <<taken, owner, reclaimed>>

\* The break reclaims the heap: every receipt was taken or is an error by then.
Reclaim(c) ==
  /\ \A f \in Futures :
       owner[f] = c => ~Untaken(f) \/ outcome[f] = "err"
  /\ reclaimed' = [reclaimed EXCEPT ![c] = TRUE]
  /\ UNCHANGED <<outcome, taken, owner>>

\* Shutdown, once every receipt that was ever issued has its outcome.
Close ==
  /\ \A f \in Futures : outcome[f] # "pending"
  /\ outcome' = [f \in Futures |-> IF outcome[f] = "unborn" THEN "unborn" ELSE "gone"]
  /\ reclaimed' = [c \in Insts |-> TRUE]
  /\ UNCHANGED <<taken, owner>>

Next ==
  \/ \E f \in Futures : \/ \E c \in Insts : Issue(f, c)
                        \/ \E o \in {"ok", "err"} : Settle(f, o)
                        \/ Forfeit(f)
                        \/ \E t \in {"OK", "ERR"} : Take(f, t)
                        \/ Drop(f)
  \/ \E c \in Insts : Reclaim(c)
  \/ Close

Spec == Init /\ [][Next]_rvars
=============================================================================
