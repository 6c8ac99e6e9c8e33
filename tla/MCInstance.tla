----------------------------- MODULE MCInstance -----------------------------
(* Descriptors for the model checking of Instance.                          *)
EXTENDS Instance, TLC

Fulf(sub, pledge)  == [kind |-> "FULFILLED", sub |-> sub, pledge |-> pledge]
Atom(a) == [op |-> "ATOM", atom |-> a]
Op(o)   == [op |-> o, atom |-> 0]

Plain ==
  [npledges |-> 3, nsubs |-> 1, sub |-> (0 :> 0) @@ (1 :> 0) @@ (2 :> -1),
   named |-> {0}, txn |-> {}, nvows |-> 1, hasStore |-> FALSE, has_reqs |-> FALSE,
   atoms |-> << >>, req_fulfill |-> << >>, req_partial |-> << >>, req_break |-> << >>]

\* The ledger of the store tests: a transactional transfer of two pledges and a
\* loose pledge, under the structural default.
Ledger == [Plain EXCEPT !.txn = {0}, !.hasStore = TRUE]

\* Two transactional subcontracts, the second anonymous, over one connection.
TwoEpisodes ==
  [Plain EXCEPT !.nsubs = 2, !.sub = (0 :> 0) @@ (1 :> 0) @@ (2 :> 1),
                !.txn = {0, 1}, !.hasStore = TRUE]

\* An empty subcontract beside one with a pledge.
EmptySub ==
  [Plain EXCEPT !.npledges = 1, !.nsubs = 2, !.sub = (0 :> 0), !.named = {0, 1}]

\* No pledge at all.
Bare == [Plain EXCEPT !.npledges = 0, !.nvows = 0, !.nsubs = 0, !.sub = << >>, !.named = {}]

\* fulfill: Transfer && notify; partial: Transfer; break: !Transfer && !notify.
WrittenPolicy ==
  [Ledger EXCEPT !.has_reqs = TRUE,
     !.atoms = <<Fulf(0, -1), Fulf(-1, 2)>>,
     !.req_fulfill = <<Atom(0), Atom(1), Op("AND")>>,
     !.req_partial = <<Atom(0)>>,
     !.req_break = <<Atom(0), Op("NOT"), Atom(1), Op("NOT"), Op("AND")>>]

\* fulfill: Transfer && !notify, which the satisfiability check accepts.
Negated ==
  [WrittenPolicy EXCEPT !.txn = {}, !.hasStore = FALSE,
     !.req_fulfill = <<Atom(0), Atom(1), Op("NOT"), Op("AND")>>,
     !.req_partial = << >>,
     !.req_break = <<Atom(0), Op("NOT"), Atom(1), Op("NOT"), Op("AND")>>]

PolicyDescs == {Plain, EmptySub, Bare, Negated}
StoreDescs  == {Ledger, TwoEpisodes, WrittenPolicy}
AllDescs    == PolicyDescs \cup StoreDescs
LedgerOnly  == {Ledger}
=============================================================================
