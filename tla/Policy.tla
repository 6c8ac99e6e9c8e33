------------------------------- MODULE Policy -------------------------------
(***************************************************************************)
(* The requirements evaluator of the runtime (runtime.c): the per-pledge   *)
(* latch, the subcontract and atom tests over the latches, the postfix     *)
(* stack machine that runs a policy line, the structural default policy,   *)
(* the priority order that turns the lines into a contract state, and the  *)
(* items the partial surface reports.  Everything here is a function of a  *)
(* contract descriptor and the latch array; the instances that keep those  *)
(* latches are modelled in Instance.                                       *)
(***************************************************************************)
EXTENDS Integers, Sequences, FiniteSets

CONSTANT REQ_STACK_MAX   \* depth of the evaluator's operand stack (128 in the source)

ASSUME StackAssumption == REQ_STACK_MAX \in Nat \ {0}

PENDING   == "PLEDGE_PENDING"
FULFILLED == "PLEDGE_FULFILLED"
BROKEN    == "PLEDGE_BROKEN"
Latches   == {PENDING, FULFILLED, BROKEN}

LiveStates     == {"Signed", "Fulfilled", "Partial"}
ContractStates == LiveStates \cup {"Broken"}

-----------------------------------------------------------------------------
(***************************************************************************)
(* A descriptor d has pledges 0..npledges-1; sub[i] is pledge i's          *)
(* subcontract index, or an index outside 0..nsubs-1 for a loose pledge.   *)
(* named and txn are the subcontracts that carry a name and the            *)
(* transactional flag, nvows counts its vows, hasStore says whether it     *)
(* declares a schema (and then its dsn is a vow); atoms and the three      *)
(* programs are the policy.                                                *)
(***************************************************************************)
AtomKinds == {"FULFILLED", "BROKEN"}
OpKinds   == {"ATOM", "NOT", "AND", "OR"}

Pledges(d) == 0 .. d.npledges - 1
Subs(d)    == 0 .. d.nsubs - 1

LatchArrays(d) == [Pledges(d) -> Latches]

DescOK(d) ==
  /\ d.npledges \in Nat
  /\ d.nsubs \in Nat
  /\ d.sub \in [Pledges(d) -> Int]
  /\ d.named \subseteq Subs(d)
  /\ d.txn \subseteq Subs(d)
  /\ d.nvows \in Nat
  /\ d.hasStore \in BOOLEAN
  /\ d.hasStore => d.nvows > 0
  /\ d.has_reqs \in BOOLEAN
  /\ d.atoms \in Seq([kind : AtomKinds, sub : Int, pledge : Int])
  /\ \A line \in {d.req_fulfill, d.req_partial, d.req_break} :
       line \in Seq([op : OpKinds, atom : Nat])

pledge_is_loose(d, i) == d.sub[i] \notin Subs(d)

SubPledges(d, s) == {i \in Pledges(d) : d.sub[i] = s}

-----------------------------------------------------------------------------
(* Latching: the first Ok or the first Err decides, nothing moves it after. *)

\* Mutant: the last outcome wins.
latch_last(latch, i, outcome) ==
  [latch EXCEPT ![i] = IF outcome = "Err" THEN BROKEN ELSE FULFILLED]

latch_pledge(latch, i, outcome) ==
  IF latch[i] # PENDING
  THEN latch
  ELSE [latch EXCEPT ![i] = IF outcome = "Err" THEN BROKEN ELSE FULFILLED]

-----------------------------------------------------------------------------
(* Tests over the latches.  An empty subcontract is neither fulfilled nor   *)
(* broken: the loop that looks for a counterexample must also see a pledge. *)

\* Mutant: an empty subcontract holds every latch.
sub_all_vacuous(d, latch, s, want) ==
  s \in Subs(d) /\ \A i \in SubPledges(d, s) : latch[i] = want

sub_all(d, latch, s, want) ==
  /\ s \in Subs(d)
  /\ SubPledges(d, s) # {}
  /\ \A i \in SubPledges(d, s) : latch[i] = want

atom_true(d, latch, a) ==
  LET want == IF a.kind = "BROKEN" THEN BROKEN ELSE FULFILLED
  IN  IF a.sub >= 0
      THEN sub_all(d, latch, a.sub, want)
      ELSE a.pledge \in Pledges(d) /\ latch[a.pledge] = want

-----------------------------------------------------------------------------
(***************************************************************************)
(* The stack machine.  StackAfter(d, latch, ops)[k] is the operand stack   *)
(* after the first k operations, as [ok, st]; ok is FALSE from the first   *)
(* malformed operation on, where the code returns 0 at once.               *)
(***************************************************************************)
Malformed == [ok |-> FALSE, st |-> << >>]

StackOp(d, latch, o, st) ==
  LET sp   == Len(st)
      push(rest, b) == [ok |-> TRUE, st |-> Append(rest, b)]
  IN  CASE o.op = "ATOM" ->
             IF sp >= REQ_STACK_MAX \/ o.atom >= Len(d.atoms)
             THEN Malformed
             ELSE push(st, atom_true(d, latch, d.atoms[o.atom + 1]))
        [] o.op = "NOT" ->
             IF sp < 1 THEN Malformed
             ELSE push(SubSeq(st, 1, sp - 1), ~st[sp])
        [] o.op = "AND" ->
             IF sp < 2 THEN Malformed
             ELSE push(SubSeq(st, 1, sp - 2), st[sp - 1] /\ st[sp])
        [] o.op = "OR" ->
             IF sp < 2 THEN Malformed
             ELSE push(SubSeq(st, 1, sp - 2), st[sp - 1] \/ st[sp])
        [] OTHER -> Malformed

StackAfter(d, latch, ops) ==
  LET after[k \in 0 .. Len(ops)] ==
        IF k = 0 THEN [ok |-> TRUE, st |-> << >>]
        ELSE IF ~after[k - 1].ok THEN Malformed
        ELSE StackOp(d, latch, ops[k], after[k - 1].st)
  IN  after[Len(ops)]

eval_line(d, latch, ops) ==
  LET end == StackAfter(d, latch, ops)
  IN  end.ok /\ Len(end.st) = 1 /\ end.st[1]

-----------------------------------------------------------------------------
(* The structural default of a descriptor that carries no requirements.     *)

\* Mutant: the loose pledges are left out.
default_line_subs(d, latch, want) ==
  Subs(d) # {} /\ \A s \in Subs(d) : sub_all(d, latch, s, want)

default_line(d, latch, want) ==
  /\ \A s \in Subs(d) : sub_all(d, latch, s, want)
  /\ \A i \in Pledges(d) : pledge_is_loose(d, i) => latch[i] = want
  /\ Subs(d) # {} \/ \E i \in Pledges(d) : pledge_is_loose(d, i)

default_partial(d, latch) ==
  \E s \in Subs(d) : sub_all(d, latch, s, FULFILLED)

-----------------------------------------------------------------------------
(* The contract state: Broken is terminal; break is armed by a broken      *)
(* pledge and wins, then fulfill, then partial, and Signed when none fires. *)

armed(d, latch) == \E i \in Pledges(d) : latch[i] = BROKEN

has_trees(d) ==
  \/ d.has_reqs
  \/ \E line \in {d.atoms, d.req_fulfill, d.req_partial, d.req_break} : line # << >>

\* Mutant: the break line is not armed.
BreakUnarmed(d, latch) ==
  IF has_trees(d) THEN eval_line(d, latch, d.req_break)
                  ELSE default_line(d, latch, BROKEN)

BreakFires(d, latch) ==
  /\ armed(d, latch)
  /\ IF has_trees(d) THEN eval_line(d, latch, d.req_break)
                     ELSE default_line(d, latch, BROKEN)

FulfillFires(d, latch) ==
  IF has_trees(d) THEN eval_line(d, latch, d.req_fulfill)
                  ELSE default_line(d, latch, FULFILLED)

PartialFires(d, latch) ==
  IF has_trees(d) THEN eval_line(d, latch, d.req_partial)
                  ELSE default_partial(d, latch)

eval_policy(d, latch, state) ==
  IF state = "Broken" \/ BreakFires(d, latch) THEN "Broken"
  ELSE IF FulfillFires(d, latch) THEN "Fulfilled"
  ELSE IF PartialFires(d, latch) THEN "Partial"
  ELSE "Signed"

-----------------------------------------------------------------------------
(* The partial surface: named subcontracts and loose pledges, each in one   *)
(* of three item states.                                                    *)

sub_item_state(d, latch, s) ==
  IF sub_all(d, latch, s, FULFILLED) THEN FULFILLED
  ELSE IF sub_all(d, latch, s, BROKEN) THEN BROKEN
  ELSE PENDING

loose_item_state(latch, i) == latch[i]

partial_scan(d, latch, k) ==
  {<<"sub", s>> : s \in {t \in d.named : sub_item_state(d, latch, t) = k}}
    \cup
  {<<"pledge", i>> : i \in {j \in Pledges(d) : /\ pledge_is_loose(d, j)
                                               /\ loose_item_state(latch, j) = k}}

geas_partial_nerrors(d, latch) ==
  Cardinality({i \in Pledges(d) : latch[i] = BROKEN})

=============================================================================
