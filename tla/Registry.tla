------------------------------ MODULE Registry ------------------------------
(***************************************************************************)
(* The runtime's tables and the calls that fill them: contract             *)
(* descriptors with their sorted iname table, loaded modules, host         *)
(* bindings and signed instances, shared by the host threads.  rt->lock    *)
(* makes a registration, a bind and a freeze one step each, but a module   *)
(* load and a sign take and release it between their parts, and a module   *)
(* registers its contracts one by one.                                     *)
(*                                                                         *)
(* A mangled name is a number, ordered as strcmp orders the strings, with  *)
(* 0 for NULL.  The dynamic linker is external: dlopen counts references   *)
(* to a module and its image is gone when dlclose drops the last one.      *)
(***************************************************************************)
EXTENDS SequencesExt, FiniteSets, Integers

CONSTANTS
  Threads,
  Modules,      \* module |-> the sequence of descriptors it registers
  Statics,      \* descriptors the host registers itself
  HostFns,      \* functions the host may bind
  Overrides,    \* sequences of vow overrides passed to a sign
  MaxModules, MaxDescs, MaxBindings, MaxInstances,
  None

Mods == DOMAIN Modules
Descs == Statics \cup UNION {ToSet(Modules[m]) : m \in Mods}

ASSUME DescAssumption ==
  \A d \in Descs : /\ d.name \in Nat \ {0} /\ d.hash \in 1 .. 9
                   /\ d.pledges \in Seq([mangled : Nat, fn : {"body", None}])
                   /\ d \in Statics <=> d.module = None
                   /\ \A m \in Mods : d \in ToSet(Modules[m]) <=> d.module = m
ASSUME ModulesAssumption == \A m \in Mods : Modules[m] \in Seq(ToSet(Modules[m]))
ASSUME FnAssumption == None \notin HostFns /\ "body" \notin HostFns
ASSUME BoundAssumption == {MaxModules, MaxDescs, MaxBindings, MaxInstances} \subseteq Nat

VARIABLES
  life,       \* "up", "shutdown", or "dead" when a call read an unmapped image
  frozen,
  descs,      \* rt->descs
  inames,     \* rt->inames
  modules,    \* rt->modules
  bindings,   \* rt->bindings: pledge descriptor |-> function
  instances,  \* rt->instances
  local,      \* each thread's call in progress
  refs,       \* the linker's count for each module
  gone        \* the indices in descs whose module image was unmapped

tables == <<frozen, descs, inames, bindings>>
vars == <<life, tables, modules, instances, local, refs, gone>>

Idle == [op |-> "idle"]

Init ==
  /\ life = "up"
  /\ frozen = FALSE
  /\ descs = << >>
  /\ inames = << >>
  /\ modules = << >>
  /\ bindings = << >>
  /\ instances = << >>
  /\ local = [t \in Threads |-> Idle]
  /\ refs = [m \in Mods |-> 0]
  /\ gone = {}

-----------------------------------------------------------------------------
(* The iname table.                                                         *)

\* Whether the name is in the table, and its index or insertion point from 0.
iname_find(tbl, mangled) ==
  LET search[r \in (0 .. Len(tbl)) \X (0 .. Len(tbl))] ==
        LET lo  == r[1]
            hi  == r[2]
            mid == lo + (hi - lo) \div 2
            at  == tbl[mid + 1].mangled
        IN IF lo >= hi THEN <<FALSE, lo>>
           ELSE IF at = mangled THEN <<TRUE, mid>>
           ELSE IF at < mangled THEN search[<<mid + 1, hi>>] ELSE search[<<lo, mid>>]
  IN search[<<0, Len(tbl)>>]

\* One insert of a registration that has made acc.n of them; allocations succeed
\* for the first room only, and the first refusal is the registration's.
iname_insert(acc, e, room) ==
  LET find == iname_find(acc.tbl, e.mangled)
  IN IF acc.st # "OK" THEN acc
     ELSE IF find[1] THEN [acc EXCEPT !.st = "NAME"]
     ELSE IF acc.n >= room THEN [acc EXCEPT !.st = "OOM"]
     ELSE [st |-> "OK", n |-> acc.n + 1, tbl |-> InsertAt(acc.tbl, find[2] + 1, e)]

iname_contract_mangled(d) == 10 * d.name + d.hash

Entry(d, kind, mangled, symbol) ==
  [mangled |-> mangled, kind |-> kind, contract |-> d.name, symbol |-> symbol, hash |-> d.hash]

\* The entry of a registration's step i: the contract's first, then pledge i's.
EntryAt(d, i) ==
  IF i = 0 THEN Entry(d, "contract", iname_contract_mangled(d), 0)
           ELSE Entry(d, "pledge", d.pledges[i].mangled, i)

\* A pledge without a mangled name contributes none.
Skipped(d, i) == i # 0 /\ d.pledges[i].mangled = 0

EntriesOf(d) == {EntryAt(d, i) : i \in {j \in 0 .. Len(d.pledges) : ~Skipped(d, j)}}

\* A rollback that stops at the first entry it finds.
remove_one(tbl, contract) ==
  IF \E i \in DOMAIN tbl : tbl[i].contract = contract
  THEN RemoveFirstMatch(tbl, LAMBDA e : e.contract = contract) ELSE tbl

\* kept[r] is what the first r entries leave.
iname_remove_contract(tbl, contract) ==
  LET kept[r \in 0 .. Len(tbl)] ==
        IF r = 0 THEN << >>
        ELSE IF tbl[r].contract = contract THEN kept[r - 1]
        ELSE Append(kept[r - 1], tbl[r])
  IN kept[Len(tbl)]

\* The status and the table after one registration.
iname_register(tbl, d, room) ==
  LET start == [st |-> "OK", n |-> 0, tbl |-> tbl]
      after[i \in 0 .. Len(d.pledges)] ==
        LET acc == IF i = 0 THEN start ELSE after[i - 1]
        IN IF Skipped(d, i) THEN acc ELSE iname_insert(acc, EntryAt(d, i), room)
      end == after[Len(d.pledges)]
  IN [st  |-> end.st,
      tbl |-> IF end.st # "OK" /\ end.n > 0 THEN iname_remove_contract(end.tbl, d.name)
                                            ELSE end.tbl]

-----------------------------------------------------------------------------
(* Registration, freeze and bind: one critical section each.                *)

find_desc(name) == {d \in ToSet(descs) : d.name = name}

\* Mutant: the load has already looked at frozen.
AdmitsFrozen(d) == Len(descs) # MaxDescs /\ find_desc(d.name) = {}

Admits(d) == ~frozen /\ Len(descs) # MaxDescs /\ find_desc(d.name) = {}

Accepted(d, room) == Admits(d) /\ iname_register(inames, d, room).st = "OK"

\* The table is changed in place, so a refused registration leaves what its
\* rollback made of it.
geas_register_contract(d, room) ==
  /\ inames' = IF Admits(d) THEN iname_register(inames, d, room).tbl ELSE inames
  /\ descs' = IF Accepted(d, room) THEN Append(descs, d) ELSE descs
  /\ UNCHANGED <<frozen, bindings>>

\* Every insert succeeds, or an allocation fails at one of them.
Rooms(d) == 0 .. Cardinality(EntriesOf(d))

Ready(t) == life = "up" /\ local[t] = Idle

HostRegisters(t, d) ==
  /\ Ready(t)
  /\ \E room \in Rooms(d) : geas_register_contract(d, room)
  /\ UNCHANGED <<life, modules, instances, local, refs, gone>>

geas_runtime_freeze(t) ==
  /\ Ready(t)
  /\ frozen' = TRUE
  /\ UNCHANGED <<life, descs, inames, bindings, modules, instances, local, refs, gone>>

\* The pledge descriptors a bind can mean: "Contract.pledge" or a mangled symbol.
\* Of several registered pledges with the symbol the first one is taken, and the
\* iname table keeps them distinct.
resolve_pledge_name(name) ==
  {pd \in [desc : ToSet(descs), i : 1 .. 9] :
     /\ pd.i \in DOMAIN pd.desc.pledges
     /\ \/ name = <<pd.desc.name, pd.i>>
        \/ name = <<0, pd.desc.pledges[pd.i].mangled>> /\ name[2] # 0}

Names == UNION {UNION {{<<d.name, i>>, <<0, d.pledges[i].mangled>>} : i \in DOMAIN d.pledges}
                : d \in Descs}

geas_pledge_bind(t, name, fn) ==
  /\ Ready(t)
  /\ ~frozen
  /\ \E pd \in resolve_pledge_name(name) :
       /\ pd \in DOMAIN bindings \/ Cardinality(DOMAIN bindings) < MaxBindings
       /\ bindings' = [x \in DOMAIN bindings \cup {pd} |-> IF x = pd THEN fn ELSE bindings[x]]
  /\ UNCHANGED <<life, frozen, descs, inames, modules, instances, local, refs, gone>>

-----------------------------------------------------------------------------
(* geas_module_load: the frozen test, dlopen, the module's registrar, the    *)
(* module table.  Only the first and the last hold rt->lock by themselves.   *)

LoadCheck(t, m) ==
  /\ Ready(t)
  /\ ~frozen
  /\ local' = [local EXCEPT ![t] = [op |-> "load", m |-> m, next |-> 0]]
  /\ UNCHANGED <<life, tables, modules, instances, refs, gone>>

Loading(t) == life = "up" /\ local[t].op = "load"
Return(t) == local' = [local EXCEPT ![t] = Idle]

\* dlopen fails, or the module has no registrar and is closed again.
LoadRefused(t) ==
  /\ Loading(t) /\ local[t].next = 0
  /\ Return(t)
  /\ UNCHANGED <<life, tables, modules, instances, refs, gone>>

dlopen(t) ==
  /\ Loading(t) /\ local[t].next = 0
  /\ refs' = [refs EXCEPT ![local[t].m] = @ + 1]
  /\ local' = [local EXCEPT ![t].next = 1]
  /\ UNCHANGED <<life, tables, modules, instances, gone>>

dlclose(m) ==
  /\ refs' = [refs EXCEPT ![m] = @ - 1]
  /\ gone' = IF refs[m] = 1 THEN gone \cup {i \in DOMAIN descs : descs[i].module = m}
                            ELSE gone

\* The registrar's next contract; the first refusal ends it and the load.
LoadRegisters(t) ==
  /\ Loading(t) /\ local[t].next \in DOMAIN Modules[local[t].m]
  /\ LET d == Modules[local[t].m][local[t].next]
     IN \E room \in Rooms(d) :
          /\ geas_register_contract(d, room)
          /\ \/ /\ Accepted(d, room)
                /\ local' = [local EXCEPT ![t].next = @ + 1]
                /\ UNCHANGED <<refs, gone>>
             \/ /\ ~Accepted(d, room)
                /\ dlclose(local[t].m)
                /\ Return(t)
  /\ UNCHANGED <<life, modules, instances>>

\* A full table returns its error and leaves the module open.
LoadPublishLeaks(t) ==
  /\ Loading(t) /\ local[t].next = Len(Modules[local[t].m]) + 1
  /\ modules' = IF Len(modules) = MaxModules THEN modules ELSE Append(modules, local[t].m)
  /\ Return(t)
  /\ UNCHANGED <<life, tables, instances, refs, gone>>

LoadPublishes(t) ==
  /\ Loading(t) /\ local[t].next = Len(Modules[local[t].m]) + 1
  /\ \/ /\ Len(modules) = MaxModules
        /\ dlclose(local[t].m)
        /\ UNCHANGED modules
     \/ /\ Len(modules) # MaxModules
        /\ modules' = Append(modules, local[t].m)
        /\ UNCHANGED <<refs, gone>>
  /\ Return(t)
  /\ UNCHANGED <<life, tables, instances>>

-----------------------------------------------------------------------------
(* geas_contract_sign: resolve under rt->lock, build without it, publish      *)
(* under it again.                                                            *)

find_binding(pd) == IF pd \in DOMAIN bindings THEN bindings[pd] ELSE None

\* One function per pledge, None where it has neither a binding nor a body.
resolve_dispatch(d) ==
  [i \in DOMAIN d.pledges |->
     IF find_binding([desc |-> d, i |-> i]) # None
     THEN find_binding([desc |-> d, i |-> i]) ELSE d.pledges[i].fn]

\* History: the contracts a sign that came after the freeze found registered.
FrozenTable == IF frozen THEN descs ELSE << >>

SignResolve(t, name, expected_hash) ==
  /\ Ready(t)
  /\ \E d \in find_desc(name) :
       /\ expected_hash \in {0, d.hash}
       /\ \A i \in DOMAIN d.pledges : resolve_dispatch(d)[i] # None
       /\ local' = [local EXCEPT ![t] = [op |-> "sign", desc |-> d, late |-> frozen,
                                         fns |-> resolve_dispatch(d), table |-> FrozenTable]]
  /\ UNCHANGED <<life, tables, modules, instances, refs, gone>>

\* The value of each vow: the last override that names it, or 0 for its default.
\* No value at all when an override or a vow refuses the sign.
bind_vows(d, vows) ==
  LET named(j) == {k \in DOMAIN vows : vows[k].name = d.vows[j].name}
  IN IF /\ \A k \in DOMAIN vows :
             \E j \in DOMAIN d.vows : /\ vows[k].name = d.vows[j].name
                                      /\ vows[k].ty = d.vows[j].ty
                                      /\ vows[k].ty # "Instance"
        /\ \A j \in DOMAIN d.vows : named(j) # {} \/ d.vows[j].has_default
     THEN {[j \in DOMAIN d.vows |-> IF named(j) = {} THEN 0 ELSE Max(named(j))]}
     ELSE {}

Signing(t) == life = "up" /\ local[t].op = "sign"

\* An allocation, the vows or the store side refuse; what was built is freed.
SignFails(t) ==
  /\ Signing(t)
  /\ Return(t)
  /\ UNCHANGED <<life, tables, modules, instances, refs, gone>>

\* The publishing section appends unchecked.
NoRoomCheck == TRUE

InstanceRoom == Len(instances) # MaxInstances

SignPublishes(t, vows) ==
  /\ Signing(t)
  /\ \E vals \in bind_vows(local[t].desc, vows) :
       /\ InstanceRoom
       /\ instances' = Append(instances, [desc |-> local[t].desc, fns |-> local[t].fns,
                                          late |-> local[t].late, table |-> local[t].table,
                                          vow_vals |-> vals])
  /\ Return(t)
  /\ UNCHANGED <<life, tables, modules, refs, gone>>

-----------------------------------------------------------------------------
(* Shutdown: nothing else may be calling in.                                *)

geas_runtime_shutdown ==
  /\ life = "up"
  /\ \A t \in Threads : local[t] = Idle
  /\ life' = "shutdown"
  /\ refs' = [m \in Mods |-> refs[m] - Cardinality({i \in DOMAIN modules : modules[i] = m})]
  /\ instances' = << >> /\ modules' = << >> /\ inames' = << >>
  /\ descs' = << >> /\ bindings' = << >> /\ gone' = {}
  /\ UNCHANGED <<frozen, local>>

\* A walk over the descriptors or the inames reads an unmapped image.  The other
\* outcome, an image mapped there again, is what the calls above do.
Dies ==
  /\ life = "up"
  /\ gone # {}
  /\ life' = "dead"
  /\ UNCHANGED <<tables, modules, instances, local, refs, gone>>

Next ==
  \/ \E t \in Threads :
       \/ \E d \in Statics : HostRegisters(t, d)
       \/ geas_runtime_freeze(t)
       \/ \E name \in Names, fn \in HostFns : geas_pledge_bind(t, name, fn)
       \/ \E m \in Mods : LoadCheck(t, m)
       \/ LoadRefused(t)
       \/ dlopen(t)
       \/ LoadRegisters(t)
       \/ LoadPublishes(t)
       \/ \E d \in Descs, hash \in 0 .. 9 : SignResolve(t, d.name, hash)
       \/ SignFails(t)
       \/ \E vows \in Overrides : SignPublishes(t, vows)
  \/ geas_runtime_shutdown
  \/ Dies

Spec == Init /\ [][Next]_vars

-----------------------------------------------------------------------------
Locals ==
  {Idle} \cup [op : {"load"}, m : Mods, next : Nat]
         \cup {l \in [op : {"sign"}, desc : Descs, late : BOOLEAN,
                       fns : Seq(HostFns \cup {"body"}), table : Seq(Descs)] :
                 DOMAIN l.fns = DOMAIN l.desc.pledges}

(* Type invariant, with the capacities of the four tables: two signs or two *)
(* loads that both found room must not both take the last entry.            *)
TypeOK ==
  /\ life \in {"up", "shutdown", "dead"}
  /\ frozen \in BOOLEAN
  /\ descs \in Seq(Descs) /\ Len(descs) <= MaxDescs
  /\ modules \in Seq(Mods) /\ Len(modules) <= MaxModules
  /\ IsFiniteSet(DOMAIN bindings) /\ Cardinality(DOMAIN bindings) <= MaxBindings
  /\ \A pd \in DOMAIN bindings : pd.desc \in Descs /\ bindings[pd] \in HostFns
  /\ Len(instances) <= MaxInstances
  /\ local \in [Threads -> Locals]
  /\ refs \in [Mods -> Int]
  /\ gone \subseteq DOMAIN descs

(* The iname table mirrors the registered descriptors: it is strictly sorted, *)
(* and its entries are exactly the ones of the contracts in rt->descs, so a   *)
(* registration refused half way (a collision, an allocation) left nothing    *)
(* and took nothing of another contract with it.                              *)
InamesMirrorDescs ==
  /\ \A i, j \in DOMAIN inames : i < j => inames[i].mangled < inames[j].mangled
  /\ ToSet(inames) = UNION {EntriesOf(d) : d \in ToSet(descs)}

(* Once the runtime is frozen every sign resolves alike: whatever loads and   *)
(* binds were in flight when the freeze came, the contracts a later sign      *)
(* found registered are the ones registered ever after, its own among them,   *)
(* and it dispatches to what the tables say for ever.  geas_module_load tests *)
(* frozen long before its registrar runs, so each registration has to.        *)
FrozenSignsAgree ==
  \A i \in DOMAIN instances :
    instances[i].late =>
      /\ instances[i].table = descs
      /\ instances[i].desc \in ToSet(descs)
      /\ instances[i].fns = resolve_dispatch(instances[i].desc)

(* Every reference to a module image is a slot of the module table or a load  *)
(* in progress, so shutdown unmaps everything; and a module in the table has  *)
(* all its contracts registered, from an image that was never unmapped.       *)
LoadsAreAccounted ==
  /\ \A m \in Mods :
       refs[m] = Cardinality({i \in DOMAIN modules : modules[i] = m})
                   + Cardinality({t \in Threads : /\ local[t].op = "load"
                                                    /\ local[t].m = m /\ local[t].next > 0})
  /\ \A m \in ToSet(modules) : \A d \in ToSet(Modules[m]) :
       \E i \in DOMAIN descs \ gone : descs[i] = d

(* geas.h on GeasInameEntry and docs/abi.md on the descriptor tables: a        *)
(* registered descriptor lives in an image that stays mapped until shutdown.   *)
RegisteredIsMapped == gone = {}
=============================================================================
