--------------------------- MODULE Registry_proofs ---------------------------
(***************************************************************************)
(* What Registry keeps for any set of threads, modules and descriptors and *)
(* any capacities: the tables stay within them, a frozen runtime           *)
(* dispatches alike for ever, every image is accounted for, and the iname  *)
(* table always mirrors rt->descs.                                         *)
(***************************************************************************)
EXTENDS Registry, SetInduction

\* What a sign resolved is what the tables say.
Resolved(d, fns, table) ==
  d \in ToSet(descs) /\ fns = resolve_dispatch(d) /\ table = descs

IsSequence(s) == \E S : s \in Seq(S)

\* The inductive invariant: a sign in progress that began after the freeze holds
\* what the published instances hold.
RegInv ==
  /\ TypeOK
  /\ IsSequence(instances)
  /\ \A i \in DOMAIN instances :
       instances[i].late => frozen /\ Resolved(instances[i].desc, instances[i].fns, instances[i].table)
  /\ \A t \in Threads :
       local[t].op = "sign" /\ local[t].late =>
         frozen /\ Resolved(local[t].desc, local[t].fns, local[t].table)

LEMMA AppendFacts ==
  ASSUME NEW s, IsSequence(s), NEW e
  PROVE  /\ IsSequence(Append(s, e))
         /\ Len(Append(s, e)) = Len(s) + 1 /\ Len(s) \in Nat
         /\ DOMAIN Append(s, e) = 1 .. Len(s) + 1 /\ DOMAIN s = 1 .. Len(s)
         /\ \A i \in 1 .. Len(s) : Append(s, e)[i] = s[i]
         /\ Append(s, e)[Len(s) + 1] = e
PROOF
  <1>1. PICK S : s \in Seq(S)
    BY DEF IsSequence
  <1>2. s \in Seq(S \cup {e}) /\ e \in S \cup {e}
    BY <1>1
  <1>3. Append(s, e) \in Seq(S \cup {e})
    BY <1>2
  <1> QED
    BY <1>2, <1>3 DEF IsSequence

LEMMA InitRegInv == Init => RegInv
PROOF
  <1> SUFFICES ASSUME Init PROVE RegInv
    OBVIOUS
  <1>1. instances \in Seq({}) /\ Len(instances) = 0 /\ DOMAIN instances = {}
    BY DEF Init
  <1>2. DOMAIN bindings = {} /\ IsFiniteSet({}) /\ Cardinality({}) = 0
    BY FS_EmptySet DEF Init
  <1>3. \A t \in Threads : local[t] = Idle
    BY DEF Init
  <1>4. TypeOK
    <2>1. local \in [Threads -> Locals]
      BY DEF Init, Locals
    <2>2. refs \in [Mods -> Int]
      BY DEF Init
    <2>3. descs \in Seq(Descs) /\ modules \in Seq(Mods) /\ Len(descs) = 0 /\ Len(modules) = 0
      BY DEF Init
    <2>4. Len(descs) <= MaxDescs /\ Len(modules) <= MaxModules /\ Len(instances) <= MaxInstances
      BY <1>1, <2>3, BoundAssumption
    <2>5. Cardinality(DOMAIN bindings) <= MaxBindings
      BY <1>2, BoundAssumption
    <2> QED
      BY <1>2, <2>1, <2>2, <2>3, <2>4, <2>5 DEF Init, TypeOK
  <1> QED
    BY <1>1, <1>3, <1>4 DEF RegInv, IsSequence, Idle

LEMMA RegisterKeeps ==
  ASSUME TypeOK, NEW d \in Descs, NEW room, geas_register_contract(d, room)
  PROVE  /\ descs' \in Seq(Descs) /\ Len(descs') <= MaxDescs
         /\ ToSet(descs) \subseteq ToSet(descs)' /\ DOMAIN descs \subseteq DOMAIN descs'
         /\ bindings' = bindings /\ frozen' = frozen
         /\ frozen => descs' = descs
PROOF
  <1>1. CASE Accepted(d, room)
    <2>1. descs' = Append(descs, d) /\ Len(descs) # MaxDescs /\ ~frozen
      BY <1>1 DEF geas_register_contract, Accepted, Admits
    <2>2. /\ descs' \in Seq(Descs) /\ Len(descs') = Len(descs) + 1
          /\ \A i \in DOMAIN descs : i \in DOMAIN descs' /\ descs'[i] = descs[i]
      BY <2>1 DEF TypeOK
    <2> QED
      BY <2>1, <2>2, BoundAssumption DEF TypeOK, ToSet, geas_register_contract
  <1>2. CASE ~Accepted(d, room)
    BY <1>2 DEF geas_register_contract, TypeOK
  <1> QED
    BY <1>1, <1>2

\* The calls that neither bind nor move a sign forward.
LEMMA QuietKeeps ==
  ASSUME RegInv, TypeOK', bindings' = bindings, frozen => frozen' /\ descs' = descs,
         instances' = instances,
         \A t \in Threads : local'[t] = local[t] \/ local'[t].op # "sign"
  PROVE  RegInv'
PROOF
  <1>1. TypeOK /\ IsSequence(instances)'
    BY DEF RegInv, IsSequence
  <1>2. ASSUME NEW i \in DOMAIN instances, instances[i].late
        PROVE  frozen' /\ Resolved(instances[i].desc, instances[i].fns, instances[i].table)'
    BY <1>2 DEF RegInv, Resolved, resolve_dispatch, find_binding
  <1>3. ASSUME NEW t \in Threads, local'[t].op = "sign", local'[t].late
        PROVE  frozen' /\ Resolved(local[t].desc, local[t].fns, local[t].table)'
    <2>1. local'[t] = local[t]
      BY <1>3
    <2> QED
      BY <1>3, <2>1 DEF RegInv, Resolved, resolve_dispatch, find_binding
  <1> QED
    BY <1>1, <1>2, <1>3 DEF RegInv

\* What a thread's call becomes.
LEMMA LocalMoves ==
  ASSUME TypeOK, NEW t \in Threads
  PROVE  /\ \A l \in Locals : [local EXCEPT ![t] = l] \in [Threads -> Locals]
         /\ \A l : \A u \in Threads :
              [local EXCEPT ![t] = l][u] = IF u = t THEN l ELSE local[u]
         /\ local[t].op = "load" =>
              /\ local[t].m \in Mods /\ local[t].next \in Nat
              /\ \A n \in Nat : [local[t] EXCEPT !.next = n] \in Locals
              /\ \A n : [local[t] EXCEPT !.next = n].op = "load"
         /\ Idle \in Locals /\ Idle.op # "sign"
PROOF
  <1>1. local \in [Threads -> Locals]
    BY DEF TypeOK
  <1>2. Idle \in Locals /\ Idle.op # "sign"
    BY DEF Locals, Idle
  <1>3. ASSUME local[t].op = "load"
        PROVE  local[t] \in [op : {"load"}, m : Mods, next : Nat]
    BY <1>1, <1>3 DEF Locals, Idle
  <1>4. ASSUME local[t].op = "load"
        PROVE  /\ \A n \in Nat : [local[t] EXCEPT !.next = n] \in Locals
               /\ \A n : [local[t] EXCEPT !.next = n].op = "load"
    BY <1>3, <1>4 DEF Locals
  <1> QED
    BY <1>1, <1>2, <1>3, <1>4

LEMMA CloseKeeps ==
  ASSUME TypeOK, NEW m \in Mods, dlclose(m), DOMAIN descs \subseteq DOMAIN descs'
  PROVE  refs' \in [Mods -> Int] /\ gone' \subseteq DOMAIN descs'
PROOF
  BY DEF TypeOK, dlclose

LEMMA LoadKeeps ==
  ASSUME RegInv, NEW t \in Threads,
         \/ \E m \in Mods : LoadCheck(t, m)
         \/ LoadRefused(t) \/ dlopen(t) \/ LoadRegisters(t) \/ LoadPublishes(t)
  PROVE  RegInv'
PROOF
  <1> USE DEF tables
  <1>1. TypeOK
    BY DEF RegInv
  <1>2. CASE \E m \in Mods : LoadCheck(t, m)
    <2>1. PICK m \in Mods : LoadCheck(t, m)
      BY <1>2
    <2>2. [op |-> "load", m |-> m, next |-> 0] \in Locals
      BY DEF Locals
    <2>3. TypeOK'
      BY <1>1, <2>1, <2>2, LocalMoves DEF LoadCheck, TypeOK
    <2> QED
      BY <1>1, <2>1, <2>3, LocalMoves, QuietKeeps DEF LoadCheck
  <1>3. CASE LoadRefused(t)
    <2>1. TypeOK'
      BY <1>1, <1>3, LocalMoves DEF LoadRefused, Return, TypeOK
    <2> QED
      BY <1>1, <1>3, <2>1, LocalMoves, QuietKeeps DEF LoadRefused, Return
  <1>4. CASE dlopen(t)
    <2>1. local[t].op = "load" /\ local' = [local EXCEPT ![t] = [local[t] EXCEPT !.next = 1]]
      BY <1>4 DEF dlopen, Loading
    <2>2. refs' \in [Mods -> Int]
      BY <1>1, <1>4, <2>1, LocalMoves DEF dlopen, TypeOK
    <2>3. 1 \in Nat /\ [local[t] EXCEPT !.next = 1] \in Locals
      BY <1>1, <2>1, LocalMoves
    <2>4. local' \in [Threads -> Locals]
      BY <1>1, <2>1, <2>3, LocalMoves
    <2>5. TypeOK'
      BY <1>1, <1>4, <2>2, <2>4 DEF dlopen, TypeOK
    <2>6. \A u \in Threads : local'[u] = local[u] \/ local'[u].op # "sign"
      BY <1>1, <2>1, LocalMoves
    <2> QED
      BY <1>4, <2>5, <2>6, QuietKeeps DEF dlopen
  <1>5. CASE LoadRegisters(t)
    <2>1. /\ local[t].op = "load" /\ local[t].m \in Mods /\ local[t].next \in Nat
          /\ local[t].next \in DOMAIN Modules[local[t].m]
      BY <1>1, <1>5, LocalMoves DEF LoadRegisters, Loading
    <2> DEFINE d == Modules[local[t].m][local[t].next]
    <2>2. d \in Descs
      BY <2>1 DEF Descs, ToSet
    <2>3. PICK room : geas_register_contract(d, room)
                      /\ \/ /\ local' = [local EXCEPT ![t].next = @ + 1]
                            /\ UNCHANGED <<refs, gone>>
                         \/ dlclose(local[t].m) /\ Return(t)
      BY <1>5 DEF LoadRegisters
    <2>4. /\ descs' \in Seq(Descs) /\ Len(descs') <= MaxDescs
          /\ ToSet(descs) \subseteq ToSet(descs)' /\ DOMAIN descs \subseteq DOMAIN descs'
          /\ bindings' = bindings /\ frozen' = frozen
          /\ frozen => descs' = descs
      BY <1>1, <2>2, <2>3, RegisterKeeps
    <2>5. refs' \in [Mods -> Int] /\ gone' \subseteq DOMAIN descs'
      BY <1>1, <2>1, <2>3, <2>4, CloseKeeps DEF TypeOK
    <2>6. \/ local' = [local EXCEPT ![t] = [local[t] EXCEPT !.next = local[t].next + 1]]
          \/ local' = [local EXCEPT ![t] = Idle]
      BY <2>3 DEF Return
    <2>7. /\ local' \in [Threads -> Locals]
          /\ \A u \in Threads : local'[u] = local[u] \/ local'[u].op # "sign"
      <3>1. [local[t] EXCEPT !.next = local[t].next + 1] \in Locals
        BY <1>1, <2>1, LocalMoves
      <3>2. [local[t] EXCEPT !.next = local[t].next + 1].op # "sign"
        BY <1>1, <2>1, LocalMoves
      <3>3. PICK l \in Locals : l.op # "sign" /\ local' = [local EXCEPT ![t] = l]
        BY <1>1, <2>6, <3>1, <3>2, LocalMoves
      <3> QED
        BY <1>1, <3>3, LocalMoves
    <2>8. UNCHANGED <<life, modules, instances>>
      BY <1>5 DEF LoadRegisters
    <2>9. TypeOK'
      BY <1>1, <2>4, <2>5, <2>7, <2>8 DEF TypeOK
    <2> QED
      BY <2>4, <2>7, <2>8, <2>9, QuietKeeps
  <1>6. CASE LoadPublishes(t)
    <2>1. local[t].m \in Mods /\ local' = [local EXCEPT ![t] = Idle] /\ descs' = descs
      BY <1>1, <1>6, LocalMoves DEF LoadPublishes, Loading, Return
    <2>2. refs' \in [Mods -> Int] /\ gone' \subseteq DOMAIN descs'
      BY <1>1, <1>6, <2>1, CloseKeeps DEF LoadPublishes, TypeOK
    <2>3. modules' \in Seq(Mods) /\ Len(modules') <= MaxModules
      <3>1. CASE modules' = modules
        BY <1>1, <3>1 DEF TypeOK
      <3>2. CASE Len(modules) # MaxModules /\ modules' = Append(modules, local[t].m)
        <4>1. modules' \in Seq(Mods) /\ Len(modules') = Len(modules) + 1 /\ Len(modules) \in Nat
          BY <1>1, <2>1, <3>2 DEF TypeOK
        <4> QED
          BY <1>1, <3>2, <4>1, BoundAssumption DEF TypeOK
      <3> QED
        BY <1>6, <3>1, <3>2 DEF LoadPublishes
    <2>4. TypeOK'
      BY <1>1, <1>6, <2>1, <2>2, <2>3, LocalMoves DEF LoadPublishes, TypeOK
    <2> QED
      BY <1>1, <1>6, <2>1, <2>4, LocalMoves, QuietKeeps DEF LoadPublishes
  <1> QED
    BY <1>2, <1>3, <1>4, <1>5, <1>6

LEMMA HostCallKeeps ==
  ASSUME RegInv, NEW t \in Threads,
         \/ \E d \in Statics : HostRegisters(t, d)
         \/ geas_runtime_freeze(t) \/ SignFails(t)
  PROVE  RegInv'
PROOF
  <1> USE DEF tables
  <1>1. TypeOK
    BY DEF RegInv
  <1>2. CASE \E d \in Statics : HostRegisters(t, d)
    <2>1. PICK d \in Statics : HostRegisters(t, d)
      BY <1>2
    <2>2. d \in Descs /\ \E room : geas_register_contract(d, room)
      BY <2>1 DEF HostRegisters, Descs
    <2>3. /\ descs' \in Seq(Descs) /\ Len(descs') <= MaxDescs
          /\ ToSet(descs) \subseteq ToSet(descs)' /\ DOMAIN descs \subseteq DOMAIN descs'
          /\ bindings' = bindings /\ frozen' = frozen
          /\ frozen => descs' = descs
      BY <1>1, <2>2, RegisterKeeps
    <2>4. TypeOK'
      BY <1>1, <2>1, <2>3 DEF HostRegisters, TypeOK
    <2> QED
      BY <2>1, <2>3, <2>4, QuietKeeps DEF HostRegisters
  <1>3. CASE geas_runtime_freeze(t)
    <2>1. TypeOK'
      BY <1>1, <1>3 DEF geas_runtime_freeze, TypeOK
    <2> QED
      BY <1>3, <2>1, QuietKeeps DEF geas_runtime_freeze
  <1>4. CASE SignFails(t)
    <2>1. TypeOK'
      BY <1>1, <1>4, LocalMoves DEF SignFails, Return, TypeOK
    <2> QED
      BY <1>1, <1>4, <2>1, LocalMoves, QuietKeeps DEF SignFails, Return
  <1> QED
    BY <1>2, <1>3, <1>4

\* A bind finds the runtime open, so no sign is late yet.
LEMMA BindKeeps ==
  ASSUME RegInv, NEW t \in Threads, NEW name, NEW fn \in HostFns, geas_pledge_bind(t, name, fn)
  PROVE  RegInv'
PROOF
  <1>1. TypeOK /\ ~frozen
    BY DEF RegInv, geas_pledge_bind
  <1>2. PICK pd \in resolve_pledge_name(name) :
          /\ pd \in DOMAIN bindings \/ Cardinality(DOMAIN bindings) < MaxBindings
          /\ bindings' = [x \in DOMAIN bindings \cup {pd} |-> IF x = pd THEN fn ELSE bindings[x]]
    BY DEF geas_pledge_bind
  <1>3. pd.desc \in Descs
    BY <1>1 DEF resolve_pledge_name, ToSet, TypeOK
  <1>4. IsFiniteSet(DOMAIN bindings') /\ Cardinality(DOMAIN bindings') <= MaxBindings
    <2>1. DOMAIN bindings' = DOMAIN bindings \cup {pd}
      BY <1>2
    <2>2. IsFiniteSet(DOMAIN bindings) /\ Cardinality(DOMAIN bindings) \in Nat
      BY <1>1, FS_CardinalityType DEF TypeOK
    <2>3. /\ IsFiniteSet(DOMAIN bindings')
          /\ Cardinality(DOMAIN bindings') = IF pd \in DOMAIN bindings THEN Cardinality(DOMAIN bindings)
                                             ELSE Cardinality(DOMAIN bindings) + 1
      BY <2>1, <2>2, FS_AddElement
    <2> QED
      BY <1>1, <1>2, <2>2, <2>3, BoundAssumption DEF TypeOK
  <1>5. \A x \in DOMAIN bindings' : x.desc \in Descs /\ bindings'[x] \in HostFns
    BY <1>1, <1>2, <1>3 DEF TypeOK
  <1>6. TypeOK'
    BY <1>1, <1>4, <1>5 DEF geas_pledge_bind, TypeOK
  <1> QED
    BY <1>1, <1>6 DEF RegInv, geas_pledge_bind, IsSequence

LEMMA ResolveKeeps ==
  ASSUME RegInv, NEW t \in Threads, NEW name, NEW hash, SignResolve(t, name, hash)
  PROVE  RegInv'
PROOF
  <1> USE DEF tables
  <1>1. TypeOK
    BY DEF RegInv
  <1>2. PICK d \in find_desc(name) :
          /\ \A i \in DOMAIN d.pledges : resolve_dispatch(d)[i] # None
          /\ local' = [local EXCEPT ![t] = [op |-> "sign", desc |-> d, late |-> frozen,
                                            fns |-> resolve_dispatch(d), table |-> FrozenTable]]
    BY DEF SignResolve
  <1> DEFINE l == [op |-> "sign", desc |-> d, late |-> frozen,
                   fns |-> resolve_dispatch(d), table |-> FrozenTable]
  <1>3. d \in ToSet(descs) /\ d \in Descs
    BY <1>1 DEF find_desc, ToSet, TypeOK
  <1>4. resolve_dispatch(d) \in Seq(HostFns \cup {"body"})
        /\ DOMAIN resolve_dispatch(d) = DOMAIN d.pledges
    <2>1. d.pledges \in Seq([mangled : Nat, fn : {"body", None}])
      BY <1>3, DescAssumption
    <2>2. \A i \in DOMAIN d.pledges : d.pledges[i].fn \in {"body", None}
      <3> DEFINE R == [mangled : Nat, fn : {"body", None}]
      <3>1. \A r \in R : r.fn \in {"body", None}
        OBVIOUS
      <3>2. d.pledges \in Seq(R)
        BY <2>1
      <3> HIDE DEF R
      <3>3. \A q \in Seq(R) : \A i \in DOMAIN q : q[i] \in R
        OBVIOUS
      <3> QED
        BY <3>1, <3>2, <3>3, Zenon
    <2>3. \A i \in DOMAIN d.pledges : resolve_dispatch(d)[i] \in HostFns \cup {"body"}
      <3> SUFFICES ASSUME NEW i \in DOMAIN d.pledges
                   PROVE  resolve_dispatch(d)[i] \in HostFns \cup {"body"}
        OBVIOUS
      <3>1. resolve_dispatch(d)[i] # None
        BY <1>2
      <3>2. resolve_dispatch(d)[i] = IF find_binding([desc |-> d, i |-> i]) # None
                                     THEN find_binding([desc |-> d, i |-> i]) ELSE d.pledges[i].fn
        BY DEF resolve_dispatch
      <3>3. find_binding([desc |-> d, i |-> i]) \in HostFns \cup {None}
        BY <1>1 DEF find_binding, TypeOK
      <3> QED
        BY <2>2, <3>1, <3>2, <3>3
    <2>4. /\ DOMAIN resolve_dispatch(d) = DOMAIN d.pledges
          /\ DOMAIN d.pledges = 1 .. Len(d.pledges) /\ Len(d.pledges) \in Nat
      <3>1. DOMAIN resolve_dispatch(d) = DOMAIN d.pledges
        BY DEF resolve_dispatch
      <3>2. \A R : \A q \in Seq(R) : DOMAIN q = 1 .. Len(q) /\ Len(q) \in Nat
        OBVIOUS
      <3> QED
        BY <2>1, <3>1, <3>2, Zenon
    <2>5. resolve_dispatch(d) = [i \in 1 .. Len(d.pledges) |-> resolve_dispatch(d)[i]]
      BY <2>4 DEF resolve_dispatch
    <2>6. resolve_dispatch(d) \in [1 .. Len(d.pledges) -> HostFns \cup {"body"}]
      BY <2>1, <2>3, <2>4, <2>5
    <2> QED
      BY <2>1, <2>4, <2>6
  <1>5. l \in Locals
    BY <1>1, <1>3, <1>4 DEF Locals, TypeOK, FrozenTable
  <1>6. local' \in [Threads -> Locals]
    BY <1>1, <1>2, <1>5, LocalMoves
  <1>7. TypeOK'
    BY <1>1, <1>6 DEF SignResolve, TypeOK
  <1>8. UNCHANGED <<frozen, descs, bindings, instances>>
    BY DEF SignResolve
  <1>9. ASSUME NEW u \in Threads, local'[u].op = "sign", local'[u].late
        PROVE  frozen' /\ Resolved(local[u].desc, local[u].fns, local[u].table)'
    <2>1. CASE u = t
      <3>1. /\ local'[u].desc = d /\ local'[u].fns = resolve_dispatch(d)
            /\ local'[u].late = frozen /\ local'[u].table = FrozenTable
        BY <1>1, <1>2, <2>1, LocalMoves
      <3> QED
        BY <1>3, <1>8, <1>9, <3>1 DEF Resolved, resolve_dispatch, find_binding, FrozenTable
    <2>2. CASE u # t
      <3>1. local'[u] = local[u]
        BY <1>1, <1>2, <2>2, LocalMoves
      <3> QED
        BY <1>8, <1>9, <3>1 DEF RegInv, Resolved, resolve_dispatch, find_binding
    <2> QED
      BY <2>1, <2>2
  <1>10. ASSUME NEW i \in DOMAIN instances, instances[i].late
         PROVE  frozen' /\ Resolved(instances[i].desc, instances[i].fns, instances[i].table)'
    BY <1>8, <1>10 DEF RegInv, Resolved, resolve_dispatch, find_binding
  <1> QED
    BY <1>7, <1>8, <1>9, <1>10 DEF RegInv, IsSequence

LEMMA PublishKeeps ==
  ASSUME RegInv, NEW t \in Threads, NEW vows, SignPublishes(t, vows)
  PROVE  RegInv'
PROOF
  <1> USE DEF tables
  <1>1. TypeOK /\ IsSequence(instances)
    BY DEF RegInv
  <1>2. PICK vals : instances' = Append(instances, [desc |-> local[t].desc, fns |-> local[t].fns,
                                                    late |-> local[t].late, table |-> local[t].table,
                                                    vow_vals |-> vals])
    BY DEF SignPublishes
  <1>3. Len(instances) # MaxInstances /\ local' = [local EXCEPT ![t] = Idle]
        /\ local[t].op = "sign" /\ UNCHANGED <<life, frozen, descs, inames, bindings, modules, refs, gone>>
    BY DEF SignPublishes, InstanceRoom, Return, Signing
  <1>4. /\ IsSequence(instances') /\ Len(instances') = Len(instances) + 1 /\ Len(instances) \in Nat
        /\ DOMAIN instances' = 1 .. Len(instances) + 1 /\ DOMAIN instances = 1 .. Len(instances)
        /\ \A i \in 1 .. Len(instances) : instances'[i] = instances[i]
        /\ instances'[Len(instances) + 1].desc = local[t].desc
        /\ instances'[Len(instances) + 1].fns = local[t].fns
        /\ instances'[Len(instances) + 1].late = local[t].late
        /\ instances'[Len(instances) + 1].table = local[t].table
    BY <1>1, <1>2, AppendFacts
  <1>5. Len(instances') <= MaxInstances
    BY <1>1, <1>3, <1>4, BoundAssumption DEF TypeOK
  <1>6. TypeOK'
    BY <1>1, <1>3, <1>5, LocalMoves DEF TypeOK
  <1>7. \A u \in Threads : local'[u].op = "sign" => local'[u] = local[u]
    BY <1>1, <1>3, LocalMoves
  <1>8. ASSUME NEW u \in Threads, local'[u].op = "sign", local'[u].late
        PROVE  frozen' /\ Resolved(local[u].desc, local[u].fns, local[u].table)'
    BY <1>3, <1>7, <1>8 DEF RegInv, Resolved, resolve_dispatch, find_binding
  <1>9. ASSUME NEW i \in DOMAIN instances', instances'[i].late
        PROVE  frozen' /\ Resolved(instances[i].desc, instances[i].fns, instances[i].table)'
    <2>1. CASE i = Len(instances) + 1
      <3>1. /\ local[t].late /\ instances'[i].desc = local[t].desc
            /\ instances'[i].fns = local[t].fns /\ instances'[i].table = local[t].table
        BY <1>4, <1>9, <2>1
      <3>2. frozen /\ Resolved(local[t].desc, local[t].fns, local[t].table)
        BY <1>3, <3>1 DEF RegInv
      <3> QED
        BY <1>3, <3>1, <3>2 DEF Resolved, resolve_dispatch, find_binding
    <2>2. CASE i # Len(instances) + 1
      <3>1. i \in DOMAIN instances /\ instances'[i] = instances[i]
        BY <1>4, <2>2
      <3> QED
        BY <1>3, <1>9, <3>1 DEF RegInv, Resolved, resolve_dispatch, find_binding
    <2> QED
      BY <2>1, <2>2
  <1> QED
    BY <1>4, <1>6, <1>8, <1>9 DEF RegInv, IsSequence

LEMMA ShutdownKeeps == RegInv /\ geas_runtime_shutdown => RegInv'
PROOF
  <1> SUFFICES ASSUME RegInv, geas_runtime_shutdown PROVE RegInv'
    OBVIOUS
  <1>1. TypeOK
    BY DEF RegInv
  <1>2. /\ instances' = << >> /\ modules' = << >> /\ descs' = << >> /\ bindings' = << >>
        /\ gone' = {} /\ frozen' = frozen /\ local' = local /\ life' = "shutdown"
        /\ \A t \in Threads : local[t] = Idle
    BY DEF geas_runtime_shutdown
  <1>3. instances' \in Seq({}) /\ Len(instances') = 0 /\ DOMAIN instances' = {}
    BY <1>2
  <1>4. DOMAIN bindings' = {} /\ IsFiniteSet(DOMAIN bindings') /\ Cardinality(DOMAIN bindings') = 0
    BY <1>2, FS_EmptySet
  <1>5. /\ descs' \in Seq(Descs) /\ modules' \in Seq(Mods)
        /\ Len(descs') <= MaxDescs /\ Len(modules') <= MaxModules
        /\ Len(instances') <= MaxInstances /\ Cardinality(DOMAIN bindings') <= MaxBindings
    BY <1>2, <1>3, <1>4, BoundAssumption
  <1>6. refs' \in [Mods -> Int]
    <2>1. modules \in Seq(Mods)
      BY <1>1 DEF TypeOK
    <2>2. ASSUME NEW m \in Mods
          PROVE  Cardinality({i \in DOMAIN modules : modules[i] = m}) \in Nat
      <3>1. IsFiniteSet(1 .. Len(modules)) /\ DOMAIN modules = 1 .. Len(modules)
        BY <2>1, FS_Interval
      <3>2. IsFiniteSet({i \in DOMAIN modules : modules[i] = m})
        BY <3>1, FS_Subset
      <3> QED
        BY <3>2, FS_CardinalityType
    <2> QED
      BY <1>1, <2>2 DEF geas_runtime_shutdown, TypeOK
  <1>7. TypeOK'
    BY <1>1, <1>2, <1>4, <1>5, <1>6 DEF TypeOK
  <1> QED
    BY <1>2, <1>3, <1>7 DEF RegInv, IsSequence, Idle

LEMMA NextRegInv == RegInv /\ [Next]_vars => RegInv'
PROOF
  <1> SUFFICES ASSUME RegInv, [Next]_vars PROVE RegInv'
    OBVIOUS
  <1>1. CASE UNCHANGED vars
    <2>1. TypeOK'
      BY <1>1 DEF vars, tables, RegInv, TypeOK
    <2> QED
      BY <1>1, <2>1, QuietKeeps DEF vars, tables
  <1>2. CASE geas_runtime_shutdown
    BY <1>2, ShutdownKeeps
  <1>3. CASE Dies
    <2>1. TypeOK'
      BY <1>3 DEF Dies, tables, RegInv, TypeOK
    <2> QED
      BY <1>3, <2>1, QuietKeeps DEF Dies, tables
  <1>4. ASSUME NEW t \in Threads, NEW name \in Names, NEW fn \in HostFns,
               geas_pledge_bind(t, name, fn)
        PROVE  RegInv'
    BY <1>4, BindKeeps
  <1>5. ASSUME NEW t \in Threads, NEW d \in Descs, NEW hash \in 0 .. 9,
               SignResolve(t, d.name, hash)
        PROVE  RegInv'
    BY <1>5, ResolveKeeps
  <1>6. ASSUME NEW t \in Threads, NEW vows \in Overrides, SignPublishes(t, vows)
        PROVE  RegInv'
    BY <1>6, PublishKeeps
  <1> QED
    BY <1>1, <1>2, <1>3, <1>4, <1>5, <1>6, LoadKeeps, HostCallKeeps DEF Next

THEOREM RegistryInvariant == Spec => []RegInv
PROOF
  BY InitRegInv, NextRegInv, PTL DEF Spec

(***************************************************************************)
(* However many threads load, sign and bind at once, no table of the       *)
(* runtime outgrows its array, and the threads' calls stay well typed.     *)
(***************************************************************************)
THEOREM TablesWithinBounds == Spec => []TypeOK
PROOF
  <1>1. RegInv => TypeOK
    BY DEF RegInv
  <1> QED
    BY <1>1, RegistryInvariant, PTL

(***************************************************************************)
(* Every instance whose sign began after geas_runtime_freeze dispatches to *)
(* what the frozen tables say, for ever.                                   *)
(***************************************************************************)
THEOREM FreezeIsFinal == Spec => []FrozenSignsAgree
PROOF
  <1>1. RegInv => FrozenSignsAgree
    BY DEF RegInv, FrozenSignsAgree, Resolved
  <1> QED
    BY <1>1, RegistryInvariant, PTL

-----------------------------------------------------------------------------
(* The accounting of the module images.                                     *)

\* The loads of m that hold a reference, and the slots of the module table.
Loaders(m) == {t \in Threads : local[t].op = "load" /\ local[t].m = m /\ local[t].next > 0}
Slots(m) == {i \in DOMAIN modules : modules[i] = m}

\* A descriptor that is registered, from an image that was never unmapped.
Mapped(d) == \E i \in DOMAIN descs \ gone : descs[i] = d

Counted ==
  \A m \in Mods : /\ IsFiniteSet(Loaders(m))
                  /\ refs[m] = Cardinality(Slots(m)) + Cardinality(Loaders(m))

SlotsMapped == \A m \in ToSet(modules) : \A d \in ToSet(Modules[m]) : Mapped(d)

\* A load in progress has registered the contracts before its next one.
LoadersMapped ==
  \A m \in Mods : \A t \in Loaders(m) : \A k \in DOMAIN Modules[m] :
    k < local[t].next => Mapped(Modules[m][k])

\* The inductive invariant of the accounting.
LoadInv ==
  /\ TypeOK
  /\ Counted
  /\ SlotsMapped
  /\ LoadersMapped

\* The slots of a module are finitely many.
LEMMA SlotsFinite ==
  ASSUME TypeOK, NEW m
  PROVE  IsFiniteSet(Slots(m)) /\ Cardinality(Slots(m)) \in Nat
PROOF
  <1>1. modules \in Seq(Mods)
    BY DEF TypeOK
  <1>2. DOMAIN modules = 1 .. Len(modules) /\ IsFiniteSet(1 .. Len(modules))
    BY <1>1, FS_Interval
  <1>3. IsFiniteSet(Slots(m))
    BY <1>2, FS_Subset DEF Slots
  <1> QED
    BY <1>3, FS_CardinalityType

\* What a thread's step does to the loads that hold a reference.
LEMMA LoadersMove ==
  ASSUME TypeOK, NEW t \in Threads, NEW l, local' = [local EXCEPT ![t] = l], NEW m
  PROVE  Loaders(m)' = IF l.op = "load" /\ l.m = m /\ l.next > 0
                       THEN Loaders(m) \cup {t} ELSE Loaders(m) \ {t}
PROOF
  BY LocalMoves DEF Loaders

\* The last reference: nothing else holds the image.
LEMMA LastReference ==
  ASSUME LoadInv, NEW m \in Mods, NEW t \in Loaders(m), refs[m] = 1
  PROVE  Slots(m) = {} /\ Loaders(m) = {t}
PROOF
  <1>1. IsFiniteSet(Slots(m)) /\ Cardinality(Slots(m)) \in Nat
    BY SlotsFinite DEF LoadInv
  <1>2. IsFiniteSet(Loaders(m)) /\ Cardinality(Loaders(m)) \in Nat
    BY FS_CardinalityType DEF LoadInv, Counted
  <1>3. Cardinality(Loaders(m)) # 0
    BY <1>2, FS_EmptySet
  <1>4. Cardinality(Slots(m)) = 0 /\ Cardinality(Loaders(m)) = 1
    BY <1>1, <1>2, <1>3 DEF LoadInv, Counted
  <1>5. Slots(m) = {}
    BY <1>1, <1>4, FS_EmptySet
  <1>6. PICK x : Loaders(m) = {x}
    BY <1>2, <1>4, FS_Singleton
  <1> QED
    BY <1>5, <1>6

\* A registration moves no descriptor that is already in the table.
LEMMA RegisterExtends ==
  ASSUME TypeOK, NEW d \in Descs, NEW room, geas_register_contract(d, room)
  PROVE  /\ DOMAIN descs \subseteq DOMAIN descs'
         /\ \A i \in DOMAIN descs : descs'[i] = descs[i]
         /\ Accepted(d, room) =>
              \E i \in DOMAIN descs' : i \notin DOMAIN descs /\ descs'[i] = d
PROOF
  <1>0. descs \in Seq(Descs) /\ Len(descs) \in Nat /\ DOMAIN descs = 1 .. Len(descs)
    BY DEF TypeOK
  <1>1. CASE Accepted(d, room)
    <2>1. descs' = Append(descs, d)
      BY <1>1 DEF geas_register_contract
    <2>2. /\ DOMAIN descs' = 1 .. Len(descs) + 1 /\ descs'[Len(descs) + 1] = d
          /\ \A i \in DOMAIN descs : descs'[i] = descs[i]
      BY <1>0, <2>1
    <2>3. Len(descs) + 1 \in DOMAIN descs' /\ Len(descs) + 1 \notin DOMAIN descs
      BY <1>0, <2>2
    <2> QED
      BY <1>0, <2>2, <2>3
  <1>2. CASE ~Accepted(d, room)
    BY <1>2 DEF geas_register_contract
  <1> QED
    BY <1>1, <1>2

\* The steps in which no load takes, drops or passes on a reference.
LEMMA QuietAccounts ==
  ASSUME LoadInv, TypeOK', modules' = modules, refs' = refs, gone' = gone,
         DOMAIN descs \subseteq DOMAIN descs',
         \A i \in DOMAIN descs : descs'[i] = descs[i],
         \A t \in Threads : \/ local'[t] = local[t]
                            \/ /\ ~(local[t].op = "load" /\ local[t].next > 0)
                               /\ ~(local'[t].op = "load" /\ local'[t].next > 0)
  PROVE  LoadInv'
PROOF
  <1>1. \A d : Mapped(d) => Mapped(d)'
    BY DEF Mapped
  <1>2. \A m : Loaders(m)' = Loaders(m) /\ Slots(m)' = Slots(m)
    BY DEF Loaders, Slots
  <1>3. Counted'
    BY <1>2 DEF LoadInv, Counted
  <1>4. SlotsMapped'
    BY <1>1 DEF LoadInv, SlotsMapped
  <1>5. \A m : \A t \in Loaders(m) : local'[t] = local[t]
    BY DEF Loaders
  <1>6. LoadersMapped'
    BY <1>1, <1>2, <1>5 DEF LoadInv, LoadersMapped
  <1> QED
    BY <1>3, <1>4, <1>6 DEF LoadInv

\* A load that gives up its reference: if it was the last one, the image goes, and
\* neither a slot nor another load of the module is left to miss it.
LEMMA CloseAccounts ==
  ASSUME LoadInv, TypeOK', NEW t \in Threads, NEW m \in Mods, t \in Loaders(m), dlclose(m),
         local' = [local EXCEPT ![t] = Idle], modules' = modules, descs' = descs
  PROVE  LoadInv'
PROOF
  <1>t. TypeOK
    BY DEF LoadInv
  <1>1. \A n \in Mods : Loaders(n)' = Loaders(n) \ {t} /\ Slots(n)' = Slots(n)
    BY <1>t, LoadersMove DEF Idle, Slots
  <1>2. \A n \in Mods : n # m => t \notin Loaders(n)
    BY DEF Loaders
  <1>3. Counted'
    <2> SUFFICES ASSUME NEW n \in Mods
                 PROVE  /\ IsFiniteSet(Loaders(n) \ {t})
                        /\ refs'[n] = Cardinality(Slots(n)) + Cardinality(Loaders(n) \ {t})
      BY <1>1 DEF Counted
    <2>1. IsFiniteSet(Loaders(n)) /\ refs[n] = Cardinality(Slots(n)) + Cardinality(Loaders(n))
      BY DEF LoadInv, Counted
    <2>2. /\ IsFiniteSet(Loaders(n) \ {t})
          /\ Cardinality(Loaders(n) \ {t}) =
               IF t \in Loaders(n) THEN Cardinality(Loaders(n)) - 1 ELSE Cardinality(Loaders(n))
      BY <2>1, FS_RemoveElement
    <2>3. Cardinality(Slots(n)) \in Nat /\ Cardinality(Loaders(n)) \in Nat
      BY <1>t, <2>1, SlotsFinite, FS_CardinalityType
    <2>4. refs'[n] = IF n = m THEN refs[n] - 1 ELSE refs[n]
      BY <1>t DEF dlclose, TypeOK
    <2> QED
      BY <1>2, <2>1, <2>2, <2>3, <2>4
  <1>4. ASSUME NEW n \in Mods, NEW d \in ToSet(Modules[n]), Mapped(d),
               Slots(n) # {} \/ Loaders(n) \ {t} # {}
        PROVE  Mapped(d)'
    <2>1. PICK i \in DOMAIN descs \ gone : descs[i] = d
      BY <1>4 DEF Mapped
    <2>2. d \in Descs /\ d.module = n
      <3>1. d \in Descs
        BY <1>4 DEF Descs
      <3> QED
        BY <1>4, <3>1, DescAssumption
    <2>3. i \notin gone'
      <3>1. CASE refs[m] = 1
        <4>1. Slots(m) = {} /\ Loaders(m) = {t}
          BY <3>1, LastReference
        <4>2. n # m
          BY <1>4, <4>1
        <4> QED
          BY <2>1, <2>2, <3>1, <4>2 DEF dlclose
      <3>2. CASE refs[m] # 1
        BY <2>1, <3>2 DEF dlclose
      <3> QED
        BY <3>1, <3>2
    <2> QED
      BY <2>1, <2>3 DEF Mapped
  <1>5. SlotsMapped'
    <2> SUFFICES ASSUME NEW n \in ToSet(modules), NEW d \in ToSet(Modules[n]) PROVE Mapped(d)'
      BY DEF SlotsMapped
    <2>1. n \in Mods /\ Slots(n) # {}
      BY <1>t DEF TypeOK, ToSet, Slots
    <2>2. Mapped(d)
      BY DEF LoadInv, SlotsMapped
    <2> QED
      BY <1>4, <2>1, <2>2
  <1>6. LoadersMapped'
    <2> SUFFICES ASSUME NEW n \in Mods, NEW u \in Loaders(n) \ {t}, NEW k \in DOMAIN Modules[n],
                        k < local'[u].next
                 PROVE  Mapped(Modules[n][k])'
      BY <1>1 DEF LoadersMapped
    <2>1. u \in Threads /\ u # t /\ local'[u] = local[u]
      BY <1>t, LocalMoves DEF Loaders
    <2>2. Mapped(Modules[n][k]) /\ Modules[n][k] \in ToSet(Modules[n])
      BY <2>1 DEF LoadInv, LoadersMapped, ToSet
    <2> QED
      BY <1>4, <2>2
  <1> QED
    BY <1>3, <1>5, <1>6 DEF LoadInv

\* dlopen takes the reference of the load; nothing is registered yet.
LEMMA OpenAccounts ==
  ASSUME LoadInv, TypeOK', NEW t \in Threads, dlopen(t)
  PROVE  LoadInv'
PROOF
  <1>t. TypeOK
    BY DEF LoadInv
  <1>1. local[t].op = "load" /\ local[t].next = 0 /\ local[t].m \in Mods
    BY <1>t, LocalMoves DEF dlopen, Loading
  <1>o. PICK m \in Mods : m = local[t].m
    BY <1>1
  <1>2. PICK l : l = [local[t] EXCEPT !.next = 1]
    OBVIOUS
  <1>3. l.op = "load" /\ l.m = m /\ l.next = 1
    <2>1. local[t] \in [op : {"load"}, m : Mods, next : Nat]
      BY <1>t, <1>1 DEF TypeOK, Locals, Idle
    <2> QED
      BY <1>o, <1>2, <2>1
  <1>4. /\ local' = [local EXCEPT ![t] = l] /\ refs' = [refs EXCEPT ![m] = @ + 1]
        /\ UNCHANGED <<descs, modules, gone>>
    BY <1>2, <1>o DEF dlopen, tables
  <1>5. \A n \in Mods : /\ Loaders(n)' = IF n = m THEN Loaders(n) \cup {t} ELSE Loaders(n)
                        /\ Slots(n)' = Slots(n) /\ t \notin Loaders(n)
    <2>1. \A n \in Mods : t \notin Loaders(n)
      BY <1>1 DEF Loaders
    <2>2. \A n \in Mods : Loaders(n)' = IF l.op = "load" /\ l.m = n /\ l.next > 0
                                        THEN Loaders(n) \cup {t} ELSE Loaders(n) \ {t}
      BY <1>t, <1>4, LoadersMove
    <2> QED
      BY <1>3, <1>4, <2>1, <2>2 DEF Slots
  <1>6. Counted'
    <2> SUFFICES ASSUME NEW n \in Mods
                 PROVE  /\ IsFiniteSet(Loaders(n)')
                        /\ refs'[n] = Cardinality(Slots(n)) + Cardinality(Loaders(n)')
      BY <1>5 DEF Counted
    <2>1. IsFiniteSet(Loaders(n)) /\ refs[n] = Cardinality(Slots(n)) + Cardinality(Loaders(n))
      BY DEF LoadInv, Counted
    <2>2. IsFiniteSet(Loaders(n) \cup {t}) /\ Cardinality(Loaders(n) \cup {t}) = Cardinality(Loaders(n)) + 1
      BY <1>5, <2>1, FS_AddElement
    <2>3. Cardinality(Slots(n)) \in Nat /\ Cardinality(Loaders(n)) \in Nat
      BY <1>t, <2>1, SlotsFinite, FS_CardinalityType
    <2>4. refs'[n] = IF n = m THEN refs[n] + 1 ELSE refs[n]
      BY <1>t, <1>4 DEF TypeOK
    <2> QED
      BY <1>5, <2>1, <2>2, <2>3, <2>4
  <1>7. \A d : Mapped(d)' <=> Mapped(d)
    BY <1>4 DEF Mapped
  <1>8. SlotsMapped'
    BY <1>4, <1>7 DEF LoadInv, SlotsMapped
  <1>9. LoadersMapped'
    <2> SUFFICES ASSUME NEW n \in Mods, NEW u \in Loaders(n)', NEW k \in DOMAIN Modules[n],
                        k < local'[u].next
                 PROVE  Mapped(Modules[n][k])
      BY <1>7 DEF LoadersMapped
    <2>1. CASE u = t
      <3>1. local'[u].next = 1
        BY <1>t, <1>3, <1>4, <2>1, LocalMoves
      <3>2. k \in 1 .. Len(Modules[n])
        BY ModulesAssumption
      <3> QED
        BY <3>1, <3>2
    <2>2. CASE u # t
      <3>1. u \in Loaders(n) /\ u \in Threads /\ local'[u] = local[u]
        BY <1>t, <1>4, <1>5, <2>2, LocalMoves DEF Loaders
      <3> QED
        BY <3>1 DEF LoadInv, LoadersMapped
    <2> QED
      BY <2>1, <2>2
  <1> QED
    BY <1>6, <1>8, <1>9 DEF LoadInv

\* The registrar's contract was taken: the load stands one further.
LEMMA RegisterAccounts ==
  ASSUME LoadInv, TypeOK', NEW t \in Threads, Loading(t),
         NEW m \in Mods, local[t].m = m, local[t].next \in DOMAIN Modules[m],
         NEW room, geas_register_contract(Modules[m][local[t].next], room),
         Accepted(Modules[m][local[t].next], room),
         local' = [local EXCEPT ![t].next = @ + 1], UNCHANGED <<refs, gone, modules>>
  PROVE  LoadInv'
PROOF
  <1>t. TypeOK
    BY DEF LoadInv
  <1>1. local[t].op = "load" /\ local[t].next \in Nat
    BY <1>t, LocalMoves DEF Loading
  <1>j. PICK j \in Nat : j = local[t].next
    BY <1>1
  <1>0. j \in 1 .. Len(Modules[m]) /\ Modules[m][j] \in Descs
    <2>1. j \in DOMAIN Modules[m] /\ DOMAIN Modules[m] = 1 .. Len(Modules[m])
      BY <1>j, ModulesAssumption
    <2> QED
      BY <2>1 DEF Descs, ToSet
  <1>2. PICK l : l = [local[t] EXCEPT !.next = local[t].next + 1]
    OBVIOUS
  <1>3. l.op = "load" /\ l.m = m /\ l.next = j + 1
    <2>1. local[t] \in [op : {"load"}, m : Mods, next : Nat]
      BY <1>t, <1>1 DEF TypeOK, Locals, Idle
    <2> QED
      BY <1>j, <1>2, <2>1
  <1>4. local' = [local EXCEPT ![t] = l]
    BY <1>2
  <1>5. \A n \in Mods : Loaders(n)' = Loaders(n) /\ Slots(n)' = Slots(n)
    <2>1. t \in Loaders(m) /\ \A n \in Mods : n # m => t \notin Loaders(n)
      BY <1>0, <1>1, <1>j DEF Loaders
    <2>2. \A n \in Mods : Loaders(n)' = IF l.op = "load" /\ l.m = n /\ l.next > 0
                                        THEN Loaders(n) \cup {t} ELSE Loaders(n) \ {t}
      BY <1>t, <1>4, LoadersMove
    <2> QED
      BY <1>3, <2>1, <2>2 DEF Slots
  <1>6. Counted'
    BY <1>5 DEF LoadInv, Counted
  <1>7. /\ DOMAIN descs \subseteq DOMAIN descs'
        /\ \A i \in DOMAIN descs : descs'[i] = descs[i]
        /\ \E i \in DOMAIN descs' : i \notin DOMAIN descs /\ descs'[i] = Modules[m][j]
    BY <1>t, <1>j, <1>0, RegisterExtends
  <1>8. (\A d : Mapped(d) => Mapped(d)') /\ Mapped(Modules[m][j])'
    BY <1>t, <1>7 DEF Mapped, TypeOK
  <1>9. SlotsMapped'
    BY <1>8 DEF LoadInv, SlotsMapped
  <1>10. LoadersMapped'
    <2> SUFFICES ASSUME NEW n \in Mods, NEW u \in Loaders(n), NEW k \in DOMAIN Modules[n],
                        k < local'[u].next
                 PROVE  Mapped(Modules[n][k])'
      BY <1>5 DEF LoadersMapped
    <2>1. CASE u = t
      <3>0. n = m /\ k \in 1 .. Len(Modules[n])
        BY <2>1, ModulesAssumption DEF Loaders
      <3>1. local'[u].next = j + 1
        BY <1>t, <1>3, <1>4, <2>1, LocalMoves
      <3>2. k = j \/ k < local[u].next
        BY <1>j, <2>1, <3>0, <3>1
      <3> QED
        BY <1>8, <3>0, <3>2 DEF LoadInv, LoadersMapped
    <2>2. CASE u # t
      <3>1. local'[u] = local[u]
        BY <1>t, <1>4, <2>2, LocalMoves DEF Loaders
      <3> QED
        BY <1>8, <3>1 DEF LoadInv, LoadersMapped
    <2> QED
      BY <2>1, <2>2
  <1> QED
    BY <1>6, <1>9, <1>10 DEF LoadInv

\* The load's reference becomes the slot's, with every contract registered.
LEMMA PublishAccounts ==
  ASSUME LoadInv, TypeOK', NEW t \in Threads, NEW m \in Mods, t \in Loaders(m),
         local[t].next = Len(Modules[m]) + 1,
         modules' = Append(modules, m), local' = [local EXCEPT ![t] = Idle],
         UNCHANGED <<refs, gone, descs>>
  PROVE  LoadInv'
PROOF
  <1>t. TypeOK
    BY DEF LoadInv
  <1>0. modules \in Seq(Mods) /\ Len(modules) \in Nat
    BY <1>t DEF TypeOK
  <1>1. \A n \in Mods : Loaders(n)' = Loaders(n) \ {t}
    <2>1. Idle.op # "load"
      BY DEF Idle
    <2>2. \A n : Loaders(n)' = IF Idle.op = "load" /\ Idle.m = n /\ Idle.next > 0
                               THEN Loaders(n) \cup {t} ELSE Loaders(n) \ {t}
      BY <1>t, LoadersMove
    <2> QED
      BY <2>1, <2>2
  <1>2. \A n \in Mods : n # m => t \notin Loaders(n)
    BY DEF Loaders
  <1>3. /\ DOMAIN modules = 1 .. Len(modules) /\ DOMAIN modules' = 1 .. Len(modules) + 1
        /\ modules'[Len(modules) + 1] = m
        /\ \A i \in DOMAIN modules : modules'[i] = modules[i]
    BY <1>0
  <1>4. \A n \in Mods : Slots(n)' = IF n = m THEN Slots(n) \cup {Len(modules) + 1} ELSE Slots(n)
    BY <1>0, <1>3 DEF Slots
  <1>5. Len(modules) + 1 \notin Slots(m)
    BY <1>0, <1>3 DEF Slots
  <1>6. Counted'
    <2> SUFFICES ASSUME NEW n \in Mods
                 PROVE  /\ IsFiniteSet(Loaders(n) \ {t})
                        /\ refs[n] = Cardinality(Slots(n)') + Cardinality(Loaders(n) \ {t})
      BY <1>1 DEF Counted
    <2>1. IsFiniteSet(Loaders(n)) /\ refs[n] = Cardinality(Slots(n)) + Cardinality(Loaders(n))
      BY DEF LoadInv, Counted
    <2>2. /\ IsFiniteSet(Loaders(n) \ {t})
          /\ Cardinality(Loaders(n) \ {t}) =
               IF t \in Loaders(n) THEN Cardinality(Loaders(n)) - 1 ELSE Cardinality(Loaders(n))
      BY <2>1, FS_RemoveElement
    <2>3. /\ IsFiniteSet(Slots(n)) /\ Cardinality(Slots(n)) \in Nat
          /\ Cardinality(Loaders(n)) \in Nat
      BY <1>t, <2>1, SlotsFinite, FS_CardinalityType
    <2>4. n = m => Cardinality(Slots(n) \cup {Len(modules) + 1}) = Cardinality(Slots(n)) + 1
      BY <1>5, <2>3, FS_AddElement
    <2>5. CASE n = m
      <3>1. Slots(n)' = Slots(n) \cup {Len(modules) + 1}
        BY <1>4, <2>5
      <3>2. Cardinality(Slots(n)') = Cardinality(Slots(n)) + 1
        BY <2>4, <2>5, <3>1
      <3> QED
        BY <2>1, <2>2, <2>3, <2>5, <3>2
    <2>6. CASE n # m
      BY <1>2, <1>4, <2>1, <2>2, <2>6
    <2> QED
      BY <2>5, <2>6
  <1>7. \A d : Mapped(d)' <=> Mapped(d)
    BY DEF Mapped
  <1>8. SlotsMapped'
    <2> SUFFICES ASSUME NEW n \in ToSet(modules)', NEW d \in ToSet(Modules[n]) PROVE Mapped(d)
      BY <1>7 DEF SlotsMapped
    <2>1. CASE n = m
      <3>1. PICK k \in DOMAIN Modules[m] : d = Modules[m][k]
        BY <2>1 DEF ToSet
      <3>2. k \in 1 .. Len(Modules[m]) /\ Len(Modules[m]) \in Nat
        BY ModulesAssumption
      <3>3. k < local[t].next
        BY <3>2
      <3> QED
        BY <3>1, <3>3 DEF LoadInv, LoadersMapped
    <2>2. CASE n # m
      <3>1. n \in ToSet(modules)
        BY <1>0, <1>3, <2>2 DEF ToSet
      <3> QED
        BY <3>1 DEF LoadInv, SlotsMapped
    <2> QED
      BY <2>1, <2>2
  <1>9. LoadersMapped'
    <2> SUFFICES ASSUME NEW n \in Mods, NEW u \in Loaders(n) \ {t}, NEW k \in DOMAIN Modules[n],
                        k < local'[u].next
                 PROVE  Mapped(Modules[n][k])
      BY <1>1, <1>7 DEF LoadersMapped
    <2>1. local'[u] = local[u]
      BY <1>t, LocalMoves DEF Loaders
    <2> QED
      BY <2>1 DEF LoadInv, LoadersMapped
  <1> QED
    BY <1>6, <1>8, <1>9 DEF LoadInv

\* Shutdown closes a reference for every slot, and no load is left to hold one.
LEMMA ShutdownAccounts ==
  ASSUME LoadInv, TypeOK', geas_runtime_shutdown
  PROVE  LoadInv'
PROOF
  <1>t. TypeOK
    BY DEF LoadInv
  <1>1. /\ modules' = << >> /\ local' = local /\ \A t \in Threads : local[t] = Idle
        /\ refs' = [m \in Mods |-> refs[m] - Cardinality(Slots(m))]
    BY DEF geas_runtime_shutdown, Slots
  <1>2. \A m : Loaders(m) = {} /\ Loaders(m)' = {}
    BY <1>1 DEF Loaders, Idle
  <1>3. \A m : Slots(m)' = {}
    BY <1>1 DEF Slots
  <1>4. Counted'
    <2> SUFFICES ASSUME NEW m \in Mods
                 PROVE  /\ IsFiniteSet(Loaders(m)')
                        /\ refs'[m] = Cardinality(Slots(m)') + Cardinality(Loaders(m)')
      BY DEF Counted
    <2>1. refs[m] = Cardinality(Slots(m)) + Cardinality(Loaders(m))
      BY DEF LoadInv, Counted
    <2>2. Cardinality(Slots(m)) \in Nat /\ Cardinality({}) = 0 /\ IsFiniteSet({})
      BY <1>t, SlotsFinite, FS_EmptySet
    <2>3. refs'[m] = 0
      <3>1. refs'[m] = refs[m] - Cardinality(Slots(m)) /\ Cardinality(Loaders(m)) = 0
        BY <1>1, <1>2, <2>2
      <3> QED
        BY <2>1, <2>2, <3>1
    <2> QED
      BY <1>2, <1>3, <2>2, <2>3
  <1>5. SlotsMapped' /\ LoadersMapped'
    BY <1>1, <1>2 DEF SlotsMapped, LoadersMapped, ToSet
  <1> QED
    BY <1>4, <1>5 DEF LoadInv

\* The steps of a load.
LEMMA LoadAccounts ==
  ASSUME LoadInv, TypeOK', NEW t \in Threads,
         \/ \E m \in Mods : LoadCheck(t, m)
         \/ LoadRefused(t) \/ dlopen(t) \/ LoadRegisters(t) \/ LoadPublishes(t)
  PROVE  LoadInv'
PROOF
  <1> USE DEF tables
  <1>t. TypeOK
    BY DEF LoadInv
  <1>i. Idle.op = "idle"
    BY DEF Idle
  <1>1. CASE \E m \in Mods : LoadCheck(t, m)
    <2>1. PICK m \in Mods : LoadCheck(t, m)
      BY <1>1
    <2>2. PICK l : l = [op |-> "load", m |-> m, next |-> 0]
      OBVIOUS
    <2>3. local[t].op # "load" /\ l.next = 0 /\ local' = [local EXCEPT ![t] = l]
      BY <1>i, <2>1, <2>2 DEF LoadCheck, Ready
    <2>4. \A u \in Threads : \/ local'[u] = local[u]
                             \/ /\ ~(local[u].op = "load" /\ local[u].next > 0)
                                /\ ~(local'[u].op = "load" /\ local'[u].next > 0)
      BY <1>t, <2>3, LocalMoves
    <2> QED
      BY <2>1, <2>4, QuietAccounts DEF LoadCheck
  <1>2. CASE LoadRefused(t)
    <2>1. local[t].next = 0 /\ local' = [local EXCEPT ![t] = Idle]
      BY <1>2 DEF LoadRefused, Return
    <2>2. \A u \in Threads : \/ local'[u] = local[u]
                             \/ /\ ~(local[u].op = "load" /\ local[u].next > 0)
                                /\ ~(local'[u].op = "load" /\ local'[u].next > 0)
      BY <1>t, <1>i, <2>1, LocalMoves
    <2> QED
      BY <1>2, <2>2, QuietAccounts DEF LoadRefused
  <1>3. CASE dlopen(t)
    BY <1>3, OpenAccounts
  <1>4. CASE LoadRegisters(t)
    <2>1. /\ Loading(t) /\ local[t].op = "load" /\ local[t].m \in Mods /\ local[t].next \in Nat
          /\ local[t].next \in DOMAIN Modules[local[t].m] /\ UNCHANGED modules
      BY <1>t, <1>4, LocalMoves DEF LoadRegisters, Loading
    <2>2. PICK m \in Mods : m = local[t].m
      BY <2>1
    <2>3. PICK room : /\ geas_register_contract(Modules[m][local[t].next], room)
                      /\ \/ /\ Accepted(Modules[m][local[t].next], room)
                            /\ local' = [local EXCEPT ![t].next = @ + 1]
                            /\ UNCHANGED <<refs, gone>>
                         \/ /\ ~Accepted(Modules[m][local[t].next], room)
                            /\ dlclose(m)
                            /\ local' = [local EXCEPT ![t] = Idle]
      BY <1>4, <2>2 DEF LoadRegisters, Return
    <2>4. CASE Accepted(Modules[m][local[t].next], room)
      BY <2>1, <2>2, <2>3, <2>4, RegisterAccounts
    <2>5. CASE ~Accepted(Modules[m][local[t].next], room)
      <3>1. descs' = descs
        BY <2>3, <2>5 DEF geas_register_contract
      <3>2. local[t].next > 0
        BY <2>1, <2>2, ModulesAssumption
      <3>3. t \in Loaders(m)
        BY <2>1, <2>2, <3>2 DEF Loaders
      <3> QED
        BY <2>1, <2>3, <2>5, <3>1, <3>3, CloseAccounts
    <2> QED
      BY <2>4, <2>5
  <1>5. CASE LoadPublishes(t)
    <2>1. /\ local[t].op = "load" /\ local[t].m \in Mods /\ descs' = descs
          /\ local[t].next = Len(Modules[local[t].m]) + 1
          /\ local' = [local EXCEPT ![t] = Idle]
      BY <1>t, <1>5, LocalMoves DEF LoadPublishes, Loading, Return
    <2>2. PICK m \in Mods : m = local[t].m
      BY <2>1
    <2>3. t \in Loaders(m)
      <3>1. Len(Modules[m]) \in Nat
        BY ModulesAssumption
      <3> QED
        BY <2>1, <2>2, <3>1 DEF Loaders
    <2>4. CASE dlclose(m) /\ UNCHANGED modules
      BY <2>1, <2>3, <2>4, CloseAccounts
    <2>5. CASE modules' = Append(modules, m) /\ UNCHANGED <<refs, gone>>
      BY <2>1, <2>2, <2>3, <2>5, PublishAccounts
    <2> QED
      BY <1>5, <2>2, <2>4, <2>5 DEF LoadPublishes
  <1> QED
    BY <1>1, <1>2, <1>3, <1>4, <1>5

\* The steps of a sign and the host's calls hold no reference to a module.
LEMMA HostAccounts ==
  ASSUME LoadInv, TypeOK', NEW t \in Threads,
         \/ \E d \in Statics : HostRegisters(t, d)
         \/ geas_runtime_freeze(t)
         \/ \E name, fn : geas_pledge_bind(t, name, fn)
         \/ \E name, hash : SignResolve(t, name, hash)
         \/ SignFails(t)
         \/ \E vows : SignPublishes(t, vows)
  PROVE  LoadInv'
PROOF
  <1> USE DEF tables
  <1>t. TypeOK
    BY DEF LoadInv
  <1>1. modules' = modules /\ refs' = refs /\ gone' = gone
    BY DEF HostRegisters, geas_runtime_freeze, geas_pledge_bind, SignResolve, SignFails,
           SignPublishes
  <1>2. DOMAIN descs \subseteq DOMAIN descs' /\ \A i \in DOMAIN descs : descs'[i] = descs[i]
    <2>1. CASE descs' = descs
      BY <2>1
    <2>2. CASE \E d \in Statics : HostRegisters(t, d)
      <3>1. PICK d \in Statics : \E room : geas_register_contract(d, room)
        BY <2>2 DEF HostRegisters
      <3>2. d \in Descs
        BY DEF Descs
      <3> QED
        BY <1>t, <3>1, <3>2, RegisterExtends
    <2> QED
      BY <2>1, <2>2 DEF geas_runtime_freeze, geas_pledge_bind, SignResolve, SignFails,
           SignPublishes
  <1>3. \/ local' = local
        \/ /\ local[t].op # "load"
           /\ \E l : l.op # "load" /\ local' = [local EXCEPT ![t] = l]
    <2>1. CASE \E name, hash : SignResolve(t, name, hash)
      <3>1. local[t] = Idle
        BY <2>1 DEF SignResolve, Ready
      <3>2. PICK d : local' = [local EXCEPT ![t] = [op |-> "sign", desc |-> d, late |-> frozen,
                                                    fns |-> resolve_dispatch(d), table |-> FrozenTable]]
        BY <2>1 DEF SignResolve
      <3>3. PICK l : /\ l = [op |-> "sign", desc |-> d, late |-> frozen, fns |-> resolve_dispatch(d), table |-> FrozenTable]
                     /\ local' = [local EXCEPT ![t] = l]
        BY <3>2
      <3>4. l.op = "sign" /\ local[t].op = "idle"
        BY <3>1, <3>3 DEF Idle
      <3> QED
        BY <3>3, <3>4
    <2>2. CASE SignFails(t) \/ \E vows : SignPublishes(t, vows)
      BY <2>2 DEF SignFails, SignPublishes, Signing, Return, Idle
    <2> QED
      BY <2>1, <2>2 DEF HostRegisters, geas_runtime_freeze, geas_pledge_bind
  <1>4. \A u \in Threads : \/ local'[u] = local[u]
                           \/ /\ ~(local[u].op = "load" /\ local[u].next > 0)
                              /\ ~(local'[u].op = "load" /\ local'[u].next > 0)
    BY <1>t, <1>3, LocalMoves
  <1> QED
    BY <1>1, <1>2, <1>4, QuietAccounts

LEMMA InitLoadInv == Init => LoadInv
PROOF
  <1> SUFFICES ASSUME Init PROVE LoadInv
    OBVIOUS
  <1>1. TypeOK
    BY InitRegInv DEF RegInv
  <1>2. modules = << >> /\ \A m : Loaders(m) = {}
    BY DEF Init, Loaders, Idle
  <1>3. \A m : Slots(m) = {}
    BY <1>2 DEF Slots
  <1>4. \A m \in Mods : refs[m] = 0
    BY DEF Init
  <1>5. Counted
    <2> SUFFICES ASSUME NEW m \in Mods
                 PROVE  /\ IsFiniteSet(Loaders(m))
                        /\ refs[m] = Cardinality(Slots(m)) + Cardinality(Loaders(m))
      BY DEF Counted
    <2>1. Loaders(m) = {} /\ Slots(m) = {} /\ refs[m] = 0
      BY <1>2, <1>3, <1>4
    <2>2. IsFiniteSet({}) /\ Cardinality({}) = 0
      BY FS_EmptySet
    <2> QED
      BY <2>1, <2>2
  <1>6. SlotsMapped /\ LoadersMapped
    BY <1>2 DEF SlotsMapped, LoadersMapped, ToSet
  <1> QED
    BY <1>1, <1>5, <1>6 DEF LoadInv

LEMMA NextLoadInv == LoadInv /\ TypeOK' /\ [Next]_vars => LoadInv'
PROOF
  <1> SUFFICES ASSUME LoadInv, TypeOK', [Next]_vars PROVE LoadInv'
    OBVIOUS
  <1>1. CASE UNCHANGED vars \/ Dies
    BY <1>1, QuietAccounts DEF Dies, vars, tables
  <1>2. CASE geas_runtime_shutdown
    BY <1>2, ShutdownAccounts
  <1> QED
    BY <1>1, <1>2, LoadAccounts, HostAccounts DEF Next

(***************************************************************************)
(* Every reference to a module image is a slot or a load in progress, and  *)
(* a module in the table has all its contracts registered from an image    *)
(* that was never unmapped, however many threads load however often and    *)
(* whichever registration is refused.                                      *)
(***************************************************************************)
THEOREM LoadAccounting == Spec => []LoadsAreAccounted
PROOF
  <1>1. LoadInv => LoadsAreAccounted
    BY DEF LoadInv, Counted, SlotsMapped, Mapped, Loaders, Slots, LoadsAreAccounted
  <1>2. Spec => []LoadInv
    BY InitLoadInv, NextLoadInv, TablesWithinBounds, PTL DEF Spec
  <1> QED
    BY <1>1, <1>2, PTL

-----------------------------------------------------------------------------
(* The binary search.                                                       *)

Entries == [mangled : Nat, kind : {"contract", "pledge"}, contract : Nat, symbol : Nat,
            hash : Nat]

Ascending(tbl) == \A i, j \in DOMAIN tbl : i < j => tbl[i].mangled < tbl[j].mangled

Middle(r) == r[1] + (r[2] - r[1]) \div 2

\* One turn of the loop of iname_find, on what the recursion answers further in.
Turn(tbl, mangled, f, r) ==
  IF r[1] >= r[2] THEN <<FALSE, r[1]>>
  ELSE IF tbl[Middle(r) + 1].mangled = mangled THEN <<TRUE, Middle(r)>>
  ELSE IF tbl[Middle(r) + 1].mangled < mangled THEN f[<<Middle(r) + 1, r[2]>>]
  ELSE f[<<r[1], Middle(r)>>]

LEMMA MiddleInside ==
  ASSUME NEW n \in Nat, NEW r \in (0 .. n) \X (0 .. n), r[1] < r[2]
  PROVE  /\ Middle(r) \in Nat /\ r[1] <= Middle(r) /\ Middle(r) < r[2]
         /\ <<Middle(r) + 1, r[2]>> \in (0 .. n) \X (0 .. n)
         /\ <<r[1], Middle(r)>> \in (0 .. n) \X (0 .. n)
PROOF
  <1>1. PICK lo \in 0 .. n, hi \in 0 .. n : lo = r[1] /\ hi = r[2]
    OBVIOUS
  <1>2. PICK h : h = (hi - lo) \div 2
    OBVIOUS
  <1>3. hi - lo \in Nat /\ hi - lo > 0
    BY <1>1
  <1>4. h \in Nat /\ h < hi - lo
    BY <1>2, <1>3
  <1>5. Middle(r) = lo + h
    BY <1>1, <1>2 DEF Middle
  <1> QED
    BY <1>1, <1>4, <1>5

\* The search is a fixed point of its turn: the recursion of iname_find is on
\* ever shorter intervals.
LEMMA SearchTurns ==
  ASSUME NEW tbl \in Seq(Entries), NEW mangled \in Nat
  PROVE  \E f : /\ f = [r \in (0 .. Len(tbl)) \X (0 .. Len(tbl)) |-> Turn(tbl, mangled, f, r)]
                /\ iname_find(tbl, mangled) = f[<<0, Len(tbl)>>]
PROOF
  <1> DEFINE D == (0 .. Len(tbl)) \X (0 .. Len(tbl))
             F(f) == [r \in D |-> Turn(tbl, mangled, f, r)]
             Upto(k, f) == \A r \in D : r[2] - r[1] <= k => f[r] = Turn(tbl, mangled, f, r)
             S == {k \in Nat : \E f : f = [r \in D |-> f[r]] /\ Upto(k, f)}
  <1>1. 0 \in S
    <2>1. PICK f : f = [r \in D |-> <<FALSE, r[1]>>]
      OBVIOUS
    <2>2. Upto(0, f)
      <3> SUFFICES ASSUME NEW r \in D, r[2] - r[1] <= 0
                   PROVE  f[r] = Turn(tbl, mangled, f, r)
        OBVIOUS
      <3>1. r[1] >= r[2]
        OBVIOUS
      <3> QED
        BY <2>1, <3>1 DEF Turn
    <2>3. f = [r \in D |-> f[r]]
      BY <2>1
    <2> QED
      BY <2>2, <2>3, Zenon
  <1>2. \A k \in Nat : k \in S => k + 1 \in S
    <2> SUFFICES ASSUME NEW k \in Nat, k \in S PROVE k + 1 \in S
      OBVIOUS
    <2>1. PICK f : f = [r \in D |-> f[r]] /\ Upto(k, f)
      OBVIOUS
    <2>2. PICK g : g = F(f)
      OBVIOUS
    <2>3. Upto(k + 1, g)
      <3> SUFFICES ASSUME NEW r \in D, r[2] - r[1] <= k + 1
                   PROVE  g[r] = Turn(tbl, mangled, g, r)
        OBVIOUS
      <3>1. g[r] = Turn(tbl, mangled, f, r)
        BY <2>2
      <3>2. CASE r[1] >= r[2]
        BY <3>1, <3>2 DEF Turn
      <3>3. CASE r[1] < r[2]
        <4>1. PICK m : m = Middle(r)
          OBVIOUS
        <4>2. /\ m \in Nat /\ r[1] <= m /\ m < r[2]
              /\ <<m + 1, r[2]>> \in D /\ <<r[1], m>> \in D
          BY <3>3, <4>1, MiddleInside
        <4>3. \A q \in D : q[2] - q[1] <= k => g[q] = f[q]
          BY <2>1, <2>2
        <4>4. r[1] \in Nat /\ r[2] \in Nat
          OBVIOUS
        <4>5. r[2] - (m + 1) <= k /\ m - r[1] <= k
          BY <4>2, <4>4
        <4>6. g[<<m + 1, r[2]>>] = f[<<m + 1, r[2]>>]
          <5>1. PICK q : q = <<m + 1, r[2]>>
            OBVIOUS
          <5>2. q \in D /\ q[2] - q[1] <= k
            BY <4>2, <4>5, <5>1
          <5> QED
            BY <4>3, <5>1, <5>2
        <4>7. g[<<r[1], m>>] = f[<<r[1], m>>]
          <5>1. PICK q : q = <<r[1], m>>
            OBVIOUS
          <5>2. q \in D /\ q[2] - q[1] <= k
            BY <4>2, <4>5, <5>1
          <5> QED
            BY <4>3, <5>1, <5>2
        <4> QED
          BY <3>1, <4>1, <4>6, <4>7 DEF Turn
      <3> QED
        BY <3>2, <3>3
    <2>4. g = [r \in D |-> g[r]]
      BY <2>2
    <2>5. k + 1 \in Nat
      OBVIOUS
    <2> QED
      BY <2>3, <2>4, <2>5, Zenon
  <1>3. \E f : f = F(f)
    <2>1. Len(tbl) \in S
      <3> HIDE DEF S
      <3> QED
        BY <1>1, <1>2, Induct
    <2>2. PICK f : f = [r \in D |-> f[r]] /\ Upto(Len(tbl), f)
      BY <2>1
    <2>3. \A r \in D : f[r] = Turn(tbl, mangled, f, r)
      <3>1. \A r \in D : r[2] - r[1] <= Len(tbl)
        OBVIOUS
      <3> QED
        BY <2>2, <3>1
    <2>4. f = F(f)
      BY <2>2, <2>3, Zenon
    <2> QED
      BY <2>4
  <1>4. PICK g : g = CHOOSE f : f = F(f)
    OBVIOUS
  <1>5. g = F(g)
    BY <1>3, <1>4
  <1>6. iname_find(tbl, mangled) = g[<<0, Len(tbl)>>]
    BY <1>4, Zenon DEF iname_find, Turn, Middle
  <1> QED
    BY <1>5, <1>6

\* p entries are smaller than the name and the rest is larger: where it belongs.
Splits(tbl, mangled, p) ==
  /\ p \in 0 .. Len(tbl)
  /\ \A i \in DOMAIN tbl : i <= p => tbl[i].mangled < mangled
  /\ \A i \in DOMAIN tbl : i > p => tbl[i].mangled > mangled

\* What iname_find answers: the index of the name, or its insertion point.
Located(tbl, mangled, a) ==
  \/ \E p \in 0 .. (Len(tbl) - 1) : a = <<TRUE, p>> /\ tbl[p + 1].mangled = mangled
  \/ \E p \in 0 .. Len(tbl) : a = <<FALSE, p>> /\ Splits(tbl, mangled, p)

\* On a sorted table of any length the binary search finds the name if it is there,
\* and the place to insert it if it is not.
LEMMA FindLocates ==
  ASSUME NEW tbl \in Seq(Entries), Ascending(tbl), NEW mangled \in Nat
  PROVE  Located(tbl, mangled, iname_find(tbl, mangled))
PROOF
  <1> DEFINE n == Len(tbl)
             D == (0 .. n) \X (0 .. n)
             Open(r) == /\ r[1] <= r[2]
                        /\ \A i \in 1 .. n : i <= r[1] => tbl[i].mangled < mangled
                        /\ \A i \in 1 .. n : i > r[2] => tbl[i].mangled > mangled
  <1>1. PICK f : /\ f = [r \in D |-> Turn(tbl, mangled, f, r)]
                 /\ iname_find(tbl, mangled) = f[<<0, n>>]
    BY SearchTurns
  <1>2. n \in Nat /\ DOMAIN tbl = 1 .. n /\ \A i \in 1 .. n : tbl[i].mangled \in Nat
    <2>1. n \in Nat /\ DOMAIN tbl = 1 .. n /\ \A i \in 1 .. n : tbl[i] \in Entries
      OBVIOUS
    <2>2. \A e \in Entries : e.mangled \in Nat
      BY DEF Entries
    <2> QED
      BY <2>1, <2>2
  <1> DEFINE S == {k \in Nat : \A r \in D : r[2] - r[1] <= k /\ Open(r) =>
                                 Located(tbl, mangled, f[r])}
  <1>3. ASSUME NEW r \in D, Open(r), r[1] = r[2]
        PROVE  Located(tbl, mangled, f[r])
    <2>1. r[1] \in 0 .. n /\ Splits(tbl, mangled, r[1])
      BY <1>2, <1>3 DEF Splits
    <2>2. f[r] = <<FALSE, r[1]>>
      BY <1>1, <1>3 DEF Turn
    <2> QED
      BY <2>1, <2>2 DEF Located
  <1>4. 0 \in S
    <2>1. \A r \in D : r[2] - r[1] <= 0 /\ Open(r) => r[1] = r[2]
      OBVIOUS
    <2> QED
      BY <1>3, <2>1
  <1>5. \A k \in Nat : k \in S => k + 1 \in S
    <2> SUFFICES ASSUME NEW k \in Nat, k \in S PROVE k + 1 \in S
      OBVIOUS
    <2>1. ASSUME NEW r \in D, r[2] - r[1] <= k + 1, Open(r), r[1] < r[2]
          PROVE  Located(tbl, mangled, f[r])
      <3>1. PICK m : m = Middle(r)
        OBVIOUS
      <3>2. /\ m \in Nat /\ r[1] <= m /\ m < r[2]
            /\ <<m + 1, r[2]>> \in D /\ <<r[1], m>> \in D
        BY <1>2, <2>1, <3>1, MiddleInside
      <3>3. r[1] \in 0 .. n /\ r[2] \in 0 .. n /\ m + 1 \in 1 .. n
        BY <2>1, <3>2
      <3>4. PICK x \in Nat : x = tbl[m + 1].mangled
        BY <1>2, <3>3
      <3>5. f[r] = IF x = mangled THEN <<TRUE, m>>
                   ELSE IF x < mangled THEN f[<<m + 1, r[2]>>] ELSE f[<<r[1], m>>]
        <4>1. f[r] = Turn(tbl, mangled, f, r)
          BY <1>1, <2>1
        <4>2. ~(r[1] >= r[2])
          BY <2>1, <3>3
        <4> QED
          BY <3>1, <3>4, <4>1, <4>2 DEF Turn
      <3>6. \A i \in 1 .. n : \A j \in 1 .. n : i < j => tbl[i].mangled < tbl[j].mangled
        BY <1>2 DEF Ascending
      <3>7. CASE x = mangled
        <4>1. f[r] = <<TRUE, m>> /\ m \in 0 .. (Len(tbl) - 1)
          BY <3>2, <3>3, <3>5, <3>7
        <4> QED
          BY <3>4, <3>7, <4>1 DEF Located
      <3>8. CASE x < mangled
        <4>1. PICK q : q = <<m + 1, r[2]>>
          OBVIOUS
        <4>2. q \in D /\ q[1] = m + 1 /\ q[2] = r[2]
          BY <3>2, <4>1
        <4>3. q[2] - q[1] <= k /\ q[1] <= q[2]
          BY <2>1, <3>2, <3>3, <4>2
        <4>4. \A i \in 1 .. n : i <= m + 1 => tbl[i].mangled < mangled
          <5> SUFFICES ASSUME NEW i \in 1 .. n, i <= m + 1
                       PROVE  tbl[i].mangled < mangled
            OBVIOUS
          <5>1. tbl[i].mangled \in Nat /\ (i = m + 1 \/ tbl[i].mangled < x)
            BY <1>2, <3>3, <3>4, <3>6
          <5> QED
            BY <3>4, <3>8, <5>1
        <4>5. Open(q)
          BY <2>1, <4>2, <4>3, <4>4
        <4>6. f[r] = f[q]
          BY <3>5, <3>8, <4>1
        <4> QED
          BY <4>2, <4>3, <4>5, <4>6
      <3>9. CASE x > mangled
        <4>1. PICK q : q = <<r[1], m>>
          OBVIOUS
        <4>2. q \in D /\ q[1] = r[1] /\ q[2] = m
          BY <3>2, <4>1
        <4>3. q[2] - q[1] <= k /\ q[1] <= q[2]
          BY <2>1, <3>2, <3>3, <4>2
        <4>4. \A i \in 1 .. n : i > m => tbl[i].mangled > mangled
          <5> SUFFICES ASSUME NEW i \in 1 .. n, i > m
                       PROVE  tbl[i].mangled > mangled
            OBVIOUS
          <5>1. tbl[i].mangled \in Nat /\ (i = m + 1 \/ x < tbl[i].mangled)
            BY <1>2, <3>2, <3>3, <3>4, <3>6
          <5> QED
            BY <3>4, <3>9, <5>1
        <4>5. Open(q)
          BY <2>1, <4>2, <4>3, <4>4
        <4>6. f[r] = f[q]
          BY <3>4, <3>5, <3>9, <4>1
        <4> QED
          BY <4>2, <4>3, <4>5, <4>6
      <3> QED
        BY <3>4, <3>7, <3>8, <3>9
    <2>2. \A r \in D : Open(r) => r[1] = r[2] \/ r[1] < r[2]
      OBVIOUS
    <2>3. k + 1 \in Nat
      OBVIOUS
    <2> QED
      BY <1>3, <2>1, <2>2, <2>3
  <1>6. n \in S
    <2> HIDE DEF S
    <2> QED
      BY <1>2, <1>4, <1>5, Induct
  <1>7. PICK q : q = <<0, n>>
    OBVIOUS
  <1>8. q \in D /\ q[2] - q[1] <= n /\ Open(q)
    BY <1>2, <1>7
  <1> QED
    BY <1>1, <1>6, <1>7, <1>8

\* A new name goes in at its insertion point: the table stays sorted and gains it.
LEMMA InsertKeepsOrder ==
  ASSUME NEW tbl \in Seq(Entries), Ascending(tbl), NEW e \in Entries, NEW p,
         Splits(tbl, e.mangled, p)
  PROVE  /\ InsertAt(tbl, p + 1, e) \in Seq(Entries)
         /\ Ascending(InsertAt(tbl, p + 1, e))
         /\ ToSet(InsertAt(tbl, p + 1, e)) = ToSet(tbl) \cup {e}
PROOF
  <1>1. PICK t : t = InsertAt(tbl, p + 1, e)
    OBVIOUS
  <1>2. p \in 0 .. Len(tbl) /\ Len(tbl) \in Nat
    BY DEF Splits
  <1>3. /\ t \in Seq(Entries) /\ Len(t) = Len(tbl) + 1
        /\ \A i \in 1 .. Len(t) : t[i] = IF i <= p THEN tbl[i]
                                         ELSE IF i = p + 1 THEN e ELSE tbl[i - 1]
    <2>1. PICK a, b : a = SubSeq(tbl, 1, p) /\ b = SubSeq(tbl, p + 1, Len(tbl))
      OBVIOUS
    <2>2. t = (a \o <<e>>) \o b
      <3>1. (p + 1) - 1 = p
        BY <1>2
      <3>2. t = (SubSeq(tbl, 1, (p + 1) - 1) \o <<e>>) \o SubSeq(tbl, p + 1, Len(tbl))
        BY <1>1, Zenon DEF InsertAt
      <3> QED
        BY <2>1, <3>1, <3>2, Zenon
    <2>3. a \in Seq(Entries) /\ Len(a) = p /\ \A i \in 1 .. p : a[i] = tbl[i]
      BY <1>2, <2>1
    <2>4. /\ b \in Seq(Entries) /\ Len(b) = Len(tbl) - p
          /\ \A i \in 1 .. (Len(tbl) - p) : b[i] = tbl[p + i]
      BY <1>2, <2>1
    <2>5. PICK ae : ae = a \o <<e>>
      OBVIOUS
    <2>6. /\ ae \in Seq(Entries) /\ Len(ae) = p + 1
          /\ \A i \in 1 .. p : ae[i] = tbl[i]
          /\ ae[p + 1] = e
      BY <1>2, <2>3, <2>5
    <2>7. /\ t \in Seq(Entries) /\ Len(t) = Len(tbl) + 1
          /\ \A i \in 1 .. (p + 1) : t[i] = ae[i]
          /\ \A i \in (p + 2) .. (Len(tbl) + 1) : t[i] = b[i - (p + 1)]
      BY <1>2, <2>2, <2>4, <2>5, <2>6
    <2>8. \A i \in (p + 2) .. (Len(tbl) + 1) :
            i - (p + 1) \in 1 .. (Len(tbl) - p) /\ p + (i - (p + 1)) = i - 1
      BY <1>2
    <2>9. \A i \in (p + 2) .. (Len(tbl) + 1) : t[i] = tbl[i - 1]
      BY <2>4, <2>7, <2>8
    <2> QED
      BY <1>2, <2>6, <2>7, <2>9
  <1>4. Ascending(t)
    <2>1. DOMAIN t = 1 .. (Len(tbl) + 1) /\ DOMAIN tbl = 1 .. Len(tbl)
      BY <1>3
    <2> SUFFICES ASSUME NEW i \in 1 .. (Len(tbl) + 1), NEW j \in 1 .. (Len(tbl) + 1), i < j
                 PROVE  t[i].mangled < t[j].mangled
      BY <2>1 DEF Ascending
    <2>2. \A k, l \in 1 .. Len(tbl) : k < l => tbl[k].mangled < tbl[l].mangled
      BY <2>1 DEF Ascending
    <2>3. \A k \in 1 .. Len(tbl) : /\ k <= p => tbl[k].mangled < e.mangled
                                   /\ k > p => e.mangled < tbl[k].mangled
      <3>1. \A k \in 1 .. Len(tbl) : tbl[k] \in Entries
        BY <2>1
      <3>2. \A x \in Entries : x.mangled \in Nat
        BY DEF Entries
      <3> QED
        BY <2>1, <3>1, <3>2 DEF Splits
    <2>4. CASE j <= p
      <3>1. i \in 1 .. Len(tbl) /\ j \in 1 .. Len(tbl)
        BY <1>2, <2>4
      <3>2. t[i] = tbl[i] /\ t[j] = tbl[j]
        BY <1>2, <1>3, <2>4
      <3> QED
        BY <2>2, <3>1, <3>2
    <2>5. CASE j = p + 1
      BY <1>2, <1>3, <2>3, <2>5
    <2>6. CASE j > p + 1 /\ i = p + 1
      <3>1. j - 1 \in 1 .. Len(tbl) /\ j - 1 > p
        BY <1>2, <2>6
      <3>2. t[i] = e /\ t[j] = tbl[j - 1]
        BY <1>2, <1>3, <2>6
      <3> QED
        BY <2>3, <3>1, <3>2
    <2>7. CASE j > p + 1 /\ i <= p
      <3>1. j - 1 \in 1 .. Len(tbl) /\ i < j - 1 /\ i \in 1 .. Len(tbl)
        BY <1>2, <2>7
      <3>2. t[i] = tbl[i] /\ t[j] = tbl[j - 1]
        BY <1>2, <1>3, <2>7
      <3> QED
        BY <2>2, <3>1, <3>2
    <2>8. CASE i > p + 1
      <3>1. j - 1 \in 1 .. Len(tbl) /\ i - 1 < j - 1 /\ i - 1 \in 1 .. Len(tbl)
        BY <1>2, <2>8
      <3>2. t[i] = tbl[i - 1] /\ t[j] = tbl[j - 1]
        BY <1>2, <1>3, <2>8
      <3> QED
        BY <2>2, <3>1, <3>2
    <2> QED
      BY <1>2, <2>4, <2>5, <2>6, <2>7, <2>8
  <1>5. ToSet(t) = ToSet(tbl) \cup {e}
    <2>1. DOMAIN t = 1 .. (Len(tbl) + 1) /\ DOMAIN tbl = 1 .. Len(tbl)
      BY <1>3
    <2>2. \A i \in DOMAIN t : t[i] = e \/ \E k \in DOMAIN tbl : t[i] = tbl[k]
      <3> SUFFICES ASSUME NEW i \in 1 .. (Len(tbl) + 1)
                   PROVE  t[i] = e \/ \E k \in DOMAIN tbl : t[i] = tbl[k]
        BY <2>1
      <3>1. CASE i <= p
        <4>1. i \in DOMAIN tbl /\ t[i] = tbl[i]
          BY <1>2, <1>3, <2>1, <3>1
        <4> QED
          BY <4>1
      <3>2. CASE i = p + 1
        BY <1>2, <1>3, <3>2
      <3>3. CASE i > p + 1
        <4>1. i - 1 \in DOMAIN tbl /\ t[i] = tbl[i - 1]
          BY <1>2, <1>3, <2>1, <3>3
        <4> QED
          BY <4>1
      <3> QED
        BY <1>2, <3>1, <3>2, <3>3
    <2>3. \E i \in DOMAIN t : t[i] = e
      <3>1. p + 1 \in DOMAIN t /\ t[p + 1] = e
        BY <1>2, <1>3, <2>1
      <3> QED
        BY <3>1
    <2>4. \A k \in DOMAIN tbl : \E i \in DOMAIN t : t[i] = tbl[k]
      <3> SUFFICES ASSUME NEW k \in 1 .. Len(tbl) PROVE \E i \in DOMAIN t : t[i] = tbl[k]
        BY <2>1
      <3>1. CASE k <= p
        <4>1. k \in DOMAIN t /\ t[k] = tbl[k]
          BY <1>2, <1>3, <2>1, <3>1
        <4> QED
          BY <4>1
      <3>2. CASE k > p
        <4>1. k + 1 \in DOMAIN t /\ t[k + 1] = tbl[k]
          BY <1>2, <1>3, <2>1, <3>2
        <4> QED
          BY <4>1
      <3> QED
        BY <1>2, <3>1, <3>2
    <2> QED
      BY <2>2, <2>3, <2>4 DEF ToSet
  <1> QED
    BY <1>1, <1>3, <1>4, <1>5

\* An entry larger than all of the table goes in at its end.
LEMMA AppendKeepsOrder ==
  ASSUME NEW tbl \in Seq(Entries), Ascending(tbl), NEW e \in Entries,
         \A i \in DOMAIN tbl : tbl[i].mangled < e.mangled
  PROVE  /\ Append(tbl, e) \in Seq(Entries)
         /\ Ascending(Append(tbl, e))
         /\ ToSet(Append(tbl, e)) = ToSet(tbl) \cup {e}
PROOF
  <1>1. PICK t : t = Append(tbl, e)
    OBVIOUS
  <1>2. /\ t \in Seq(Entries) /\ DOMAIN t = 1 .. (Len(tbl) + 1)
        /\ DOMAIN tbl = 1 .. Len(tbl) /\ Len(tbl) \in Nat
        /\ \A i \in DOMAIN tbl : t[i] = tbl[i]
        /\ t[Len(tbl) + 1] = e
    BY <1>1
  <1>3. \A i \in DOMAIN t : i = Len(tbl) + 1 \/ i \in DOMAIN tbl
    BY <1>2
  <1>4. Ascending(t)
    <2> SUFFICES ASSUME NEW i \in DOMAIN t, NEW j \in DOMAIN t, i < j
                 PROVE  t[i].mangled < t[j].mangled
      BY DEF Ascending
    <2>1. i \in DOMAIN tbl
      BY <1>2
    <2> QED
      BY <1>2, <1>3, <2>1 DEF Ascending
  <1>5. ToSet(t) = ToSet(tbl) \cup {e}
    <2>1. Len(tbl) + 1 \in DOMAIN t /\ DOMAIN tbl \subseteq DOMAIN t
      BY <1>2
    <2> QED
      BY <1>2, <1>3, <2>1 DEF ToSet
  <1> QED
    BY <1>1, <1>2, <1>4, <1>5

-----------------------------------------------------------------------------
(* The rollback.                                                            *)

\* iname_remove_contract on a sorted table of any length takes out exactly the
\* entries of the contract and leaves the rest in order.
LEMMA RemoveTakesOne ==
  ASSUME NEW tbl \in Seq(Entries), Ascending(tbl), NEW contract
  PROVE  /\ iname_remove_contract(tbl, contract) \in Seq(Entries)
         /\ Ascending(iname_remove_contract(tbl, contract))
         /\ ToSet(iname_remove_contract(tbl, contract)) =
              {e \in ToSet(tbl) : e.contract # contract}
PROOF
  <1> DEFINE n == Len(tbl)
             K(f) == [r \in 0 .. n |-> IF r = 0 THEN << >>
                                       ELSE IF tbl[r].contract = contract THEN f[r - 1]
                                       ELSE Append(f[r - 1], tbl[r])]
             G == [k \in 1 .. n |-> [t \in Seq(Entries) |->
                     IF tbl[k].contract = contract THEN t ELSE Append(t, tbl[k])]]
  <1>1. n \in Nat /\ DOMAIN tbl = 1 .. n /\ \A i \in 1 .. n : tbl[i] \in Entries
    OBVIOUS
  <1>2. \E f : f = K(f)
    <2>1. G \in [1 .. n -> [Seq(Entries) -> Seq(Entries)]]
      BY <1>1
    <2>2. << >> \in Seq(Entries)
      OBVIOUS
    <2>3. PICK f \in [0 .. n -> Seq(Entries)] :
            f[0] = << >> /\ \A k \in 1 .. n : f[k] = G[k][f[k - 1]]
      <3>1. Runs(n, Seq(Entries), << >>, G) # {}
        <4> HIDE DEF G, n
        <4> QED
          BY <1>1, <2>1, <2>2, LoopRuns DEF Bodies
      <3> QED
        BY <3>1 DEF Runs
    <2>4. \A k \in 1 .. n : f[k - 1] \in Seq(Entries)
      BY <1>1
    <2>5. \A k \in 1 .. n : f[k] = IF tbl[k].contract = contract THEN f[k - 1]
                                   ELSE Append(f[k - 1], tbl[k])
      BY <2>3, <2>4
    <2>6. \A r \in 0 .. n : f[r] = K(f)[r]
      <3> SUFFICES ASSUME NEW r \in 0 .. n PROVE f[r] = K(f)[r]
        OBVIOUS
      <3>1. CASE r = 0
        BY <2>2, <2>3, <3>1
      <3>2. CASE r \in 1 .. n
        <4>1. r # 0
          BY <3>2
        <4>2. f[r] = IF tbl[r].contract = contract THEN f[r - 1] ELSE Append(f[r - 1], tbl[r])
          BY <2>5, <3>2
        <4> QED
          BY <4>1, <4>2, Zenon
      <3> QED
        BY <1>1, <3>1, <3>2
    <2>7. f = K(f)
      BY <2>6
    <2> QED
      BY <2>7
  <1>3. PICK g : g = CHOOSE f : f = K(f)
    OBVIOUS
  <1>4. g = K(g)
    BY <1>2, <1>3
  <1>5. iname_remove_contract(tbl, contract) = g[n]
    BY <1>3, Zenon DEF iname_remove_contract
  <1> DEFINE Kept(k) == {tbl[i] : i \in {j \in 1 .. k : tbl[j].contract # contract}}
             S == {k \in 0 .. n : /\ g[k] \in Seq(Entries) /\ Ascending(g[k])
                                  /\ ToSet(g[k]) = Kept(k)}
  <1>6. 0 \in S
    <2>1. g[0] = << >>
      BY <1>1, <1>4
    <2>2. ToSet(g[0]) = {} /\ Kept(0) = {} /\ Ascending(g[0])
      BY <2>1 DEF ToSet, Ascending
    <2>3. g[0] \in Seq(Entries) /\ 0 \in 0 .. n
      BY <1>1, <2>1
    <2> HIDE DEF Kept
    <2> QED
      BY <2>2, <2>3
  <1>7. \A k \in 0 .. (n - 1) : k \in S => k + 1 \in S
    <2> SUFFICES ASSUME NEW k \in 0 .. (n - 1), k \in S PROVE k + 1 \in S
      OBVIOUS
    <2>1. k + 1 \in 0 .. n /\ k + 1 \in 1 .. n /\ k + 1 # 0 /\ (k + 1) - 1 = k
      BY <1>1
    <2>2. g[k + 1] = IF tbl[k + 1].contract = contract THEN g[k] ELSE Append(g[k], tbl[k + 1])
      BY <1>4, <2>1
    <2>3. \A j \in 1 .. (k + 1) : j = k + 1 \/ j \in 1 .. k
      BY <1>1
    <2>4. 1 .. k \subseteq 1 .. (k + 1) /\ k + 1 \in 1 .. (k + 1)
      BY <1>1
    <2>5. CASE tbl[k + 1].contract = contract
      <3>1. Kept(k + 1) = Kept(k)
        BY <2>3, <2>4, <2>5
      <3> QED
        BY <2>1, <2>2, <2>5, <3>1
    <2>6. CASE tbl[k + 1].contract # contract
      <3>1. Kept(k + 1) = Kept(k) \cup {tbl[k + 1]}
        BY <2>3, <2>4, <2>6
      <3>2. \A i \in DOMAIN g[k] : g[k][i].mangled < tbl[k + 1].mangled
        <4> SUFFICES ASSUME NEW i \in DOMAIN g[k]
                     PROVE  g[k][i].mangled < tbl[k + 1].mangled
          OBVIOUS
        <4>1. g[k][i] \in Kept(k)
          BY DEF ToSet
        <4>2. PICK j \in 1 .. k : g[k][i] = tbl[j]
          BY <4>1
        <4>3. j \in DOMAIN tbl /\ k + 1 \in DOMAIN tbl /\ j < k + 1
          BY <1>1, <2>1
        <4> QED
          BY <4>2, <4>3 DEF Ascending
      <3>3. /\ Append(g[k], tbl[k + 1]) \in Seq(Entries)
            /\ Ascending(Append(g[k], tbl[k + 1]))
            /\ ToSet(Append(g[k], tbl[k + 1])) = ToSet(g[k]) \cup {tbl[k + 1]}
        BY <1>1, <2>1, <3>2, AppendKeepsOrder
      <3> QED
        BY <2>1, <2>2, <2>6, <3>1, <3>3
    <2> QED
      BY <2>5, <2>6
  <1>8. n \in S
    <2>1. 0 .. n \subseteq S
      <3> HIDE DEF S
      <3> QED
        BY <1>1, <1>6, <1>7, InductUpTo
    <2> QED
      BY <1>1, <2>1
  <1>9. Kept(n) = {e \in ToSet(tbl) : e.contract # contract}
    BY <1>1 DEF ToSet
  <1> QED
    BY <1>5, <1>8, <1>9

-----------------------------------------------------------------------------
(* A registration.                                                          *)

\* The entries of a descriptor are well formed and carry its contract's name.
LEMMA EntriesTyped ==
  ASSUME NEW d \in Descs
  PROVE  /\ Len(d.pledges) \in Nat
         /\ \A i \in 0 .. Len(d.pledges) :
              EntryAt(d, i) \in Entries /\ EntryAt(d, i).contract = d.name
PROOF
  <1>1. /\ d.name \in Nat /\ d.hash \in Nat
        /\ d.pledges \in Seq([mangled : Nat, fn : {"body", None}])
    <2>1. /\ d.name \in Nat \ {0} /\ d.hash \in 1 .. 9
          /\ d.pledges \in Seq([mangled : Nat, fn : {"body", None}])
      BY DescAssumption, Zenon
    <2> QED
      BY <2>1
  <1>2. Len(d.pledges) \in Nat /\ DOMAIN d.pledges = 1 .. Len(d.pledges)
    BY <1>1
  <1>3. iname_contract_mangled(d) \in Nat
    BY <1>1 DEF iname_contract_mangled
  <1>4. ASSUME NEW i \in 0 .. Len(d.pledges)
        PROVE  EntryAt(d, i) \in Entries /\ EntryAt(d, i).contract = d.name
    <2>1. CASE i = 0
      BY <1>1, <1>3, <2>1 DEF EntryAt, Entry, Entries
    <2>2. CASE i # 0
      <3>1. i \in DOMAIN d.pledges /\ i \in Nat
        BY <1>2, <2>2
      <3>2. d.pledges[i] \in [mangled : Nat, fn : {"body", None}]
        <4>1. PICK P, ps : P = [mangled : Nat, fn : {"body", None}] /\ ps = d.pledges
          OBVIOUS
        <4>2. ps \in Seq(P) /\ i \in DOMAIN ps
          BY <1>1, <3>1, <4>1
        <4>3. ps[i] \in P
          BY <4>2
        <4> QED
          BY <4>1, <4>3
      <3>3. d.pledges[i].mangled \in Nat
        BY <3>2
      <3> QED
        BY <1>1, <2>2, <3>1, <3>3 DEF EntryAt, Entry, Entries
    <2> QED
      BY <2>1, <2>2
  <1> QED
    BY <1>2, <1>4

\* The states of the loop of iname_register over tbl: the table is sorted, holds all
\* of tbl and nothing but tbl and entries of d, and is tbl until the first insert.
Accs(tbl, d) ==
  {a \in [st : {"OK", "NAME", "OOM"}, n : Nat, tbl : Seq(Entries)] :
     /\ Ascending(a.tbl)
     /\ ToSet(tbl) \subseteq ToSet(a.tbl)
     /\ ToSet(a.tbl) \subseteq ToSet(tbl) \cup EntriesOf(d)
     /\ a.n = 0 => a.tbl = tbl}

\* When b is a success, the loop had not failed before and the table gained e alone.
Gains(a, e, b) == b.st = "OK" => a.st = "OK" /\ ToSet(b.tbl) = ToSet(a.tbl) \cup {e}

\* One insert, whatever it answers, keeps the loop's state.
LEMMA InsertSteps ==
  ASSUME NEW tbl, NEW d, NEW a \in Accs(tbl, d), NEW e \in EntriesOf(d), e \in Entries,
         NEW room \in Nat, NEW b, b = iname_insert(a, e, room)
  PROVE  b \in Accs(tbl, d) /\ Gains(a, e, b)
PROOF
  <1> USE DEF Gains
  <1>1. /\ a = [st |-> a.st, n |-> a.n, tbl |-> a.tbl]
        /\ a.st \in {"OK", "NAME", "OOM"} /\ a.n \in Nat /\ a.tbl \in Seq(Entries)
        /\ Ascending(a.tbl) /\ ToSet(tbl) \subseteq ToSet(a.tbl)
        /\ ToSet(a.tbl) \subseteq ToSet(tbl) \cup EntriesOf(d)
        /\ a.n = 0 => a.tbl = tbl
    BY DEF Accs
  <1>2. e.mangled \in Nat
    BY DEF Entries
  <1>3. PICK q : q = iname_find(a.tbl, e.mangled)
    OBVIOUS
  <1>4. Located(a.tbl, e.mangled, q)
    BY <1>1, <1>2, <1>3, FindLocates
  <1>5. b = IF a.st # "OK" THEN a
            ELSE IF q[1] THEN [a EXCEPT !.st = "NAME"]
            ELSE IF a.n >= room THEN [a EXCEPT !.st = "OOM"]
            ELSE [st |-> "OK", n |-> a.n + 1, tbl |-> InsertAt(a.tbl, q[2] + 1, e)]
    BY <1>3, Zenon DEF iname_insert
  <1>6. ASSUME b = a, a.st # "OK"
        PROVE  b \in Accs(tbl, d) /\ b.st # "OK"
    BY <1>6
  <1>7. ASSUME NEW st \in {"NAME", "OOM"}, b = [a EXCEPT !.st = st]
        PROVE  b \in Accs(tbl, d) /\ b.st # "OK"
    <2>1. b.st = st /\ b.n = a.n /\ b.tbl = a.tbl
      BY <1>1, <1>7
    <2>2. b \in [st : {"OK", "NAME", "OOM"}, n : Nat, tbl : Seq(Entries)]
      BY <1>1, <1>7
    <2> QED
      BY <1>1, <2>1, <2>2 DEF Accs
  <1>8. ASSUME NEW p \in 0 .. Len(a.tbl), q = <<FALSE, p>>, Splits(a.tbl, e.mangled, p),
               b = [st |-> "OK", n |-> a.n + 1, tbl |-> InsertAt(a.tbl, q[2] + 1, e)]
        PROVE  b \in Accs(tbl, d) /\ ToSet(b.tbl) = ToSet(a.tbl) \cup {e}
    <2>1. PICK t : t = InsertAt(a.tbl, p + 1, e)
      OBVIOUS
    <2>2. t \in Seq(Entries) /\ Ascending(t) /\ ToSet(t) = ToSet(a.tbl) \cup {e}
      BY <1>1, <1>8, <2>1, InsertKeepsOrder
    <2>3. q[2] = p
      BY <1>8
    <2>4. b = [st |-> "OK", n |-> a.n + 1, tbl |-> t]
      BY <1>8, <2>1, <2>3
    <2>5. a.n + 1 \in Nat /\ a.n + 1 # 0
      BY <1>1
    <2>6. b \in [st : {"OK", "NAME", "OOM"}, n : Nat, tbl : Seq(Entries)]
      BY <2>2, <2>4, <2>5
    <2>7. b.n # 0 /\ b.tbl = t
      BY <2>4, <2>5
    <2> QED
      BY <1>1, <2>2, <2>6, <2>7 DEF Accs
  <1>9. CASE a.st # "OK"
    BY <1>5, <1>6, <1>9
  <1>10. CASE a.st = "OK" /\ \E p \in 0 .. (Len(a.tbl) - 1) : q = <<TRUE, p>>
    <2>1. q[1]
      BY <1>10
    <2>2. b = [a EXCEPT !.st = "NAME"]
      BY <1>5, <1>10, <2>1
    <2> QED
      BY <1>7, <2>2
  <1>11. CASE a.st = "OK" /\ \E p \in 0 .. Len(a.tbl) :
                q = <<FALSE, p>> /\ Splits(a.tbl, e.mangled, p)
    <2>1. ~q[1]
      BY <1>11
    <2>2. CASE a.n >= room
      <3>1. b = [a EXCEPT !.st = "OOM"]
        BY <1>5, <1>11, <2>1, <2>2
      <3> QED
        BY <1>7, <3>1
    <2>3. CASE ~(a.n >= room)
      <3>1. b = [st |-> "OK", n |-> a.n + 1, tbl |-> InsertAt(a.tbl, q[2] + 1, e)]
        BY <1>5, <1>11, <2>1, <2>3
      <3> QED
        BY <1>8, <1>11, <3>1
    <2> QED
      BY <2>2, <2>3
  <1> QED
    BY <1>4, <1>9, <1>10, <1>11 DEF Located

\* A registration of a contract the table holds nothing of: all of its entries go
\* in, or, whichever insert failed, the table holds what it held.
LEMMA RegisterIsAtomic ==
  ASSUME NEW d \in Descs, NEW tbl \in Seq(Entries), Ascending(tbl), NEW room \in Nat,
         \A e \in ToSet(tbl) : e.contract # d.name
  PROVE  /\ iname_register(tbl, d, room).tbl \in Seq(Entries)
         /\ Ascending(iname_register(tbl, d, room).tbl)
         /\ ToSet(iname_register(tbl, d, room).tbl) =
              IF iname_register(tbl, d, room).st = "OK"
              THEN ToSet(tbl) \cup EntriesOf(d) ELSE ToSet(tbl)
PROOF
  <1> DEFINE n == Len(d.pledges)
             T == Accs(tbl, d)
             start == [st |-> "OK", n |-> 0, tbl |-> tbl]
             Step(i, a) == IF Skipped(d, i) THEN a ELSE iname_insert(a, EntryAt(d, i), room)
             A(f) == [i \in 0 .. n |-> Step(i, IF i = 0 THEN start ELSE f[i - 1])]
             G == [k \in 1 .. n |-> [a \in T |-> Step(k, a)]]
  <1>1. /\ n \in Nat
        /\ \A i \in 0 .. n : EntryAt(d, i) \in Entries /\ EntryAt(d, i).contract = d.name
    BY EntriesTyped
  <1>2. \A i \in 0 .. n : ~Skipped(d, i) => EntryAt(d, i) \in EntriesOf(d)
    BY DEF EntriesOf
  <1>3. start \in T
    BY DEF Accs
  <1>4. ASSUME NEW i \in 0 .. n, NEW a \in T
        PROVE  /\ Step(i, a) \in T
               /\ Step(i, a).st = "OK" =>
                    /\ a.st = "OK"
                    /\ ToSet(Step(i, a).tbl) =
                         ToSet(a.tbl) \cup IF Skipped(d, i) THEN {} ELSE {EntryAt(d, i)}
    <2>1. CASE Skipped(d, i)
      BY <2>1
    <2>2. CASE ~Skipped(d, i)
      <3>1. PICK e : e = EntryAt(d, i)
        OBVIOUS
      <3>2. e \in EntriesOf(d) /\ e \in Entries
        BY <1>1, <1>2, <2>2, <3>1
      <3>3. PICK b : b = iname_insert(a, e, room)
        OBVIOUS
      <3>4. a \in Accs(tbl, d)
        OBVIOUS
      <3>5. b \in Accs(tbl, d)
        BY <3>2, <3>3, <3>4, InsertSteps, Zenon
      <3>6. Gains(a, e, b)
        BY <3>2, <3>3, <3>4, InsertSteps, Zenon
      <3> QED
        BY <2>2, <3>1, <3>3, <3>5, <3>6 DEF Gains
    <2> QED
      BY <2>1, <2>2
  <1> HIDE DEF T, Step, start
  <1>5. \E f : f = A(f)
    <2>1. G \in Bodies(n, T)
      <3>1. \A k \in 1 .. n : \A a \in T : Step(k, a) \in T
        BY <1>1, <1>4
      <3> QED
        BY <3>1 DEF Bodies
    <2>2. PICK c \in T : c = Step(0, start)
      BY <1>1, <1>3, <1>4
    <2>3. Runs(n, T, c, G) # {}
      <3> HIDE DEF G, n
      <3> QED
        BY <1>1, <2>1, LoopRuns
    <2>4. PICK f \in [0 .. n -> T] : f[0] = c /\ \A k \in 1 .. n : f[k] = G[k][f[k - 1]]
      BY <2>3 DEF Runs
    <2>5. \A k \in 1 .. n : f[k - 1] \in T
      BY <1>1
    <2>6. \A k \in 1 .. n : f[k] = Step(k, f[k - 1])
      BY <2>4, <2>5
    <2>7. \A i \in 0 .. n : f[i] = Step(i, IF i = 0 THEN start ELSE f[i - 1])
      <3> SUFFICES ASSUME NEW i \in 0 .. n
                   PROVE  f[i] = Step(i, IF i = 0 THEN start ELSE f[i - 1])
        OBVIOUS
      <3>1. CASE i = 0
        BY <2>2, <2>4, <3>1
      <3>2. CASE i \in 1 .. n
        BY <2>6, <3>2
      <3> QED
        BY <1>1, <3>1, <3>2
    <2>8. f = A(f)
      BY <2>7
    <2> QED
      BY <2>8
  <1>6. PICK g : g = CHOOSE f : f = A(f)
    OBVIOUS
  <1>7. g = A(g)
    BY <1>5, <1>6
  <1>8. iname_register(tbl, d, room) =
          [st  |-> g[n].st,
           tbl |-> IF g[n].st # "OK" /\ g[n].n > 0 THEN iname_remove_contract(g[n].tbl, d.name)
                                                   ELSE g[n].tbl]
    BY <1>6 DEF iname_register, Step, start
  <1> DEFINE Added(k) == {EntryAt(d, i) : i \in {j \in 0 .. k : ~Skipped(d, j)}}
             S == {k \in 0 .. n : /\ g[k] \in T
                                  /\ g[k].st = "OK" => ToSet(g[k].tbl) = ToSet(tbl) \cup Added(k)}
  <1>9. 0 \in S
    <2>1. 0 \in 0 .. n /\ g[0] = Step(0, start)
      BY <1>1, <1>7
    <2>2. /\ Step(0, start) \in T
          /\ Step(0, start).st = "OK" =>
               ToSet(Step(0, start).tbl) =
                 ToSet(start.tbl) \cup IF Skipped(d, 0) THEN {} ELSE {EntryAt(d, 0)}
      BY <1>3, <1>4, <2>1
    <2>3. start.tbl = tbl
      BY DEF start
    <2>4. Added(0) = IF Skipped(d, 0) THEN {} ELSE {EntryAt(d, 0)}
      <3>1. \A j : j \in 0 .. 0 <=> j = 0
        OBVIOUS
      <3> QED
        BY <3>1
    <2> HIDE DEF Added
    <2> QED
      BY <2>1, <2>2, <2>3, <2>4
  <1>10. \A k \in 0 .. (n - 1) : k \in S => k + 1 \in S
    <2> SUFFICES ASSUME NEW k \in 0 .. (n - 1), k \in S PROVE k + 1 \in S
      OBVIOUS
    <2>1. k + 1 \in 0 .. n /\ k + 1 # 0 /\ (k + 1) - 1 = k
      BY <1>1
    <2>2. g[k + 1] = Step(k + 1, g[k])
      BY <1>7, <2>1
    <2>3. /\ g[k + 1] \in T
          /\ g[k + 1].st = "OK" =>
               /\ g[k].st = "OK"
               /\ ToSet(g[k + 1].tbl) =
                    ToSet(g[k].tbl) \cup IF Skipped(d, k + 1) THEN {} ELSE {EntryAt(d, k + 1)}
      BY <1>4, <2>1, <2>2
    <2>4. Added(k + 1) = Added(k) \cup IF Skipped(d, k + 1) THEN {} ELSE {EntryAt(d, k + 1)}
      <3>1. \A j : j \in 0 .. (k + 1) <=> j \in 0 .. k \/ j = k + 1
        BY <1>1
      <3> QED
        BY <3>1
    <2> HIDE DEF Added
    <2> QED
      BY <2>1, <2>3, <2>4
  <1>11. g[n] \in T /\ (g[n].st = "OK" => ToSet(g[n].tbl) = ToSet(tbl) \cup EntriesOf(d))
    <2>1. 0 .. n \subseteq S
      <3> HIDE DEF S
      <3> QED
        BY <1>1, <1>9, <1>10, InductUpTo
    <2>2. Added(n) = EntriesOf(d)
      BY DEF EntriesOf
    <2> QED
      BY <1>1, <2>1, <2>2
  <1>12. /\ g[n].tbl \in Seq(Entries) /\ Ascending(g[n].tbl) /\ g[n].n \in Nat
         /\ ToSet(tbl) \subseteq ToSet(g[n].tbl)
         /\ ToSet(g[n].tbl) \subseteq ToSet(tbl) \cup EntriesOf(d)
         /\ g[n].n = 0 => g[n].tbl = tbl
    BY <1>11 DEF T, Accs
  <1>13. \A e \in EntriesOf(d) : e.contract = d.name
    BY <1>1 DEF EntriesOf
  <1>14. CASE g[n].st = "OK"
    BY <1>8, <1>11, <1>12, <1>14
  <1>15. CASE g[n].st # "OK" /\ g[n].n = 0
    BY <1>8, <1>12, <1>15
  <1>16. CASE g[n].st # "OK" /\ g[n].n # 0
    <2>1. PICK t : t = iname_remove_contract(g[n].tbl, d.name)
      OBVIOUS
    <2>2. /\ t \in Seq(Entries) /\ Ascending(t)
          /\ ToSet(t) = {e \in ToSet(g[n].tbl) : e.contract # d.name}
      BY <1>12, <2>1, RemoveTakesOne
    <2>3. ToSet(t) = ToSet(tbl)
      BY <1>12, <1>13, <2>2
    <2>4. g[n].n > 0
      BY <1>12, <1>16
    <2>5. iname_register(tbl, d, room).st # "OK" /\ iname_register(tbl, d, room).tbl = t
      BY <1>8, <1>16, <2>1, <2>4
    <2> QED
      BY <2>2, <2>3, <2>5
  <1> QED
    BY <1>14, <1>15, <1>16

-----------------------------------------------------------------------------
(* The table and the descriptors.                                           *)

\* The inductive invariant.
InamesInv == inames \in Seq(Entries) /\ InamesMirrorDescs

\* A registration under rt->lock, refused or not, keeps the mirror.
LEMMA RegisterMirrors ==
  ASSUME TypeOK, InamesInv, NEW d \in Descs, NEW room \in Rooms(d),
         geas_register_contract(d, room)
  PROVE  InamesInv'
PROOF
  <1>1. Ascending(inames) /\ ToSet(inames) = UNION {EntriesOf(x) : x \in ToSet(descs)}
    BY DEF InamesInv, InamesMirrorDescs, Ascending
  <1>2. descs \in Seq(Descs) /\ ToSet(descs) \subseteq Descs
    BY DEF TypeOK, ToSet
  <1>3. CASE ~Admits(d)
    BY <1>3 DEF geas_register_contract, Accepted, InamesInv, InamesMirrorDescs
  <1>4. CASE Admits(d)
    <2>1. \A x \in ToSet(descs) : x.name # d.name
      BY <1>4 DEF Admits, find_desc
    <2>2. \A e \in ToSet(inames) : e.contract # d.name
      <3> SUFFICES ASSUME NEW e \in ToSet(inames) PROVE e.contract # d.name
        OBVIOUS
      <3>1. PICK x \in ToSet(descs) : e \in EntriesOf(x)
        BY <1>1
      <3>2. PICK i \in 0 .. Len(x.pledges) : e = EntryAt(x, i)
        BY <3>1 DEF EntriesOf
      <3>3. x \in Descs
        BY <1>2
      <3>4. e.contract = x.name
        BY <3>2, <3>3, EntriesTyped
      <3> QED
        BY <2>1, <3>4
    <2>3. room \in Nat /\ inames \in Seq(Entries)
      BY DEF Rooms, InamesInv
    <2>4. PICK out : out = iname_register(inames, d, room)
      OBVIOUS
    <2>5. /\ out.tbl \in Seq(Entries) /\ Ascending(out.tbl)
          /\ ToSet(out.tbl) = IF out.st = "OK" THEN ToSet(inames) \cup EntriesOf(d)
                                               ELSE ToSet(inames)
      BY <1>1, <2>2, <2>3, <2>4, RegisterIsAtomic
    <2>6. inames' = out.tbl /\ descs' = IF out.st = "OK" THEN Append(descs, d) ELSE descs
      BY <1>4, <2>4 DEF geas_register_contract, Accepted
    <2>7. ToSet(descs') = IF out.st = "OK" THEN ToSet(descs) \cup {d} ELSE ToSet(descs)
      BY <1>2, <2>6, AppendFacts DEF ToSet
    <2>8. ToSet(inames') = UNION {EntriesOf(x) : x \in ToSet(descs')}
      <3>1. CASE out.st = "OK"
        BY <1>1, <2>5, <2>6, <2>7, <3>1
      <3>2. CASE out.st # "OK"
        BY <1>1, <2>5, <2>6, <2>7, <3>2
      <3> QED
        BY <3>1, <3>2
    <2> QED
      BY <2>5, <2>6, <2>8 DEF InamesInv, InamesMirrorDescs, Ascending
  <1> QED
    BY <1>3, <1>4

\* Every other call leaves the table and the descriptors alone, or empties both.
LEMMA NextInamesInv == TypeOK /\ InamesInv /\ [Next]_vars => InamesInv'
PROOF
  <1> SUFFICES ASSUME TypeOK, InamesInv, [Next]_vars PROVE InamesInv'
    OBVIOUS
  <1>1. CASE inames' = inames /\ descs' = descs
    BY <1>1 DEF InamesInv, InamesMirrorDescs
  <1>2. ASSUME NEW t \in Threads, NEW d \in Statics, HostRegisters(t, d)
        PROVE  InamesInv'
    BY <1>2, RegisterMirrors DEF HostRegisters, Descs
  <1>3. ASSUME NEW t \in Threads, LoadRegisters(t)
        PROVE  InamesInv'
    <2>1. PICK m, k : m = local[t].m /\ k = local[t].next
      OBVIOUS
    <2>2. PICK d : d = Modules[m][k]
      OBVIOUS
    <2>3. k \in DOMAIN Modules[m] /\ \E room \in Rooms(d) : geas_register_contract(d, room)
      BY <1>3, <2>1, <2>2 DEF LoadRegisters
    <2>4. m \in Mods
      BY <1>3, <2>1 DEF LoadRegisters, Loading, TypeOK, Locals, Idle
    <2>5. d \in Descs
      BY <2>2, <2>3, <2>4 DEF Descs, ToSet
    <2> QED
      BY <2>3, <2>5, RegisterMirrors
  <1>4. CASE geas_runtime_shutdown
    BY <1>4 DEF geas_runtime_shutdown, InamesInv, InamesMirrorDescs, ToSet
  <1>5. ASSUME NEW t \in Threads,
               \/ geas_runtime_freeze(t)
               \/ \E name \in Names, fn \in HostFns : geas_pledge_bind(t, name, fn)
               \/ \E m \in Mods : LoadCheck(t, m)
               \/ LoadRefused(t) \/ dlopen(t) \/ LoadPublishes(t)
               \/ \E d \in Descs, hash \in 0 .. 9 : SignResolve(t, d.name, hash)
               \/ SignFails(t)
               \/ \E vows \in Overrides : SignPublishes(t, vows)
        PROVE  inames' = inames /\ descs' = descs
    BY <1>5 DEF geas_runtime_freeze, geas_pledge_bind, LoadCheck, LoadRefused, dlopen,
       LoadPublishes, SignResolve, SignFails, SignPublishes, tables
  <1> QED
    BY <1>1, <1>2, <1>3, <1>4, <1>5 DEF Next, Dies, vars, tables

\* For any modules, threads and bounds, whatever registration was refused at whatever
\* insert: the iname table is sorted without duplicates, and its entries are exactly
\* those of the registered contracts.
THEOREM InamesMirror == Spec => []InamesMirrorDescs
PROOF
  <1>1. Init => InamesInv
    BY DEF Init, InamesInv, InamesMirrorDescs, ToSet
  <1>2. InamesInv => InamesMirrorDescs
    BY DEF InamesInv
  <1> QED
    BY <1>1, <1>2, NextInamesInv, TablesWithinBounds, PTL DEF Spec
=============================================================================
