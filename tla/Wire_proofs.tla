---------------------------- MODULE Wire_proofs ----------------------------
(***************************************************************************)
(* The codec of Wire keeps every value and accepts no second encoding of   *)
(* one, for every width, depth and set of values.                          *)
(***************************************************************************)
EXTENDS Wire, SetInduction

-----------------------------------------------------------------------------
(* Numbers in cells.                                                        *)

\* Two cells hold a word, least significant first, and no word in two ways.
LEMMA WordInCells ==
  /\ Base \in Nat /\ Base > 17
  /\ \A n \in Words : /\ n % Base \in Cells /\ n \div Base \in Cells
                      /\ (n % Base) + Base * (n \div Base) = n
  /\ \A a, b \in Cells : /\ a + Base * b \in Words
                         /\ (a + Base * b) % Base = a /\ (a + Base * b) \div Base = b
PROOF
  <1>1. Base \in Nat /\ Base > 17
    BY BaseAssumption DEF GEAS_TY
  <1>2. ASSUME NEW n \in Words
        PROVE  /\ n % Base \in Cells /\ n \div Base \in Cells
               /\ (n % Base) + Base * (n \div Base) = n
    BY <1>1, SMT DEF Words, Cells
  <1>3. ASSUME NEW a \in Cells, NEW b \in Cells
        PROVE  /\ a + Base * b \in Words
               /\ (a + Base * b) % Base = a /\ (a + Base * b) \div Base = b
    BY <1>1, SMT DEF Words, Cells
  <1> QED
    BY <1>1, <1>2, <1>3

\* An Int and its bits are read from one another.
LEMMA SignedUnsigned ==
  /\ \A i \in Numbers("Int") : Unsigned(i) \in Words /\ Signed(Unsigned(i)) = i
  /\ \A u \in Words : Signed(u) \in Numbers("Int") /\ Unsigned(Signed(u)) = u
  /\ \A u \in Words : Unsigned(u) = u
PROOF
  <1>1. PICK B : B = Base * Base
    OBVIOUS
  <1>2. B \in Nat /\ B > 0
    BY <1>1, WordInCells
  <1>3. Words = 0 .. B - 1 /\ Numbers("Int") = {i \in Int : 2 * i >= -B /\ 2 * i < B}
    BY <1>1 DEF Words, Numbers
  <1>4. \A i \in Int : i >= 0 /\ i < B => i % B = i
    BY <1>2
  <1>5. \A i \in Int : i < 0 /\ i >= -B => i % B = i + B
    BY <1>2
  <1>6. \A i : Unsigned(i) = i % B /\ Signed(i) = IF 2 * i >= B THEN i - B ELSE i
    BY <1>1 DEF Unsigned, Signed
  <1>7. ASSUME NEW i \in Numbers("Int") PROVE Unsigned(i) \in Words /\ Signed(Unsigned(i)) = i
    <2>1. i \in Int /\ 2 * i >= -B /\ 2 * i < B
      BY <1>3
    <2>2. Unsigned(i) = IF i >= 0 THEN i ELSE i + B
      BY <1>2, <1>4, <1>5, <1>6, <2>1
    <2> QED
      BY <1>2, <1>3, <1>6, <2>1, <2>2
  <1>8. ASSUME NEW u \in Words
        PROVE  Signed(u) \in Numbers("Int") /\ Unsigned(Signed(u)) = u /\ Unsigned(u) = u
    <2>1. u \in Int /\ 0 <= u /\ u < B
      BY <1>2, <1>3
    <2>2. Signed(u) = IF 2 * u >= B THEN u - B ELSE u
      BY <1>6
    <2>3. PICK j : j = Signed(u)
      OBVIOUS
    <2>4. j \in Int /\ 2 * j >= -B /\ 2 * j < B
      BY <1>2, <2>1, <2>2, <2>3
    <2>5. Unsigned(j) = IF j >= 0 THEN j ELSE j + B
      BY <1>2, <1>4, <1>5, <1>6, <2>4
    <2>6. Unsigned(u) = u
      BY <1>4, <1>6, <2>1
    <2> QED
      BY <1>2, <1>3, <2>1, <2>2, <2>3, <2>4, <2>5, <2>6
  <1> QED
    BY <1>7, <1>8

\* A type and its code are read from one another.
LEMMA CodesAreTypes ==
  /\ \A ty \in Tags : Code(ty) \in 0 .. 16 /\ TypeOf(Code(ty)) = ty
  /\ \A c \in 0 .. 16 : TypeOf(c) \in Tags /\ Code(TypeOf(c)) = c
  /\ \A c \in Cells : c > 16 => TypeOf(c) = "garbage"
  /\ "garbage" \notin Tags
PROOF
  <1>1. Len(GEAS_TY) = 17 /\ DOMAIN GEAS_TY = 1 .. 17
    BY DEF GEAS_TY
  <1>2. \A i, j \in 1 .. 17 : GEAS_TY[i] = GEAS_TY[j] => i = j
    BY DEF GEAS_TY
  <1>3. Tags = {GEAS_TY[i] : i \in 1 .. 17}
    BY <1>1 DEF Tags, ToSet
  <1>4. ASSUME NEW i \in 1 .. 17 PROVE Code(GEAS_TY[i]) = i - 1
    <2>1. PICK j : j = CHOOSE k \in DOMAIN GEAS_TY : GEAS_TY[k] = GEAS_TY[i]
      OBVIOUS
    <2>2. j \in 1 .. 17 /\ GEAS_TY[j] = GEAS_TY[i]
      BY <1>1, <2>1
    <2>3. Code(GEAS_TY[i]) = j - 1
      BY <2>1 DEF Code
    <2> QED
      BY <1>2, <2>2, <2>3
  <1>5. ASSUME NEW c \in 0 .. 16
        PROVE  TypeOf(c) = GEAS_TY[c + 1] /\ c + 1 \in 1 .. 17 /\ (c + 1) - 1 = c
    BY <1>1 DEF TypeOf
  <1>6. \A i \in 1 .. 17 : i - 1 \in 0 .. 16 /\ (i - 1) + 1 = i
    OBVIOUS
  <1>7. \A ty \in Tags : Code(ty) \in 0 .. 16 /\ TypeOf(Code(ty)) = ty
    BY <1>3, <1>4, <1>5, <1>6
  <1>8. \A c \in 0 .. 16 : TypeOf(c) \in Tags /\ Code(TypeOf(c)) = c
    BY <1>3, <1>4, <1>5
  <1>9. \A c \in Cells : c > 16 => TypeOf(c) = "garbage"
    BY <1>1, WordInCells DEF TypeOf, Cells
  <1>10. "garbage" \notin Tags
    BY <1>3 DEF GEAS_TY
  <1> QED
    BY <1>7, <1>8, <1>9, <1>10

LEMMA TagsAre ==
  Tags = {"Unit", "Int", "UInt", "Float", "Bool", "Byte", "Char", "String", "List", "Map",
          "Tuple", "Option", "Result", "Record", "PledgeRef", "Sum", "Instance"}
PROOF
  <1>1. DOMAIN GEAS_TY = 1 .. 17
    BY DEF GEAS_TY
  <1>2. Tags = {GEAS_TY[i] : i \in 1 .. 17}
    BY <1>1 DEF Tags, ToSet
  <1> QED
    BY <1>2 DEF GEAS_TY

LEMMA CodesAreCells ==
  ASSUME NEW ty \in Tags
  PROVE  Code(ty) \in Cells
PROOF
  <1>1. Code(ty) \in 0 .. 16
    BY CodesAreTypes
  <1>2. Base \in Nat /\ Base > 17
    BY BaseAssumption DEF GEAS_TY
  <1> QED
    BY <1>1, <1>2 DEF Cells

-----------------------------------------------------------------------------
(* Values as trees.                                                         *)

\* The parts of a value.
LEMMA NodeParts ==
  ASSUME NEW S, NEW v \in Nodes(S)
  PROVE  /\ v = [ty |-> v.ty, tag |-> v.tag, n |-> v.n, elem_ty |-> v.elem_ty, len |-> v.len,
                 bytes |-> v.bytes, data |-> v.data]
         /\ v.ty \in Tags /\ v.tag \in Cells /\ v.n \in Int /\ v.elem_ty \in Tags
         /\ v.len \in Words /\ v.bytes \in Seq(Cells) /\ v.data \in Seq(S)
         /\ UnionOK(v)
PROOF
  BY DEF Nodes

\* Values with more elements to choose from are more.
LEMMA NodesGrow ==
  ASSUME NEW S, NEW T, S \subseteq T
  PROVE  Nodes(S) \subseteq Nodes(T)
PROOF
  <1> SUFFICES ASSUME NEW v \in Nodes(S) PROVE v \in Nodes(T)
    OBVIOUS
  <1>1. v.data \in Seq(T)
    BY NodeParts
  <1> QED
    BY <1>1, NodeParts DEF Nodes

\* The levels are well defined.
LEMMA TreesUnfold ==
  /\ Trees[0] = {}
  /\ \A k \in 1 .. Levels : Trees[k] = Nodes(Trees[k - 1])
PROOF
  <1> DEFINE n == Levels
             R(f, k) == \A j \in 0 .. k : f[j] = IF j = 0 THEN {} ELSE Nodes(f[j - 1])
             S == {k \in 0 .. n : \E f : R(f, k)}
  <1>1. n \in Nat
    BY LevelsAssumption
  <1>2. 0 \in S
    <2>1. PICK f : f = [j \in 0 .. 0 |-> {}]
      OBVIOUS
    <2>2. R(f, 0)
      BY <2>1
    <2> QED
      BY <1>1, <2>2
  <1>3. \A k \in 0 .. (n - 1) : k \in S => k + 1 \in S
    <2> SUFFICES ASSUME NEW k \in 0 .. (n - 1), NEW f, R(f, k) PROVE k + 1 \in S
      OBVIOUS
    <2>1. PICK g : g = [j \in 0 .. (k + 1) |-> IF j <= k THEN f[j] ELSE Nodes(f[k])]
      OBVIOUS
    <2>2. k \in Nat /\ k + 1 \in 0 .. n
      BY <1>1
    <2>3. ASSUME NEW j \in 0 .. (k + 1)
          PROVE  g[j] = IF j = 0 THEN {} ELSE Nodes(g[j - 1])
      <3>1. CASE j <= k
        <4>1. g[j] = f[j] /\ j \in 0 .. k
          BY <2>1, <2>2, <3>1
        <4>2. j # 0 => g[j - 1] = f[j - 1]
          BY <2>1, <2>2, <3>1
        <4> QED
          BY <4>1, <4>2
      <3>2. CASE j = k + 1
        <4>1. g[j] = Nodes(f[k]) /\ g[j - 1] = f[k] /\ j # 0
          BY <2>1, <2>2, <3>2
        <4> QED
          BY <4>1
      <3> QED
        BY <2>2, <3>1, <3>2
    <2> QED
      BY <2>2, <2>3
  <1>4. PICK f : R(f, n)
    <2>1. 0 .. n \subseteq S
      <3> HIDE DEF S, n
      <3> QED
        BY <1>1, <1>2, <1>3, InductUpTo
    <2> QED
      BY <1>1, <2>1
  <1>5. PICK g : g = [k \in 0 .. n |-> f[k]]
    OBVIOUS
  <1>6. g = [k \in 0 .. n |-> IF k = 0 THEN {} ELSE Nodes(g[k - 1])]
    <2>1. \A k \in 0 .. n : k # 0 => k - 1 \in 0 .. n
      BY <1>1
    <2>2. \A k \in 0 .. n : g[k] = IF k = 0 THEN {} ELSE Nodes(g[k - 1])
      BY <1>4, <1>5, <2>1
    <2> QED
      BY <1>5, <2>2
  <1>7. Trees = CHOOSE h : h = [k \in 0 .. n |-> IF k = 0 THEN {} ELSE Nodes(h[k - 1])]
    BY Zenon DEF Trees
  <1>8. Trees = [k \in 0 .. n |-> IF k = 0 THEN {} ELSE Nodes(Trees[k - 1])]
    BY <1>6, <1>7, Zenon
  <1>9. Trees[0] = {}
    BY <1>1, <1>8
  <1>10. ASSUME NEW k \in 1 .. n PROVE Trees[k] = Nodes(Trees[k - 1])
    <2>1. k \in 0 .. n /\ k # 0
      BY <1>1
    <2> QED
      BY <1>8, <2>1, Zenon
  <1> QED
    BY <1>9, <1>10

\* A level holds the levels below it.
LEMMA TreesGrow ==
  /\ \A k \in 0 .. (Levels - 1) : Trees[k] \subseteq Trees[k + 1]
  /\ \A k \in 0 .. Levels : Trees[k] \subseteq GeasValue
PROOF
  <1>1. PICK n \in Nat : n = Levels
    BY LevelsAssumption
  <1> DEFINE S == {k \in 0 .. n : k < n => Trees[k] \subseteq Trees[k + 1]}
  <1>2. 0 \in S
    BY <1>1, TreesUnfold
  <1>3. \A k \in 0 .. (n - 1) : k \in S => k + 1 \in S
    <2> SUFFICES ASSUME NEW k \in 0 .. (n - 1), k \in S, k + 1 < n
                 PROVE  Trees[k + 1] \subseteq Trees[(k + 1) + 1]
      BY <1>1
    <2>1. k + 1 \in 1 .. n /\ (k + 1) - 1 = k /\ (k + 1) + 1 \in 1 .. n
          /\ ((k + 1) + 1) - 1 = k + 1 /\ k < n
      BY <1>1
    <2>2. Trees[k + 1] = Nodes(Trees[k]) /\ Trees[(k + 1) + 1] = Nodes(Trees[k + 1])
      BY <1>1, <2>1, TreesUnfold
    <2>3. Trees[k] \subseteq Trees[k + 1]
      BY <2>1
    <2> QED
      BY <2>2, <2>3, NodesGrow
  <1>4. 0 .. n \subseteq S
    <2> HIDE DEF S
    <2> QED
      BY <1>1, <1>2, <1>3, InductUpTo
  <1>5. \A k \in 0 .. (n - 1) : Trees[k] \subseteq Trees[k + 1]
    BY <1>1, <1>4
  <1> DEFINE Q == {i \in 0 .. n : Trees[n - i] \subseteq Trees[n]}
  <1>6. 0 \in Q
    BY <1>1
  <1>7. \A i \in 0 .. (n - 1) : i \in Q => i + 1 \in Q
    <2> SUFFICES ASSUME NEW i \in 0 .. (n - 1), i \in Q
                 PROVE  Trees[n - (i + 1)] \subseteq Trees[n]
      BY <1>1
    <2>1. PICK k : k = n - (i + 1)
      OBVIOUS
    <2>2. k \in 0 .. (n - 1) /\ k + 1 = n - i
      BY <1>1, <2>1
    <2>3. Trees[k] \subseteq Trees[k + 1] /\ Trees[k + 1] \subseteq Trees[n]
      BY <1>5, <2>2
    <2> QED
      BY <2>1, <2>3
  <1>8. 0 .. n \subseteq Q
    <2> HIDE DEF Q
    <2> QED
      BY <1>1, <1>6, <1>7, InductUpTo
  <1>9. ASSUME NEW k \in 0 .. n PROVE Trees[k] \subseteq Trees[n]
    <2>1. PICK i : i = n - k
      OBVIOUS
    <2>2. i \in 0 .. n /\ n - i = k
      BY <1>1, <2>1
    <2> QED
      BY <1>8, <2>2
  <1> QED
    BY <1>1, <1>5, <1>9 DEF GeasValue

\* A value of a program is a node over values of a program, and Levels is not 0.
LEMMA ValuesAreNodes ==
  ASSUME NEW v \in GeasValue
  PROVE  /\ v \in Nodes(GeasValue)
         /\ v.data \in Seq(GeasValue) /\ Len(v.data) \in Nat
         /\ \A i \in 1 .. Len(v.data) : v.data[i] \in GeasValue
PROOF
  <1>1. PICK n \in Nat : n = Levels
    BY LevelsAssumption
  <1>2. CASE n = 0
    BY <1>1, <1>2, TreesUnfold DEF GeasValue
  <1>3. CASE n # 0
    <2>1. n \in 1 .. n /\ n - 1 \in 0 .. n
      BY <1>1, <1>3
    <2>2. v \in Nodes(Trees[n - 1]) /\ Trees[n - 1] \subseteq GeasValue
      BY <1>1, <2>1, TreesUnfold, TreesGrow DEF GeasValue
    <2>3. v \in Nodes(GeasValue)
      BY <2>2, NodesGrow
    <2>4. v.data \in Seq(GeasValue)
      BY <2>3, NodeParts
    <2> QED
      BY <2>3, <2>4
  <1> QED
    BY <1>2, <1>3

\* Induction over values.
LEMMA TreeInduction ==
  ASSUME NEW P, \A v \in GeasValue : (\A i \in 1 .. Len(v.data) : v.data[i] \in P) => v \in P
  PROVE  GeasValue \subseteq P
PROOF
  <1>1. PICK n \in Nat : n = Levels
    BY LevelsAssumption
  <1> DEFINE S == {k \in 0 .. n : Trees[k] \subseteq P}
  <1>2. 0 \in S
    BY <1>1, TreesUnfold
  <1>3. \A k \in 0 .. (n - 1) : k \in S => k + 1 \in S
    <2> SUFFICES ASSUME NEW k \in 0 .. (n - 1), k \in S, NEW v \in Trees[k + 1] PROVE v \in P
      BY <1>1
    <2>1. k + 1 \in 1 .. n /\ (k + 1) - 1 = k /\ k + 1 \in 0 .. n
      BY <1>1
    <2>2. v \in Nodes(Trees[k]) /\ v \in GeasValue
      BY <1>1, <2>1, TreesUnfold, TreesGrow
    <2>3. v.data \in Seq(Trees[k])
      BY <2>2, NodeParts
    <2>4. \A i \in 1 .. Len(v.data) : v.data[i] \in P
      BY <2>3
    <2> QED
      BY <2>2, <2>4
  <1>4. 0 .. n \subseteq S
    <2> HIDE DEF S
    <2> QED
      BY <1>2, <1>3, InductUpTo
  <1> QED
    BY <1>1, <1>4 DEF GeasValue

\* A function over values may be computed from what it is for the elements.
Parts(v, f) == [i \in 1 .. Len(v.data) |-> f[v.data[i]]]

LEMMA FunctionIsSeq ==
  ASSUME NEW T, NEW n \in Nat, NEW f \in [1 .. n -> T]
  PROVE  f \in Seq(T) /\ Len(f) = n
PROOF
  OBVIOUS

LEMMA PartsIn ==
  ASSUME NEW X, NEW v \in GeasValue, NEW g, \A i \in 1 .. Len(v.data) : g[v.data[i]] \in X
  PROVE  Parts(v, g) \in Seq(X) /\ Len(Parts(v, g)) = Len(v.data)
PROOF
  <1>1. Len(v.data) \in Nat
    BY ValuesAreNodes
  <1>2. Parts(v, g) \in [1 .. Len(v.data) -> X]
    BY DEF Parts
  <1> QED
    BY <1>1, <1>2

LEMMA TreeRecursion ==
  ASSUME NEW X, NEW B \in [GeasValue -> [Seq(X) -> X]]
  PROVE  \E f \in [GeasValue -> X] : \A v \in GeasValue : f[v] = B[v][Parts(v, f)]
PROOF
  <1>1. PICK n \in Nat : n = Levels
    BY LevelsAssumption
  <1> DEFINE R(f, k) == \A v \in Trees[k] : f[v] = B[v][Parts(v, f)]
             S == {k \in 0 .. n : \E f \in [Trees[k] -> X] : R(f, k)}
  <1>2. 0 \in S
    <2>1. PICK f : f = [v \in Trees[0] |-> CHOOSE x \in X : TRUE]
      OBVIOUS
    <2>2. f \in [Trees[0] -> X] /\ R(f, 0)
      BY <2>1, TreesUnfold
    <2> QED
      BY <1>1, <2>2
  <1>3. \A k \in 0 .. (n - 1) : k \in S => k + 1 \in S
    <2> SUFFICES ASSUME NEW k \in 0 .. (n - 1), NEW f \in [Trees[k] -> X], R(f, k)
                 PROVE  k + 1 \in S
      OBVIOUS
    <2>1. k + 1 \in 1 .. n /\ (k + 1) - 1 = k /\ k \in 0 .. n /\ k + 1 \in 0 .. n
      BY <1>1
    <2>2. Trees[k + 1] = Nodes(Trees[k]) /\ Trees[k] \subseteq Trees[k + 1]
          /\ Trees[k + 1] \subseteq GeasValue
      BY <1>1, <2>1, TreesUnfold, TreesGrow
    <2>3. PICK g : g = [v \in Trees[k + 1] |-> B[v][Parts(v, f)]]
      OBVIOUS
    <2>4. ASSUME NEW v \in Trees[k + 1]
          PROVE  /\ \A i \in 1 .. Len(v.data) : v.data[i] \in Trees[k]
                 /\ Parts(v, f) \in Seq(X)
      <3>1. v.data \in Seq(Trees[k])
        BY <2>2, NodeParts
      <3>2. Len(v.data) \in Nat /\ \A i \in 1 .. Len(v.data) : v.data[i] \in Trees[k]
        BY <3>1
      <3>3. Parts(v, f) \in [1 .. Len(v.data) -> X]
        BY <3>2 DEF Parts
      <3> QED
        BY <3>2, <3>3
    <2>5. g \in [Trees[k + 1] -> X]
      BY <2>2, <2>3, <2>4
    <2>6. \A v \in Trees[k] : g[v] = f[v]
      BY <2>2, <2>3
    <2>7. ASSUME NEW v \in Trees[k + 1] PROVE g[v] = B[v][Parts(v, g)]
      <3>1. Parts(v, g) = Parts(v, f)
        BY <2>4, <2>6 DEF Parts
      <3> QED
        BY <2>3, <3>1
    <2> QED
      BY <2>1, <2>5, <2>7
  <1>4. n \in S
    <2>1. 0 .. n \subseteq S
      <3> HIDE DEF S
      <3> QED
        BY <1>2, <1>3, InductUpTo
    <2> QED
      BY <2>1
  <1> QED
    BY <1>1, <1>4 DEF GeasValue

-----------------------------------------------------------------------------
(* The passes of the encoder.                                               *)

\* What encode_write puts before the elements of a value.
HeadOf(v) == put_u32(Code(v.ty)) \o put_u32(v.tag) \o WriteBody(v) \o v.bytes

\* The fixed part is as long as the sizing pass says, and made of cells.
LEMMA BodyFits ==
  ASSUME NEW v \in GeasValue
  PROVE  WriteBody(v) \in Seq(Cells) /\ Len(WriteBody(v)) = BodyLen(v.ty) /\ BodyLen(v.ty) \in 0 .. 3
PROOF
  <1>1. v \in Nodes(GeasValue)
    BY ValuesAreNodes
  <1>2. v.ty \in Tags /\ v.elem_ty \in Tags /\ v.len \in Words /\ v.n \in Numbers(v.ty)
    BY <1>1, NodeParts DEF UnionOK
  <1>3. \A n \in Words : put_u64(n) \in Seq(Cells) /\ Len(put_u64(n)) = 2
    BY WordInCells DEF put_u64
  <1>4. \A n \in Cells : put_u32(n) \in Seq(Cells) /\ Len(put_u32(n)) = 1
    BY DEF put_u32
  <1>5. Code(v.elem_ty) \in Cells
    BY <1>2, CodesAreCells
  <1>6. CASE v.ty \in {"Int", "UInt", "Float"}
    <2>1. Unsigned(v.n) \in Words
      BY <1>2, <1>6, SignedUnsigned DEF Numbers
    <2>2. WriteBody(v) = put_u64(Unsigned(v.n)) /\ BodyLen(v.ty) = 2
      BY <1>6 DEF WriteBody, BodyLen, Fielded, Listed
    <2> QED
      BY <1>3, <2>1, <2>2
  <1>7. CASE v.ty \in {"Bool", "Byte", "Char"}
    <2>1. v.n \in Cells
      BY <1>2, <1>7 DEF Numbers
    <2>2. WriteBody(v) = put_u32(v.n) /\ BodyLen(v.ty) = 1
      BY <1>7 DEF WriteBody, BodyLen, Fielded, Listed
    <2> QED
      BY <1>4, <2>1, <2>2
  <1>8. CASE v.ty \in {"String"} \cup Fielded
    <2>1. WriteBody(v) = put_u64(v.len) /\ BodyLen(v.ty) = 2
      BY <1>8 DEF WriteBody, BodyLen, Fielded, Listed
    <2> QED
      BY <1>2, <1>3, <2>1
  <1>9. CASE v.ty \in Listed
    <2>1. WriteBody(v) = put_u64(v.len) \o put_u32(Code(v.elem_ty)) /\ BodyLen(v.ty) = 3
      BY <1>9 DEF WriteBody, BodyLen, Fielded, Listed
    <2> QED
      BY <1>2, <1>3, <1>4, <1>5, <2>1
  <1>10. CASE v.ty \notin {"Int", "UInt", "Float", "Bool", "Byte", "Char", "String"}
                          \cup Fielded \cup Listed
    <2>1. WriteBody(v) = << >> /\ BodyLen(v.ty) = 0
      BY <1>10 DEF WriteBody, BodyLen
    <2> QED
      BY <2>1
  <1> QED
    BY <1>6, <1>7, <1>8, <1>9, <1>10

LEMMA HeadFits ==
  ASSUME NEW v \in GeasValue
  PROVE  HeadOf(v) \in Seq(Cells) /\ Len(HeadOf(v)) = 2 + BodyLen(v.ty) + Len(v.bytes)
PROOF
  <1>1. v.bytes \in Seq(Cells) /\ v.tag \in Cells /\ v.ty \in Tags
    BY ValuesAreNodes, NodeParts
  <1>2. Code(v.ty) \in Cells
    BY <1>1, CodesAreCells
  <1>3. PICK h : h = put_u32(Code(v.ty)) \o put_u32(v.tag)
    OBVIOUS
  <1>4. h \in Seq(Cells) /\ Len(h) = 2
    BY <1>1, <1>2, <1>3 DEF put_u32
  <1>5. PICK b : b = WriteBody(v)
    OBVIOUS
  <1>6. b \in Seq(Cells) /\ Len(b) = BodyLen(v.ty) /\ BodyLen(v.ty) \in Nat
    BY <1>5, BodyFits
  <1>7. HeadOf(v) = (h \o b) \o v.bytes
    BY <1>3, <1>5 DEF HeadOf
  <1>8. h \o b \in Seq(Cells) /\ Len(h \o b) = 2 + BodyLen(v.ty)
    <2>1. h \o b \in Seq(Cells) /\ Len(h \o b) = Len(h) + Len(b)
      BY <1>4, <1>6, ConcatAt
    <2> QED
      BY <1>4, <1>6, <2>1
  <1>9. PICK d : d = h \o b
    OBVIOUS
  <1>10. d \o v.bytes \in Seq(Cells) /\ Len(d \o v.bytes) = Len(d) + Len(v.bytes)
    BY <1>1, <1>8, <1>9, ConcatAt
  <1> QED
    BY <1>7, <1>8, <1>9, <1>10

\* Sequences of cells laid one after the other are a sequence of cells.
LEMMA FlattenCells ==
  ASSUME NEW T, NEW gs \in Seq(Seq(T))
  PROVE  FlattenSeq(gs) \in Seq(T)
PROOF
  <1>1. PICK f : Laid(gs, T, f)
    BY LaidExists
  <1>2. FlattenSeq(gs) = f[Len(gs)]
    BY <1>1, FlattenIsLaid
  <1> QED
    BY <1>1, <1>2 DEF Laid

\* The write pass puts the elements after the head.
LEMMA WriteUnfolds ==
  /\ encode_write \in [GeasValue -> Seq(Cells)]
  /\ \A v \in GeasValue : encode_write[v] = HeadOf(v) \o FlattenSeq(Parts(v, encode_write))
PROOF
  <1> DEFINE X == Seq(Cells)
             E(f) == [v \in GeasValue |->
                        put_u32(Code(v.ty)) \o put_u32(v.tag) \o WriteBody(v) \o v.bytes
                          \o FlattenSeq([i \in 1 .. Len(v.data) |-> f[v.data[i]]])]
  <1>1. PICK B : B = [v \in GeasValue |-> [ws \in Seq(X) |-> HeadOf(v) \o FlattenSeq(ws)]]
    OBVIOUS
  <1>2. ASSUME NEW v \in GeasValue, NEW ws \in Seq(X) PROVE HeadOf(v) \o FlattenSeq(ws) \in X
    BY HeadFits, FlattenCells
  <1>3. B \in [GeasValue -> [Seq(X) -> X]]
    BY <1>1, <1>2
  <1>4. PICK f \in [GeasValue -> X] : \A v \in GeasValue : f[v] = B[v][Parts(v, f)]
    <2> HIDE DEF X
    <2> QED
      BY <1>3, TreeRecursion
  <1>5. ASSUME NEW g \in [GeasValue -> X], NEW v \in GeasValue PROVE Parts(v, g) \in Seq(X)
    <2>1. \A i \in 1 .. Len(v.data) : g[v.data[i]] \in X
      BY ValuesAreNodes
    <2> QED
      BY <2>1, PartsIn
  <1>6. f = E(f)
    <2>1. \A v \in GeasValue : f[v] = HeadOf(v) \o FlattenSeq(Parts(v, f))
      BY <1>1, <1>4, <1>5
    <2> QED
      BY <1>4, <2>1 DEF HeadOf, Parts
  <1>7. encode_write = CHOOSE g : g = E(g)
    BY Zenon DEF encode_write
  <1>8. encode_write = E(encode_write)
    BY <1>6, <1>7, Zenon
  <1>9. ASSUME NEW v \in GeasValue
        PROVE  encode_write[v] = HeadOf(v) \o FlattenSeq(Parts(v, encode_write))
    BY <1>8 DEF HeadOf, Parts
  <1> DEFINE P == {v \in GeasValue : encode_write[v] \in X}
  <1>10. ASSUME NEW v \in GeasValue, \A i \in 1 .. Len(v.data) : v.data[i] \in P
         PROVE  v \in P
    <2>1. Parts(v, encode_write) \in Seq(X)
      BY <1>10, PartsIn
    <2> QED
      BY <1>2, <1>9, <2>1
  <1>11. GeasValue \subseteq P
    <2> HIDE DEF P
    <2> QED
      BY <1>10, TreeInduction
  <1> QED
    BY <1>8, <1>9, <1>11

\* The sum of the sizes is the length of what is laid, unless one is refused.
LEMMA SizeAdds ==
  ASSUME NEW T, NEW gs \in Seq(Seq(T)), NEW own \in Nat, NEW ns, Len(ns) = Len(gs),
         \A i \in 1 .. Len(gs) : ns[i] = -1 \/ ns[i] = Len(gs[i])
  PROVE  size_add(own, ns) =
           IF \E i \in 1 .. Len(gs) : ns[i] = -1 THEN -1 ELSE own + Len(FlattenSeq(gs))
PROOF
  <1>1. PICK n \in Nat : n = Len(gs)
    OBVIOUS
  <1>2. PICK f : Laid(gs, T, f)
    BY LaidExists
  <1> DEFINE Sum(k) == IF \E i \in 1 .. k : ns[i] = -1 THEN -1 ELSE own + Len(f[k])
             E(h) == [i \in 0 .. n |->
                        IF i = 0 THEN own
                        ELSE IF h[i - 1] = -1 \/ ns[i] = -1 THEN -1 ELSE h[i - 1] + ns[i]]
  <1>3. ASSUME NEW k \in 0 .. (n - 1)
        PROVE  /\ k + 1 \in 1 .. n
               /\ Sum(k) \in Int
               /\ Sum(k + 1) = IF Sum(k) = -1 \/ ns[k + 1] = -1 THEN -1 ELSE Sum(k) + ns[k + 1]
    <2>1. /\ k \in Nat /\ k + 1 \in 1 .. n
          /\ f[k] \in Seq(T) /\ gs[k + 1] \in Seq(T) /\ f[k + 1] = f[k] \o gs[k + 1]
      BY <1>1, <1>2, LaidStep
    <2>2. Len(f[k]) \in Nat /\ Len(f[k + 1]) = Len(f[k]) + Len(gs[k + 1])
      BY <2>1, ConcatAt
    <2>3. (\E i \in 1 .. (k + 1) : ns[i] = -1) <=> (\E i \in 1 .. k : ns[i] = -1) \/ ns[k + 1] = -1
      <3>1. 1 .. (k + 1) = (1 .. k) \cup {k + 1}
        BY <2>1
      <3> QED
        BY <3>1, Zenon
    <2>4. ns[k + 1] = -1 \/ ns[k + 1] = Len(gs[k + 1])
      BY <1>1, <2>1
    <2>5. Len(gs[k + 1]) \in Nat
      BY <2>1
    <2>6. CASE \E i \in 1 .. k : ns[i] = -1
      <3>1. Sum(k) = -1 /\ Sum(k + 1) = -1
        BY <2>3, <2>6
      <3> HIDE DEF Sum
      <3> QED
        BY <2>1, <3>1
    <2>7. CASE ~(\E i \in 1 .. k : ns[i] = -1)
      <3>1. Sum(k) = own + Len(f[k]) /\ Sum(k) # -1
        BY <2>2, <2>7
      <3>2. Sum(k + 1) = IF ns[k + 1] = -1 THEN -1 ELSE own + Len(f[k + 1])
        BY <2>3, <2>7
      <3>3. CASE ns[k + 1] = -1
        <4> HIDE DEF Sum
        <4> QED
          BY <2>1, <2>2, <3>1, <3>2, <3>3
      <3>4. CASE ns[k + 1] # -1
        <4>1. PICK a, b : a = Len(f[k]) /\ b = Len(gs[k + 1])
          OBVIOUS
        <4>2. PICK x, y, m : x = Sum(k) /\ y = Sum(k + 1) /\ m = ns[k + 1]
          OBVIOUS
        <4>3. a \in Nat /\ b \in Nat /\ m = b /\ x = own + a /\ y = own + (a + b)
          BY <2>2, <2>4, <2>5, <3>1, <3>2, <3>4, <4>1, <4>2
        <4>4. x \in Int /\ y = IF x = -1 \/ m = -1 THEN -1 ELSE x + m
          BY <4>3
        <4> HIDE DEF Sum
        <4> QED
          BY <2>1, <4>2, <4>4
      <3> QED
        BY <3>3, <3>4
    <2> QED
      BY <2>6, <2>7
  <1>4. Sum(0) = own
    <2>1. f[0] = << >>
      BY <1>2 DEF Laid
    <2> QED
      BY <2>1
  <1>5. PICK g : g = [k \in 0 .. n |-> Sum(k)]
    OBVIOUS
  <1>6. g = E(g)
    <2> SUFFICES ASSUME NEW i \in 0 .. n
                 PROVE  Sum(i) = IF i = 0 THEN own
                                 ELSE IF g[i - 1] = -1 \/ ns[i] = -1 THEN -1 ELSE g[i - 1] + ns[i]
      BY <1>5
    <2>1. CASE i = 0
      BY <1>4, <2>1
    <2>2. CASE i # 0
      <3>1. PICK k : k = i - 1
        OBVIOUS
      <3>2. k \in 0 .. (n - 1) /\ k + 1 = i /\ k \in 0 .. n
        BY <2>2, <3>1
      <3>3. g[k] = Sum(k)
        BY <1>5, <3>2
      <3> HIDE DEF Sum
      <3> QED
        BY <1>3, <2>2, <3>1, <3>2, <3>3
    <2> QED
      BY <2>1, <2>2
  <1>7. PICK p : p = CHOOSE h : h = E(h)
    OBVIOUS
  <1>8. p = E(p)
    BY <1>6, <1>7, Zenon
  <1>9. size_add(own, ns) = p[n]
    <2>1. Len(ns) = n
      BY <1>1
    <2> QED
      BY <1>7, <2>1, Zenon DEF size_add
  <1> DEFINE S == {k \in 0 .. n : p[k] = Sum(k)}
  <1>10. 0 \in S
    BY <1>4, <1>8
  <1>11. \A k \in 0 .. (n - 1) : k \in S => k + 1 \in S
    <2> SUFFICES ASSUME NEW k \in 0 .. (n - 1), p[k] = Sum(k) PROVE p[k + 1] = Sum(k + 1)
      OBVIOUS
    <2>1. k + 1 \in 0 .. n /\ k + 1 # 0 /\ (k + 1) - 1 = k
      OBVIOUS
    <2>2. p[k + 1] = IF p[k] = -1 \/ ns[k + 1] = -1 THEN -1 ELSE p[k] + ns[k + 1]
      BY <1>8, <2>1
    <2> HIDE DEF Sum
    <2> QED
      BY <1>3, <2>2
  <1>12. 0 .. n \subseteq S
    <2> HIDE DEF S
    <2> QED
      BY <1>10, <1>11, InductUpTo
  <1>13. p[n] = Sum(n)
    BY <1>12
  <1>14. FlattenSeq(gs) = f[n]
    BY <1>1, <1>2, FlattenIsLaid
  <1> QED
    BY <1>1, <1>9, <1>13, <1>14

Depths == 1 .. MaxDepth + 1
SizesOf(v, f, depth) == [i \in 1 .. Len(v.data) |-> f[v.data[i]][depth + 1]]
OwnSize(v) == 2 + BodyLen(v.ty) + (IF v.ty = "String" THEN v.len ELSE 0)

\* What size_add yields is an integer.
LEMMA SizeAddInt ==
  ASSUME NEW own \in Int, NEW ns \in Seq(Int)
  PROVE  size_add(own, ns) \in Int
PROOF
  <1>1. PICK n \in Nat : n = Len(ns)
    OBVIOUS
  <1> DEFINE E(h) == [i \in 0 .. n |->
                        IF i = 0 THEN own
                        ELSE IF h[i - 1] = -1 \/ ns[i] = -1 THEN -1 ELSE h[i - 1] + ns[i]]
  <1>2. PICK G : G = [k \in 1 .. n |-> [x \in Int |->
                        IF x = -1 \/ ns[k] = -1 THEN -1 ELSE x + ns[k]]]
    OBVIOUS
  <1>3. G \in Bodies(n, Int)
    <2>1. \A k \in 1 .. n : ns[k] \in Int
      BY <1>1
    <2> QED
      BY <1>2, <2>1 DEF Bodies
  <1>4. PICK f \in Runs(n, Int, own, G) : TRUE
    BY <1>3, LoopRuns
  <1>5. f \in [0 .. n -> Int] /\ f[0] = own /\ \A k \in 1 .. n : f[k] = G[k][f[k - 1]]
    BY <1>4 DEF Runs
  <1>6. f = E(f)
    <2>1. \A k \in 1 .. n : f[k - 1] \in Int
      BY <1>5
    <2>2. \A k \in 1 .. n : f[k] = IF f[k - 1] = -1 \/ ns[k] = -1 THEN -1 ELSE f[k - 1] + ns[k]
      BY <1>2, <1>5, <2>1
    <2> QED
      BY <1>5, <2>2
  <1>7. PICK p : p = CHOOSE h : h = E(h)
    OBVIOUS
  <1>8. p = E(p)
    BY <1>6, <1>7, Zenon
  <1>9. size_add(own, ns) = p[n]
    BY <1>1, <1>7, Zenon DEF size_add
  <1> DEFINE S == {k \in 0 .. n : p[k] \in Int}
  <1>10. 0 \in S
    BY <1>8
  <1>11. \A k \in 0 .. (n - 1) : k \in S => k + 1 \in S
    <2> SUFFICES ASSUME NEW k \in 0 .. (n - 1), p[k] \in Int PROVE p[k + 1] \in Int
      OBVIOUS
    <2>1. k + 1 \in 0 .. n /\ k + 1 # 0 /\ (k + 1) - 1 = k /\ ns[k + 1] \in Int
      BY <1>1
    <2>2. p[k + 1] = IF p[k] = -1 \/ ns[k + 1] = -1 THEN -1 ELSE p[k] + ns[k + 1]
      BY <1>8, <2>1
    <2> QED
      BY <2>1, <2>2
  <1>12. 0 .. n \subseteq S
    <2> HIDE DEF S
    <2> QED
      BY <1>10, <1>11, InductUpTo
  <1> QED
    BY <1>9, <1>12

\* The sizing pass adds up the elements, one level deeper.
LEMMA SizeUnfolds ==
  /\ encode_size \in [GeasValue -> [Depths -> Int]]
  /\ \A v \in GeasValue, depth \in Depths :
       encode_size[v][depth] = IF depth > MaxDepth \/ ~ShapeOK(v) THEN -1
                               ELSE size_add(OwnSize(v), SizesOf(v, encode_size, depth))
PROOF
  <1> DEFINE X == [Depths -> Int]
             E(f) == [v \in GeasValue |->
                        [depth \in 1 .. MaxDepth + 1 |->
                           IF depth > MaxDepth \/ ~ShapeOK(v) THEN -1
                           ELSE size_add(2 + BodyLen(v.ty) + (IF v.ty = "String" THEN v.len ELSE 0),
                                         [i \in 1 .. Len(v.data) |-> f[v.data[i]][depth + 1]])]]
  <1>1. PICK B : B = [v \in GeasValue |-> [ws \in Seq(X) |-> [depth \in Depths |->
                        IF depth > MaxDepth \/ ~ShapeOK(v) THEN -1
                        ELSE size_add(OwnSize(v), [i \in 1 .. Len(ws) |-> ws[i][depth + 1]])]]]
    OBVIOUS
  <1>2. ASSUME NEW v \in GeasValue PROVE OwnSize(v) \in Nat
    <2>1. v.len \in Words /\ BodyLen(v.ty) \in Nat
      BY ValuesAreNodes, NodeParts, BodyFits
    <2>2. Words \subseteq Nat
      BY DEF Words
    <2>3. OwnSize(v) = 2 + BodyLen(v.ty) + v.len \/ OwnSize(v) = 2 + BodyLen(v.ty) + 0
      BY DEF OwnSize
    <2>4. PICK b : b = BodyLen(v.ty)
      OBVIOUS
    <2>5. b \in Nat /\ v.len \in Nat
      BY <2>1, <2>2, <2>4
    <2> QED
      BY <2>3, <2>4, <2>5
  <1>3. ASSUME NEW depth \in Depths, ~(depth > MaxDepth) PROVE depth + 1 \in Depths
    BY <1>3, LevelsAssumption DEF Depths
  <1>4. ASSUME NEW v \in GeasValue, NEW ws \in Seq(X), NEW depth \in Depths, ~(depth > MaxDepth)
        PROVE  size_add(OwnSize(v), [i \in 1 .. Len(ws) |-> ws[i][depth + 1]]) \in Int
    <2>1. \A i \in 1 .. Len(ws) : ws[i][depth + 1] \in Int
      BY <1>3, <1>4
    <2>2. PICK ns : ns = [i \in 1 .. Len(ws) |-> ws[i][depth + 1]]
      OBVIOUS
    <2>3. ns \in Seq(Int)
      <3>1. ns \in [1 .. Len(ws) -> Int] /\ Len(ws) \in Nat
        BY <2>1, <2>2
      <3> QED
        BY <3>1, FunctionIsSeq
    <2>4. OwnSize(v) \in Int
      BY <1>2
    <2>5. size_add(OwnSize(v), ns) \in Int
      BY <2>3, <2>4, SizeAddInt
    <2> QED
      BY <2>2, <2>5
  <1>5. B \in [GeasValue -> [Seq(X) -> X]]
    <2> SUFFICES ASSUME NEW v \in GeasValue, NEW ws \in Seq(X)
                 PROVE  B[v][ws] \in X
      BY <1>1
    <2>1. B[v][ws] = [depth \in Depths |->
                        IF depth > MaxDepth \/ ~ShapeOK(v) THEN -1
                        ELSE size_add(OwnSize(v), [i \in 1 .. Len(ws) |-> ws[i][depth + 1]])]
      BY <1>1
    <2>2. ASSUME NEW depth \in Depths
          PROVE  (IF depth > MaxDepth \/ ~ShapeOK(v) THEN -1
                  ELSE size_add(OwnSize(v), [i \in 1 .. Len(ws) |-> ws[i][depth + 1]])) \in Int
      <3>1. CASE depth > MaxDepth
        BY <3>1
      <3>2. CASE ~(depth > MaxDepth)
        BY <1>4, <3>2
      <3> QED
        BY <3>1, <3>2
    <2> QED
      BY <2>1, <2>2
  <1>6. PICK f \in [GeasValue -> X] : \A v \in GeasValue : f[v] = B[v][Parts(v, f)]
    <2> HIDE DEF X
    <2> QED
      BY <1>5, TreeRecursion
  <1>7. f = E(f)
    <2>1. ASSUME NEW v \in GeasValue
          PROVE  f[v] = [depth \in Depths |->
                           IF depth > MaxDepth \/ ~ShapeOK(v) THEN -1
                           ELSE size_add(OwnSize(v), SizesOf(v, f, depth))]
      <3>1. \A i \in 1 .. Len(v.data) : f[v.data[i]] \in X
        BY ValuesAreNodes
      <3>2. Parts(v, f) \in Seq(X) /\ Len(Parts(v, f)) = Len(v.data)
        <4> HIDE DEF X
        <4> QED
          BY <3>1, PartsIn
      <3>3. \A depth \in Depths : [i \in 1 .. Len(Parts(v, f)) |-> Parts(v, f)[i][depth + 1]]
                                    = SizesOf(v, f, depth)
        BY <3>2 DEF Parts, SizesOf
      <3> QED
        BY <1>1, <1>6, <3>2, <3>3
    <2> QED
      BY <1>6, <2>1 DEF OwnSize, SizesOf, Depths
  <1>8. encode_size = CHOOSE g : g = E(g)
    BY Zenon DEF encode_size
  <1>9. encode_size = E(encode_size)
    BY <1>7, <1>8, Zenon
  <1>10. ASSUME NEW v \in GeasValue
         PROVE  encode_size[v] = [depth \in Depths |->
                                    IF depth > MaxDepth \/ ~ShapeOK(v) THEN -1
                                    ELSE size_add(OwnSize(v), SizesOf(v, encode_size, depth))]
    BY <1>9 DEF OwnSize, SizesOf, Depths
  <1> DEFINE P == {v \in GeasValue : encode_size[v] \in X}
  <1>11. ASSUME NEW v \in GeasValue, \A i \in 1 .. Len(v.data) : v.data[i] \in P
         PROVE  v \in P
    <2>1. Parts(v, encode_size) \in Seq(X) /\ Len(Parts(v, encode_size)) = Len(v.data)
      BY <1>11, PartsIn
    <2>2. ASSUME NEW depth \in Depths, ~(depth > MaxDepth)
          PROVE  size_add(OwnSize(v), SizesOf(v, encode_size, depth)) \in Int
      <3>1. SizesOf(v, encode_size, depth)
              = [i \in 1 .. Len(Parts(v, encode_size)) |-> Parts(v, encode_size)[i][depth + 1]]
        BY <2>1 DEF Parts, SizesOf
      <3> HIDE DEF X
      <3> QED
        BY <1>4, <2>1, <2>2, <3>1
    <2>3. ASSUME NEW depth \in Depths
          PROVE  (IF depth > MaxDepth \/ ~ShapeOK(v) THEN -1
                  ELSE size_add(OwnSize(v), SizesOf(v, encode_size, depth))) \in Int
      <3>1. CASE depth > MaxDepth
        BY <3>1
      <3>2. CASE ~(depth > MaxDepth)
        BY <2>2, <3>2
      <3> QED
        BY <3>1, <3>2
    <2> QED
      BY <1>10, <2>3
  <1>12. GeasValue \subseteq P
    <2> HIDE DEF P
    <2> QED
      BY <1>11, TreeInduction
  <1> QED
    BY <1>9, <1>10, <1>12

\* A value the sizing pass lets through has the length it says.
LEMMA LengthIsLen ==
  ASSUME NEW v \in GeasValue, ShapeOK(v)
  PROVE  /\ v.len = Len(v.bytes) + Len(v.data)
         /\ v.ty = "String" => v.data = << >> /\ v.len = Len(v.bytes)
         /\ v.ty # "String" => v.bytes = << >> /\ v.len = Len(v.data)
PROOF
  <1>1. /\ v.bytes \in Seq(Cells) /\ v.data \in Seq(GeasValue) /\ UnionOK(v) /\ v.len \in Words
    BY ValuesAreNodes, NodeParts
  <1>2. Len(v.bytes) \in Nat /\ Len(v.data) \in Nat
    BY <1>1
  <1>3. v.len = Len(v.bytes) + Len(v.data)
    <2>1. CASE v.bytes = << >> /\ v.data = << >>
      <3>1. v.len = 0
        BY <2>1 DEF ShapeOK
      <3> QED
        BY <2>1, <3>1
    <2>2. CASE ~(v.bytes = << >> /\ v.data = << >>)
      BY <1>1, <2>2 DEF UnionOK
    <2> QED
      BY <2>1, <2>2
  <1>4. v.ty = "String" => v.data = << >>
    BY <1>1 DEF UnionOK, Listed, Fielded, Boxes
  <1>5. v.ty # "String" => v.bytes = << >>
    BY <1>1 DEF UnionOK
  <1>6. v.ty = "String" => v.len = Len(v.bytes)
    <2> SUFFICES ASSUME v.ty = "String" PROVE v.len = Len(v.bytes)
      OBVIOUS
    <2>1. Len(v.data) = 0
      BY <1>4
    <2> QED
      BY <1>2, <1>3, <2>1
  <1>7. v.ty # "String" => v.len = Len(v.data)
    <2> SUFFICES ASSUME v.ty # "String" PROVE v.len = Len(v.data)
      OBVIOUS
    <2>1. Len(v.bytes) = 0
      BY <1>5
    <2> QED
      BY <1>2, <1>3, <2>1
  <1> QED
    BY <1>3, <1>4, <1>5, <1>6, <1>7

\* The sizing pass measures what the write pass writes, and refuses a value for its
\* depth, its shape or one of its elements.
LEMMA SizeIsLength ==
  \A v \in GeasValue, depth \in Depths :
    encode_size[v][depth] =
      IF \/ depth > MaxDepth \/ ~ShapeOK(v)
         \/ \E i \in 1 .. Len(v.data) : encode_size[v.data[i]][depth + 1] = -1
      THEN -1 ELSE Len(encode_write[v])
PROOF
  <1> DEFINE P == {v \in GeasValue : \A depth \in Depths :
                     encode_size[v][depth] = -1 \/ encode_size[v][depth] = Len(encode_write[v])}
  <1>1. ASSUME NEW v \in GeasValue, \A i \in 1 .. Len(v.data) : v.data[i] \in P,
               NEW depth \in Depths, ~(depth > MaxDepth), ShapeOK(v)
        PROVE  encode_size[v][depth] =
                 IF \E i \in 1 .. Len(v.data) : encode_size[v.data[i]][depth + 1] = -1
                 THEN -1 ELSE Len(encode_write[v])
    <2>1. PICK gs : gs = Parts(v, encode_write)
      OBVIOUS
    <2>2. gs \in Seq(Seq(Cells)) /\ Len(gs) = Len(v.data) /\ Len(v.data) \in Nat
      <3>1. \A i \in 1 .. Len(v.data) : encode_write[v.data[i]] \in Seq(Cells)
        BY ValuesAreNodes, WriteUnfolds
      <3> QED
        BY <2>1, <3>1, PartsIn, ValuesAreNodes
    <2>3. PICK ns : ns = SizesOf(v, encode_size, depth)
      OBVIOUS
    <2>4. depth + 1 \in Depths
      BY <1>1, LevelsAssumption DEF Depths
    <2>5. \A i \in 1 .. Len(gs) : /\ ns[i] = encode_size[v.data[i]][depth + 1]
                                  /\ gs[i] = encode_write[v.data[i]]
      BY <2>1, <2>2, <2>3 DEF Parts, SizesOf
    <2>6. \A i \in 1 .. Len(gs) : ns[i] = -1 \/ ns[i] = Len(gs[i])
      BY <1>1, <2>2, <2>4, <2>5
    <2>7. Len(ns) = Len(gs)
      BY <2>2, <2>3 DEF SizesOf
    <2>8. OwnSize(v) = Len(HeadOf(v)) /\ HeadOf(v) \in Seq(Cells) /\ Len(HeadOf(v)) \in Nat
      <3>1. Len(HeadOf(v)) = 2 + BodyLen(v.ty) + Len(v.bytes) /\ HeadOf(v) \in Seq(Cells)
        BY HeadFits
      <3>2. (IF v.ty = "String" THEN v.len ELSE 0) = Len(v.bytes)
        <4>1. v.ty = "String" => v.len = Len(v.bytes)
          BY <1>1, LengthIsLen
        <4>2. v.ty # "String" => Len(v.bytes) = 0
          <5>1. v.ty # "String" => v.bytes = << >>
            BY <1>1, LengthIsLen
          <5> QED
            BY <5>1
        <4> QED
          BY <4>1, <4>2
      <3> QED
        BY <3>1, <3>2 DEF OwnSize
    <2>9. size_add(OwnSize(v), ns) =
            IF \E i \in 1 .. Len(gs) : ns[i] = -1 THEN -1 ELSE OwnSize(v) + Len(FlattenSeq(gs))
      BY <2>2, <2>6, <2>7, <2>8, SizeAdds
    <2>10. Len(encode_write[v]) = OwnSize(v) + Len(FlattenSeq(gs))
      <3>1. FlattenSeq(gs) \in Seq(Cells) /\ encode_write[v] = HeadOf(v) \o FlattenSeq(gs)
        BY <2>1, <2>2, FlattenCells, WriteUnfolds
      <3> QED
        BY <2>8, <3>1, ConcatAt
    <2>11. encode_size[v][depth] = size_add(OwnSize(v), ns)
      BY <1>1, <2>3, SizeUnfolds
    <2>12. (\E i \in 1 .. Len(gs) : ns[i] = -1)
             <=> \E i \in 1 .. Len(v.data) : encode_size[v.data[i]][depth + 1] = -1
      BY <2>2, <2>5
    <2> QED
      BY <2>9, <2>10, <2>11, <2>12
  <1>2. ASSUME NEW v \in GeasValue, \A i \in 1 .. Len(v.data) : v.data[i] \in P
        PROVE  v \in P
    <2> SUFFICES ASSUME NEW depth \in Depths
                 PROVE  encode_size[v][depth] = -1 \/ encode_size[v][depth] = Len(encode_write[v])
      OBVIOUS
    <2>1. CASE depth > MaxDepth \/ ~ShapeOK(v)
      BY <2>1, SizeUnfolds
    <2>2. CASE ~(depth > MaxDepth \/ ~ShapeOK(v))
      <3> HIDE DEF P
      <3> QED
        BY <1>1, <1>2, <2>2
    <2> QED
      BY <2>1, <2>2
  <1>3. GeasValue \subseteq P
    <2> HIDE DEF P
    <2> QED
      BY <1>2, TreeInduction
  <1>4. ASSUME NEW v \in GeasValue, NEW depth \in Depths
        PROVE  encode_size[v][depth] =
                 IF \/ depth > MaxDepth \/ ~ShapeOK(v)
                    \/ \E i \in 1 .. Len(v.data) : encode_size[v.data[i]][depth + 1] = -1
                 THEN -1 ELSE Len(encode_write[v])
    <2>1. CASE depth > MaxDepth \/ ~ShapeOK(v)
      BY <2>1, SizeUnfolds
    <2>2. CASE ~(depth > MaxDepth \/ ~ShapeOK(v))
      <3>1. \A i \in 1 .. Len(v.data) : v.data[i] \in P
        <4> HIDE DEF P
        <4> QED
          BY <1>3, ValuesAreNodes
      <3> HIDE DEF P
      <3> QED
        BY <1>1, <2>2, <3>1
    <2> QED
      BY <2>1, <2>2
  <1> QED
    BY <1>4

\* Distinct keys at every level.
KeysApart(v) ==
  v.ty = "Map" => \A i, j \in DOMAIN v.data :
                    i % 2 = 1 /\ j % 2 = 1 /\ i # j => v.data[i] # v.data[j]

LEMMA DistinctUnfolds ==
  \A v \in GeasValue :
    KeysDistinct[v] = (KeysApart(v) /\ \A i \in DOMAIN v.data : KeysDistinct[v.data[i]])
PROOF
  <1> DEFINE E(f) == [v \in GeasValue |->
                        /\ v.ty = "Map" => \A i, j \in DOMAIN v.data :
                                             i % 2 = 1 /\ j % 2 = 1 /\ i # j => v.data[i] # v.data[j]
                        /\ \A i \in DOMAIN v.data : f[v.data[i]]]
  <1>1. PICK B : B = [v \in GeasValue |-> [bs \in Seq(BOOLEAN) |->
                        KeysApart(v) /\ \A i \in DOMAIN bs : bs[i]]]
    OBVIOUS
  <1>2. B \in [GeasValue -> [Seq(BOOLEAN) -> BOOLEAN]]
    BY <1>1
  <1>3. PICK f \in [GeasValue -> BOOLEAN] : \A v \in GeasValue : f[v] = B[v][Parts(v, f)]
    BY <1>2, TreeRecursion
  <1>4. f = E(f)
    <2>1. ASSUME NEW v \in GeasValue
          PROVE  f[v] = (KeysApart(v) /\ \A i \in DOMAIN v.data : f[v.data[i]])
      <3>1. \A i \in 1 .. Len(v.data) : f[v.data[i]] \in BOOLEAN
        BY ValuesAreNodes
      <3>2. Parts(v, f) \in Seq(BOOLEAN) /\ DOMAIN Parts(v, f) = 1 .. Len(v.data)
        BY <3>1, PartsIn DEF Parts
      <3>3. DOMAIN v.data = 1 .. Len(v.data)
        BY ValuesAreNodes
      <3>4. f[v] = (KeysApart(v) /\ \A i \in DOMAIN Parts(v, f) : Parts(v, f)[i])
        BY <1>1, <1>3, <3>2
      <3> QED
        BY <3>2, <3>3, <3>4 DEF Parts
    <2> QED
      BY <1>3, <2>1 DEF KeysApart
  <1>5. KeysDistinct = CHOOSE g : g = E(g)
    BY Zenon DEF KeysDistinct
  <1>6. KeysDistinct = E(KeysDistinct)
    BY <1>4, <1>5, Zenon
  <1> QED
    BY <1>6 DEF KeysApart

-----------------------------------------------------------------------------
(* Cells in a stream.                                                       *)

\* w stands in s behind the first at cells.
Match(s, at, w) ==
  /\ at + Len(w) <= Len(s)
  /\ \A j \in 1 .. Len(w) : s[at + j] = w[j]

LEMMA MatchConcat ==
  ASSUME NEW T, NEW s \in Seq(T), NEW at \in Nat, NEW u \in Seq(T), NEW w \in Seq(T)
  PROVE  Match(s, at, u \o w) <=> Match(s, at, u) /\ Match(s, at + Len(u), w)
PROOF
  <1>1. PICK x : x = u \o w
    OBVIOUS
  <1>2. PICK m \in Nat, n \in Nat, k \in Nat : m = Len(u) /\ n = Len(w) /\ k = Len(s)
    OBVIOUS
  <1>3. /\ Len(x) = m + n /\ \A i \in 1 .. m : x[i] = u[i]
        /\ \A i \in 1 .. n : x[m + i] = w[i]
    BY <1>1, <1>2, ConcatAt
  <1>4. ASSUME Match(s, at, x) PROVE Match(s, at, u) /\ Match(s, at + m, w)
    <2>1. at + (m + n) <= k /\ \A j \in 1 .. (m + n) : s[at + j] = x[j]
      BY <1>2, <1>3, <1>4 DEF Match
    <2>2. \A j \in 1 .. m : s[at + j] = u[j]
      BY <1>3, <2>1
    <2>3. ASSUME NEW j \in 1 .. n PROVE s[(at + m) + j] = w[j]
      <3>1. PICK i : i = m + j
        OBVIOUS
      <3>2. i \in 1 .. (m + n) /\ at + i = (at + m) + j
        BY <3>1
      <3> QED
        BY <1>3, <2>1, <3>1, <3>2
    <2> QED
      BY <1>2, <2>1, <2>2, <2>3 DEF Match
  <1>5. ASSUME Match(s, at, u), Match(s, at + m, w) PROVE Match(s, at, x)
    <2>1. /\ at + m <= k /\ \A j \in 1 .. m : s[at + j] = u[j]
          /\ (at + m) + n <= k /\ \A j \in 1 .. n : s[(at + m) + j] = w[j]
      BY <1>2, <1>5 DEF Match
    <2>2. ASSUME NEW j \in 1 .. (m + n) PROVE s[at + j] = x[j]
      <3>1. CASE j <= m
        BY <1>3, <2>1, <3>1
      <3>2. CASE j > m
        <4>1. PICK i : i = j - m
          OBVIOUS
        <4>2. i \in 1 .. n /\ (at + m) + i = at + j /\ m + i = j
          BY <3>2, <4>1
        <4> QED
          BY <1>3, <2>1, <4>2
      <3> QED
        BY <3>1, <3>2
    <2> QED
      BY <1>2, <1>3, <2>1, <2>2 DEF Match
  <1> QED
    BY <1>1, <1>2, <1>4, <1>5

-----------------------------------------------------------------------------
(* The passes of the decoder.                                               *)

\* The decoder at every depth and place of a stream.
Decoders(s) ==
  CHOOSE dec : dec = [depth \in 1 .. MaxDepth + 1 |->
                        [at \in 0 .. Len(s) |->
                           IF depth > MaxDepth THEN Refused
                           ELSE decode_value(s, at, dec[depth + 1])]]

LEMMA DecodeUnfolds ==
  ASSUME NEW s
  PROVE  /\ decode_rec(s) = Decoders(s)[1][0]
         /\ \A at \in 0 .. Len(s) : Decoders(s)[MaxDepth + 1][at] = Refused
         /\ \A depth \in 1 .. MaxDepth, at \in 0 .. Len(s) :
              Decoders(s)[depth][at] = decode_value(s, at, Decoders(s)[depth + 1])
PROOF
  <1> DEFINE Row(depth, f) == [at \in 0 .. Len(s) |->
                                 IF depth > MaxDepth THEN Refused
                                 ELSE decode_value(s, at, f[depth + 1])]
  <1>1. PICK m \in Nat : m = MaxDepth
    BY LevelsAssumption
  <1> DEFINE R(f, k) == \A depth \in ((m + 1) - k) .. (m + 1) : f[depth] = Row(depth, f)
             S == {k \in 0 .. m : \E f : R(f, k)}
  <1>2. 0 \in S
    <2>1. PICK f : f = [depth \in (m + 1) .. (m + 1) |-> [at \in 0 .. Len(s) |-> Refused]]
      OBVIOUS
    <2>2. R(f, 0)
      BY <1>1, <2>1
    <2> QED
      BY <2>2
  <1>3. \A k \in 0 .. (m - 1) : k \in S => k + 1 \in S
    <2> HIDE DEF R
    <2> SUFFICES ASSUME NEW k \in 0 .. (m - 1), NEW f, R(f, k) PROVE k + 1 \in S
      OBVIOUS
    <2> USE DEF R
    <2>1. PICK d : d = (m + 1) - (k + 1)
      OBVIOUS
    <2>2. d \in 1 .. m /\ d + 1 = (m + 1) - k /\ k + 1 \in 0 .. m
      BY <2>1
    <2>3. PICK g : g = [j \in d .. (m + 1) |-> IF j = d THEN Row(d, f) ELSE f[j]]
      OBVIOUS
    <2>4. ASSUME NEW j \in d .. (m + 1) PROVE g[j] = Row(j, g)
      <3>1. j + 1 \in (d + 1) .. (m + 1) => g[j + 1] = f[j + 1]
        BY <2>2, <2>3
      <3>2. j <= m => j + 1 \in (d + 1) .. (m + 1)
        BY <2>2
      <3>3. Row(j, g) = Row(j, f)
        <4>1. CASE j > MaxDepth
          BY <4>1
        <4>2. CASE ~(j > MaxDepth)
          BY <1>1, <2>2, <3>1, <3>2, <4>2
        <4> QED
          BY <4>1, <4>2
      <3>4. CASE j = d
        <4> HIDE DEF Row
        <4> QED
          BY <2>2, <2>3, <3>3, <3>4
      <3>5. CASE j # d
        <4>1. j \in ((m + 1) - k) .. (m + 1)
          BY <2>2, <3>5
        <4> HIDE DEF Row
        <4> QED
          BY <2>3, <3>3, <3>5, <4>1
      <3> QED
        BY <3>4, <3>5
    <2>5. R(g, k + 1)
      <3> HIDE DEF Row
      <3> QED
        BY <2>1, <2>4
    <2> QED
      <3> HIDE DEF R
      <3> QED
        BY <2>2, <2>5
  <1>4. PICK f : R(f, m)
    <2>1. 0 .. m \subseteq S
      <3> HIDE DEF S
      <3> QED
        BY <1>2, <1>3, InductUpTo
    <2> HIDE DEF R
    <2> QED
      BY <2>1
  <1> DEFINE E(h) == [depth \in 1 .. MaxDepth + 1 |->
                        [at \in 0 .. Len(s) |->
                           IF depth > MaxDepth THEN Refused
                           ELSE decode_value(s, at, h[depth + 1])]]
  <1>5. PICK g : g = [depth \in 1 .. (m + 1) |-> f[depth]]
    OBVIOUS
  <1>6. g = E(g)
    <2>1. ASSUME NEW depth \in 1 .. (m + 1) PROVE g[depth] = Row(depth, g)
      <3>1. depth <= m => g[depth + 1] = f[depth + 1]
        BY <1>5
      <3>2. Row(depth, g) = Row(depth, f)
        <4>1. CASE depth > MaxDepth
          BY <4>1
        <4>2. CASE ~(depth > MaxDepth)
          BY <1>1, <3>1, <4>2
        <4> QED
          BY <4>1, <4>2
      <3>3. depth \in ((m + 1) - m) .. (m + 1)
        OBVIOUS
      <3> HIDE DEF Row
      <3> QED
        BY <1>4, <1>5, <3>2, <3>3
    <2> QED
      BY <1>1, <1>5, <2>1
  <1>7. PICK p : p = CHOOSE h : h = E(h)
    OBVIOUS
  <1>8. p = E(p)
    BY <1>6, <1>7, Zenon
  <1>9. Decoders(s) = p
    BY <1>7, Zenon DEF Decoders
  <1>10. decode_rec(s) = p[1][0]
    BY <1>7, Zenon DEF decode_rec
  <1>11. ASSUME NEW depth \in 1 .. (m + 1) PROVE p[depth] = Row(depth, p)
    BY <1>1, <1>8, <1>11
  <1>12. ASSUME NEW at \in 0 .. Len(s) PROVE p[MaxDepth + 1][at] = Refused
    <2>1. m + 1 \in 1 .. (m + 1) /\ m + 1 > m
      OBVIOUS
    <2>2. p[m + 1] = Row(m + 1, p)
      <3> HIDE DEF Row
      <3> QED
        BY <1>11, <2>1
    <2> QED
      BY <1>1, <2>1, <2>2
  <1>13. ASSUME NEW depth \in 1 .. MaxDepth, NEW at \in 0 .. Len(s)
         PROVE  p[depth][at] = decode_value(s, at, p[depth + 1])
    <2>1. depth \in 1 .. (m + 1) /\ ~(depth > MaxDepth)
      BY <1>1
    <2>2. p[depth] = Row(depth, p)
      <3> HIDE DEF Row
      <3> QED
        BY <1>11, <2>1
    <2> QED
      BY <2>1, <2>2
  <1> QED
    BY <1>9, <1>10, <1>12, <1>13

\* The elements are taken one after the other.
LEMMA AllRuns ==
  ASSUME NEW inner, NEW from, NEW count \in Nat, NEW ty, NEW el
  PROVE  \E p : /\ p[0] = [ok |-> TRUE, vs |-> << >>, at |-> from]
                /\ \A i \in 1 .. count : p[i] = decode_next(inner, ty, el, i, p[i - 1])
                /\ decode_all(inner, from, count, ty, el) = p[count]
PROOF
  <1> DEFINE c == [ok |-> TRUE, vs |-> << >>, at |-> from]
             Turn(i, acc) == decode_next(inner, ty, el, i, acc)
             R(f, k) == f[0] = c /\ \A i \in 1 .. k : f[i] = Turn(i, f[i - 1])
             S == {k \in 0 .. count : \E f : R(f, k)}
             E(h) == [i \in 0 .. count |-> IF i = 0 THEN c ELSE Turn(i, h[i - 1])]
  <1>1. 0 \in S
    <2>1. PICK f : f = [i \in 0 .. 0 |-> c]
      OBVIOUS
    <2> HIDE DEF c, Turn
    <2>2. R(f, 0)
      BY <2>1
    <2> QED
      BY <2>2
  <1>2. \A k \in 0 .. (count - 1) : k \in S => k + 1 \in S
    <2> HIDE DEF c, Turn
    <2> SUFFICES ASSUME NEW k \in 0 .. (count - 1), NEW f, R(f, k) PROVE k + 1 \in S
      OBVIOUS
    <2>1. PICK g : g = [i \in 0 .. (k + 1) |-> IF i <= k THEN f[i] ELSE Turn(k + 1, f[k])]
      OBVIOUS
    <2>2. k \in Nat /\ k + 1 \in 0 .. count
      OBVIOUS
    <2>3. g[0] = c
      BY <2>1, <2>2
    <2>4. ASSUME NEW i \in 1 .. (k + 1) PROVE g[i] = Turn(i, g[i - 1])
      <3>1. g[i - 1] = f[i - 1]
        BY <2>1, <2>2
      <3>2. CASE i <= k
        BY <2>1, <2>2, <3>1, <3>2
      <3>3. CASE i = k + 1
        BY <2>1, <2>2, <3>1, <3>3
      <3> QED
        BY <2>2, <3>2, <3>3
    <2> QED
      BY <2>2, <2>3, <2>4
  <1>3. PICK f : R(f, count)
    <2>1. 0 .. count \subseteq S
      <3> HIDE DEF S
      <3> QED
        BY <1>1, <1>2, InductUpTo
    <2> HIDE DEF R
    <2> QED
      BY <2>1
  <1>4. PICK g : g = [i \in 0 .. count |-> f[i]]
    OBVIOUS
  <1>5. g = E(g)
    <2> HIDE DEF c, Turn
    <2>1. ASSUME NEW i \in 0 .. count PROVE g[i] = IF i = 0 THEN c ELSE Turn(i, g[i - 1])
      <3>1. CASE i = 0
        BY <1>3, <1>4, <3>1
      <3>2. CASE i # 0
        <4>1. i \in 1 .. count /\ g[i - 1] = f[i - 1]
          BY <1>4, <3>2
        <4> QED
          BY <1>3, <1>4, <3>2, <4>1
      <3> QED
        BY <3>1, <3>2
    <2> QED
      BY <1>4, <2>1
  <1>6. PICK p : p = CHOOSE h : h = E(h)
    OBVIOUS
  <1>7. p = E(p)
    BY <1>5, <1>6, Zenon
  <1>8. decode_all(inner, from, count, ty, el) = p[count]
    BY <1>6, Zenon DEF decode_all
  <1>9. p[0] = c /\ \A i \in 1 .. count : p[i] = Turn(i, p[i - 1])
    <2> HIDE DEF c, Turn
    <2>1. p[0] = c
      BY <1>7
    <2>2. ASSUME NEW i \in 1 .. count PROVE p[i] = Turn(i, p[i - 1])
      <3>1. i \in 0 .. count /\ i # 0
        OBVIOUS
      <3> QED
        BY <1>7, <3>1
    <2> QED
      BY <2>1, <2>2
  <1> QED
    BY <1>8, <1>9

-----------------------------------------------------------------------------
(* What was written is read back.                                           *)

\* What is laid in a stream has each of its parts at its place.
LEMMA LaidMatches ==
  ASSUME NEW T, NEW s \in Seq(T), NEW gs \in Seq(Seq(T)), NEW f, Laid(gs, T, f),
         NEW from \in Nat, Match(s, from, f[Len(gs)])
  PROVE  \A k \in 0 .. (Len(gs) - 1) : Match(s, from + Len(f[k]), gs[k + 1])
PROOF
  <1>1. PICK n \in Nat : n = Len(gs)
    OBVIOUS
  <1> DEFINE S == {i \in 0 .. n : Match(s, from, f[n - i])}
  <1>2. 0 \in S
    BY <1>1
  <1>3. \A i \in 0 .. (n - 1) : i \in S => i + 1 \in S
    <2> SUFFICES ASSUME NEW i \in 0 .. (n - 1), Match(s, from, f[n - i])
                 PROVE  Match(s, from, f[n - (i + 1)])
      BY <1>1
    <2>1. PICK k : k = n - (i + 1)
      OBVIOUS
    <2>2. k \in 0 .. (n - 1) /\ k + 1 = n - i
      BY <1>1, <2>1
    <2>3. f[k] \in Seq(T) /\ gs[k + 1] \in Seq(T) /\ f[k + 1] = f[k] \o gs[k + 1]
      BY <1>1, <2>2, LaidStep
    <2>4. Match(s, from, f[k] \o gs[k + 1])
      BY <2>2, <2>3
    <2> QED
      BY <2>1, <2>3, <2>4, MatchConcat
  <1>4. 0 .. n \subseteq S
    <2> HIDE DEF S
    <2> QED
      BY <1>1, <1>2, <1>3, InductUpTo
  <1>5. ASSUME NEW k \in 0 .. (n - 1) PROVE Match(s, from + Len(f[k]), gs[k + 1])
    <2>1. f[k] \in Seq(T) /\ gs[k + 1] \in Seq(T) /\ f[k + 1] = f[k] \o gs[k + 1]
      BY <1>1, LaidStep
    <2>2. PICK i : i = n - (k + 1)
      OBVIOUS
    <2>3. i \in 0 .. n /\ n - i = k + 1
      BY <1>1, <2>2
    <2>4. Match(s, from, f[k] \o gs[k + 1])
      BY <1>4, <2>1, <2>3
    <2> QED
      BY <2>1, <2>4, MatchConcat
  <1> QED
    BY <1>1, <1>5

\* What the decoder one level down has to do for the elements of v.
ReadsBack(inner, s, v) ==
  \A i \in 1 .. Len(v.data), at \in 0 .. Len(s) :
    Match(s, at, encode_write[v.data[i]]) =>
      inner[at] = IF KeysDistinct[v.data[i]]
                  THEN Got(v.data[i], at + Len(encode_write[v.data[i]])) ELSE Refused

\* The elements come back one after the other, up to the first key that repeats.
LEMMA AllBack ==
  ASSUME NEW s \in Seq(Cells), NEW v \in GeasValue, ShapeOK(v), NEW from \in 0 .. Len(s),
         NEW inner, ReadsBack(inner, s, v), Match(s, from, FlattenSeq(Parts(v, encode_write))),
         NEW end, end = decode_all(inner, from, Len(v.data), v.ty, v.elem_ty)
  PROVE  IF KeysDistinct[v]
         THEN end = [ok |-> TRUE, vs |-> v.data,
                     at |-> from + Len(FlattenSeq(Parts(v, encode_write)))]
         ELSE end.ok = FALSE
PROOF
  <1>1. PICK gs : gs = Parts(v, encode_write)
    OBVIOUS
  <1>2. PICK n \in Nat : n = Len(v.data)
    BY ValuesAreNodes
  <1>3. /\ v.data \in Seq(GeasValue) /\ DOMAIN v.data = 1 .. n
        /\ \A i \in 1 .. n : v.data[i] \in GeasValue
        /\ from \in Nat /\ Len(s) \in Nat
    BY <1>2, ValuesAreNodes
  <1>4. gs \in Seq(Seq(Cells)) /\ Len(gs) = n /\ \A i \in 1 .. n : gs[i] = encode_write[v.data[i]]
    <2>1. \A i \in 1 .. Len(v.data) : encode_write[v.data[i]] \in Seq(Cells)
      BY <1>2, <1>3, WriteUnfolds
    <2>2. gs \in Seq(Seq(Cells)) /\ Len(gs) = n
      BY <1>1, <1>2, <2>1, PartsIn
    <2> QED
      BY <1>1, <1>2, <2>2 DEF Parts
  <1>5. PICK f : Laid(gs, Cells, f)
    BY <1>4, LaidExists
  <1>6. FlattenSeq(gs) = f[n]
    BY <1>4, <1>5, FlattenIsLaid
  <1>7. \A k \in 0 .. (n - 1) : Match(s, from + Len(f[k]), gs[k + 1])
    BY <1>1, <1>3, <1>4, <1>5, <1>6, LaidMatches
  <1>8. PICK p : /\ p[0] = [ok |-> TRUE, vs |-> << >>, at |-> from]
                 /\ \A i \in 1 .. n : p[i] = decode_next(inner, v.ty, v.elem_ty, i, p[i - 1])
                 /\ end = p[n]
    BY <1>2, AllRuns
  <1> DEFINE Apart(k) == v.ty = "Map" => \A i, j \in 1 .. k :
                           i % 2 = 1 /\ j % 2 = 1 /\ i # j => v.data[i] # v.data[j]
             Good(k) == Apart(k) /\ \A i \in 1 .. k : KeysDistinct[v.data[i]]
             Here(k) == IF Good(k)
                        THEN p[k] = [ok |-> TRUE, vs |-> SubSeq(v.data, 1, k), at |-> from + Len(f[k])]
                        ELSE p[k] = [ok |-> FALSE, vs |-> p[k].vs, at |-> p[k].at]
             S == {k \in 0 .. n : Here(k)}
  <1>9. 0 \in S
    <2>1. f[0] = << >>
      BY <1>5 DEF Laid
    <2>2. SubSeq(v.data, 1, 0) = << >>
      BY <1>3
    <2>3. Good(0)
      OBVIOUS
    <2>4. p[0] = [ok |-> TRUE, vs |-> SubSeq(v.data, 1, 0), at |-> from + Len(f[0])]
      <3>1. Len(f[0]) = 0
        BY <2>1
      <3>2. from + Len(f[0]) = from
        BY <1>3, <3>1
      <3> QED
        BY <1>8, <2>2, <3>2
    <2> HIDE DEF Good
    <2> QED
      BY <2>3, <2>4
  <1>10. \A k \in 0 .. (n - 1) : k \in S => k + 1 \in S
    <2> HIDE DEF Here, Good, Apart
    <2> SUFFICES ASSUME NEW k \in 0 .. (n - 1), Here(k) PROVE Here(k + 1)
      OBVIOUS
    <2>1. k \in Nat /\ k + 1 \in 1 .. n /\ (k + 1) - 1 = k /\ k < n
      OBVIOUS
    <2>2. PICK x : x = v.data[k + 1]
      OBVIOUS
    <2>3. p[k + 1] = decode_next(inner, v.ty, v.elem_ty, k + 1, p[k])
      BY <1>8, <2>1
    <2>4. Good(k + 1) <=> /\ Good(k) /\ KeysDistinct[x]
                          /\ v.ty = "Map" /\ (k + 1) % 2 = 1 =>
                               \A j \in 1 .. k : j % 2 = 1 => v.data[j] # x
      <3>1. 1 .. (k + 1) = (1 .. k) \cup {k + 1} /\ k + 1 \notin 1 .. k
        BY <2>1
      <3>2. Apart(k + 1) <=> /\ Apart(k)
                             /\ v.ty = "Map" /\ (k + 1) % 2 = 1 =>
                                  \A j \in 1 .. k : j % 2 = 1 => v.data[j] # x
        BY <2>2, <3>1, Zenon DEF Apart
      <3>3. (\A i \in 1 .. (k + 1) : KeysDistinct[v.data[i]])
              <=> (\A i \in 1 .. k : KeysDistinct[v.data[i]]) /\ KeysDistinct[x]
        BY <2>2, <3>1, Zenon
      <3> QED
        BY <3>2, <3>3 DEF Good
    <2>5. CASE ~Good(k)
      <3>1. ~Good(k + 1)
        BY <2>4, <2>5
      <3>2. p[k] = [ok |-> FALSE, vs |-> p[k].vs, at |-> p[k].at]
        BY <2>5 DEF Here
      <3>3. p[k + 1] = [p[k] EXCEPT !.ok = FALSE]
        BY <2>3, <3>2 DEF decode_next
      <3>4. p[k + 1] = [ok |-> FALSE, vs |-> p[k + 1].vs, at |-> p[k + 1].at]
        BY <3>2, <3>3
      <3> QED
        BY <3>1, <3>4 DEF Here
    <2>6. CASE Good(k)
      <3>1. PICK at : at = from + Len(f[k])
        OBVIOUS
      <3>2. PICK vs : vs = SubSeq(v.data, 1, k)
        OBVIOUS
      <3>3. p[k] = [ok |-> TRUE, vs |-> vs, at |-> at]
        BY <2>6, <3>1, <3>2 DEF Here
      <3>4. vs \in Seq(GeasValue) /\ Len(vs) = k /\ DOMAIN vs = 1 .. k
            /\ \A j \in 1 .. k : vs[j] = v.data[j]
        BY <1>2, <1>3, <2>1, <3>2
      <3>5. /\ f[k] \in Seq(Cells) /\ gs[k + 1] \in Seq(Cells)
            /\ f[k + 1] = f[k] \o gs[k + 1]
            /\ Len(f[k]) \in Nat /\ Len(gs[k + 1]) \in Nat
            /\ Len(f[k + 1]) = Len(f[k]) + Len(gs[k + 1])
        <4>1. f[k] \in Seq(Cells) /\ gs[k + 1] \in Seq(Cells) /\ f[k + 1] = f[k] \o gs[k + 1]
          <5>1. k \in 0 .. (Len(gs) - 1)
            BY <1>4
          <5> QED
            BY <1>4, <1>5, <5>1, LaidStep
        <4> QED
          BY <4>1, ConcatAt
      <3>6. Match(s, at, gs[k + 1]) /\ gs[k + 1] = encode_write[x] /\ at \in 0 .. Len(s)
        <4>1. Match(s, at, gs[k + 1]) /\ gs[k + 1] = encode_write[x]
          BY <1>4, <1>7, <2>1, <2>2, <3>1
        <4>2. at + Len(gs[k + 1]) <= Len(s) /\ at \in Nat /\ Len(s) \in Nat
          BY <1>3, <3>1, <3>5, <4>1 DEF Match
        <4> QED
          BY <3>5, <4>1, <4>2
      <3>7. inner[at] = IF KeysDistinct[x] THEN Got(x, at + Len(gs[k + 1])) ELSE Refused
        BY <1>2, <2>1, <2>2, <3>6 DEF ReadsBack
      <3>8. CASE ~KeysDistinct[x]
        <4>1. ~Good(k + 1)
          BY <2>4, <3>8
        <4>2. inner[at].ok = FALSE
          BY <3>7, <3>8 DEF Refused
        <4>3. p[k + 1] = [p[k] EXCEPT !.ok = FALSE]
          BY <2>3, <3>3, <4>2 DEF decode_next
        <4>4. p[k + 1] = [ok |-> FALSE, vs |-> p[k + 1].vs, at |-> p[k + 1].at]
          BY <3>3, <4>3
        <4> QED
          BY <4>1, <4>4 DEF Here
      <3>9. CASE KeysDistinct[x]
        <4>1. inner[at] = [ok |-> TRUE, v |-> x, at |-> at + Len(gs[k + 1])]
          BY <3>7, <3>9 DEF Got
        <4>2. element_fits(v.ty, k + 1, v.elem_ty, x.ty)
          BY <1>3, <2>1, <2>2 DEF ShapeOK, ElementsFit, element_fits
        <4> DEFINE fresh == v.ty = "Map" /\ (k + 1) % 2 = 1 => keys_distinct(vs, x)
        <4>3. fresh <=> (v.ty = "Map" /\ (k + 1) % 2 = 1 =>
                           \A j \in 1 .. k : j % 2 = 1 => v.data[j] # x)
          BY <3>4 DEF keys_distinct
        <4>4. Good(k + 1) <=> fresh
          BY <2>4, <2>6, <3>9, <4>3
        <4>5. p[k + 1] = IF fresh THEN [ok |-> TRUE, vs |-> Append(vs, x), at |-> at + Len(gs[k + 1])]
                         ELSE [p[k] EXCEPT !.ok = FALSE]
          <5>1. p[k].ok = TRUE /\ p[k].vs = vs /\ p[k].at = at
            BY <3>3
          <5>2. inner[at].ok = TRUE /\ inner[at].v = x /\ inner[at].at = at + Len(gs[k + 1])
            BY <4>1
          <5>3. fresh <=> (v.ty = "Map" /\ (k + 1) % 2 = 1 => keys_distinct(vs, x))
            OBVIOUS
          <5> HIDE DEF fresh
          <5> QED
            BY <2>3, <4>2, <5>1, <5>2, <5>3 DEF decode_next
        <4> HIDE DEF fresh
        <4>6. CASE fresh
          <5>1. Append(vs, x) = SubSeq(v.data, 1, k + 1)
            BY <1>2, <1>3, <2>1, <2>2, <3>2
          <5>2. at + Len(gs[k + 1]) = from + Len(f[k + 1])
            <6>1. PICK a, b : a = Len(f[k]) /\ b = Len(gs[k + 1])
              OBVIOUS
            <6>2. a \in Nat /\ b \in Nat /\ at = from + a /\ Len(f[k + 1]) = a + b
              BY <3>1, <3>5, <6>1
            <6>3. at + b = from + (a + b)
              BY <1>3, <6>2
            <6> QED
              BY <6>1, <6>2, <6>3
          <5> QED
            BY <4>4, <4>5, <4>6, <5>1, <5>2 DEF Here
        <4>7. CASE ~fresh
          <5>1. p[k + 1] = [p[k] EXCEPT !.ok = FALSE]
            BY <4>5, <4>7
          <5>2. p[k + 1] = [ok |-> FALSE, vs |-> p[k + 1].vs, at |-> p[k + 1].at]
            BY <3>3, <5>1
          <5> QED
            BY <4>4, <4>7, <5>2 DEF Here
        <4> QED
          BY <4>6, <4>7
      <3> QED
        BY <3>8, <3>9
    <2> QED
      BY <2>5, <2>6
  <1>11. Here(n)
    <2>1. 0 .. n \subseteq S
      <3> HIDE DEF S
      <3> QED
        BY <1>9, <1>10, InductUpTo
    <2> HIDE DEF Here
    <2> QED
      BY <2>1
  <1>12. Good(n) <=> KeysDistinct[v]
    BY <1>3, DistinctUnfolds DEF KeysApart
  <1>13. SubSeq(v.data, 1, n) = v.data
    BY <1>2, <1>3
  <1> HIDE DEF Good
  <1>14. CASE KeysDistinct[v]
    <2>1. p[n] = [ok |-> TRUE, vs |-> v.data, at |-> from + Len(f[n])]
      BY <1>11, <1>12, <1>13, <1>14
    <2> QED
      BY <1>1, <1>6, <1>8, <1>14, <2>1
  <1>15. CASE ~KeysDistinct[v]
    <2>1. p[n] = [ok |-> FALSE, vs |-> p[n].vs, at |-> p[n].at]
      BY <1>11, <1>12, <1>15
    <2>2. end.ok = FALSE
      BY <1>8, <2>1
    <2> QED
      BY <1>15, <2>2
  <1> QED
    BY <1>14, <1>15

\* A word and a word with a cell behind it, read where they stand.
LEMMA WordRead ==
  ASSUME NEW s \in Seq(Cells), NEW at \in Nat, NEW n \in Words, Match(s, at, put_u64(n))
  PROVE  get_u64(s, at) = n
PROOF
  <1>1. Len(put_u64(n)) = 2 /\ put_u64(n)[1] = n % Base /\ put_u64(n)[2] = n \div Base
    BY DEF put_u64
  <1>2. s[at + 1] = n % Base /\ s[at + 2] = n \div Base
    BY <1>1 DEF Match
  <1>3. (n % Base) + Base * (n \div Base) = n
    BY WordInCells
  <1> QED
    BY <1>2, <1>3 DEF get_u64

LEMMA PartsCells ==
  ASSUME NEW v \in GeasValue
  PROVE  Parts(v, encode_write) \in Seq(Seq(Cells)) /\ Len(Parts(v, encode_write)) = Len(v.data)
PROOF
  <1>1. \A i \in 1 .. Len(v.data) : encode_write[v.data[i]] \in Seq(Cells)
    BY ValuesAreNodes, WriteUnfolds
  <1> QED
    BY <1>1, PartsIn

\* No element is shorter than its header.
LEMMA FlattenIsLong ==
  ASSUME NEW v \in GeasValue, \A i \in 1 .. Len(v.data) : Len(encode_write[v.data[i]]) >= 2
  PROVE  2 * Len(v.data) <= Len(FlattenSeq(Parts(v, encode_write)))
PROOF
  <1>1. PICK gs : gs = Parts(v, encode_write)
    OBVIOUS
  <1>2. PICK n \in Nat : n = Len(v.data)
    BY ValuesAreNodes
  <1>3. gs \in Seq(Seq(Cells)) /\ Len(gs) = n
    BY <1>1, <1>2, PartsCells
  <1>4. \A i \in 1 .. n : Len(gs[i]) >= 2
    BY <1>1, <1>2 DEF Parts
  <1>5. PICK f : Laid(gs, Cells, f)
    BY <1>3, LaidExists
  <1> DEFINE S == {k \in 0 .. n : Len(f[k]) >= 2 * k}
  <1>6. 0 \in S
    BY <1>5 DEF Laid
  <1>7. \A k \in 0 .. (n - 1) : k \in S => k + 1 \in S
    <2> SUFFICES ASSUME NEW k \in 0 .. (n - 1), Len(f[k]) >= 2 * k
                 PROVE  Len(f[k + 1]) >= 2 * (k + 1)
      OBVIOUS
    <2>1. k \in 0 .. (Len(gs) - 1)
      BY <1>3
    <2>2. k + 1 \in 1 .. Len(gs) /\ f[k] \in Seq(Cells) /\ gs[k + 1] \in Seq(Cells)
          /\ f[k + 1] = f[k] \o gs[k + 1]
      BY <1>3, <1>5, <2>1, LaidStep
    <2>3. Len(f[k + 1]) = Len(f[k]) + Len(gs[k + 1]) /\ Len(f[k]) \in Nat /\ Len(gs[k + 1]) \in Nat
      BY <2>2, ConcatAt
    <2>4. Len(gs[k + 1]) >= 2
      BY <1>3, <1>4, <2>2
    <2>5. PICK a, b, c : a = Len(f[k]) /\ b = Len(gs[k + 1]) /\ c = Len(f[k + 1])
      OBVIOUS
    <2>6. a \in Nat /\ b \in Nat /\ c = a + b /\ a >= 2 * k /\ b >= 2
      BY <2>3, <2>4, <2>5
    <2>7. c >= 2 * (k + 1)
      BY <2>6
    <2> QED
      BY <2>5, <2>7
  <1>8. 0 .. n \subseteq S
    <2> HIDE DEF S
    <2> QED
      BY <1>6, <1>7, InductUpTo
  <1>9. FlattenSeq(gs) = f[n]
    BY <1>3, <1>5, FlattenIsLaid
  <1> QED
    BY <1>1, <1>2, <1>8, <1>9

\* Where the parts of a value's encoding stand in the stream.
LEMMA HeadRead ==
  ASSUME NEW s \in Seq(Cells), NEW v \in GeasValue, NEW at \in 0 .. Len(s),
         Match(s, at, encode_write[v])
  PROVE  /\ take(s, at, 2) /\ take(s, at + 2, BodyLen(v.ty))
         /\ TypeOf(s[at + 1]) = v.ty /\ s[at + 2] = v.tag
         /\ Match(s, at + 2, WriteBody(v))
         /\ Match(s, (at + 2) + BodyLen(v.ty), v.bytes)
         /\ Match(s, ((at + 2) + BodyLen(v.ty)) + Len(v.bytes), FlattenSeq(Parts(v, encode_write)))
         /\ Len(encode_write[v])
              = 2 + BodyLen(v.ty) + Len(v.bytes) + Len(FlattenSeq(Parts(v, encode_write)))
PROOF
  <1>1. PICK fl : fl = FlattenSeq(Parts(v, encode_write))
    OBVIOUS
  <1>2. fl \in Seq(Cells) /\ encode_write[v] = HeadOf(v) \o fl
    <2>1. \A i \in 1 .. Len(v.data) : encode_write[v.data[i]] \in Seq(Cells)
      BY ValuesAreNodes, WriteUnfolds
    <2>2. Parts(v, encode_write) \in Seq(Seq(Cells))
      BY <2>1, PartsIn
    <2> QED
      BY <1>1, <2>2, FlattenCells, WriteUnfolds
  <1>3. PICK h : h = put_u32(Code(v.ty)) \o put_u32(v.tag)
    OBVIOUS
  <1>4. v.ty \in Tags /\ v.tag \in Cells /\ v.bytes \in Seq(Cells)
    BY ValuesAreNodes, NodeParts
  <1>5. h \in Seq(Cells) /\ Len(h) = 2 /\ h[1] = Code(v.ty) /\ h[2] = v.tag
    BY <1>3, <1>4, CodesAreCells DEF put_u32
  <1>6. PICK b : b = WriteBody(v)
    OBVIOUS
  <1>7. PICK m \in Nat : m = BodyLen(v.ty)
    BY BodyFits
  <1>8. b \in Seq(Cells) /\ Len(b) = m
    BY <1>6, <1>7, BodyFits
  <1>9. PICK c : c = h \o b
    OBVIOUS
  <1>10. HeadOf(v) = c \o v.bytes
    BY <1>3, <1>6, <1>9 DEF HeadOf
  <1>11. c \in Seq(Cells) /\ Len(c) = 2 + m
    <2>1. c \in Seq(Cells) /\ Len(c) = Len(h) + Len(b)
      BY <1>5, <1>8, <1>9, ConcatAt
    <2> QED
      BY <1>5, <1>8, <2>1
  <1>12. PICK e : e = c \o v.bytes
    OBVIOUS
  <1>13. e \in Seq(Cells) /\ Len(e) = 2 + m + Len(v.bytes) /\ Len(v.bytes) \in Nat
    <2>1. e \in Seq(Cells) /\ Len(e) = Len(c) + Len(v.bytes) /\ Len(v.bytes) \in Nat
      BY <1>4, <1>11, <1>12, ConcatAt
    <2> QED
      BY <1>11, <2>1
  <1>14. at \in Nat /\ Len(s) \in Nat
    OBVIOUS
  <1>15. Match(s, at, e \o fl)
    BY <1>2, <1>10, <1>12
  <1>16. Match(s, at, e) /\ Match(s, at + Len(e), fl)
    BY <1>2, <1>13, <1>14, <1>15, MatchConcat
  <1>17. Match(s, at, c) /\ Match(s, at + Len(c), v.bytes)
    BY <1>4, <1>11, <1>12, <1>14, <1>16, MatchConcat
  <1>18. Match(s, at, h) /\ Match(s, at + Len(h), b)
    BY <1>5, <1>8, <1>9, <1>14, <1>17, MatchConcat
  <1>19. s[at + 1] = Code(v.ty) /\ s[at + 2] = v.tag /\ at + 2 <= Len(s)
    BY <1>5, <1>14, <1>18 DEF Match
  <1>20. (at + 2) + m <= Len(s)
    BY <1>5, <1>8, <1>14, <1>18 DEF Match
  <1>21. take(s, at, 2) /\ take(s, at + 2, m)
    BY <1>14, <1>19, <1>20 DEF take
  <1>22. TypeOf(s[at + 1]) = v.ty
    BY <1>4, <1>19, CodesAreTypes
  <1>23. at + Len(c) = (at + 2) + m /\ at + Len(e) = ((at + 2) + m) + Len(v.bytes)
    <2>1. PICK x, y, z : x = Len(c) /\ y = Len(e) /\ z = Len(v.bytes)
      OBVIOUS
    <2>2. at \in Nat /\ z \in Nat /\ x = 2 + m /\ y = 2 + m + z
      BY <1>11, <1>13, <1>14, <2>1
    <2>3. at + x = (at + 2) + m /\ at + y = ((at + 2) + m) + z
      BY <2>2
    <2> QED
      BY <2>1, <2>3
  <1>24. Len(encode_write[v]) = 2 + m + Len(v.bytes) + Len(fl)
    <2>1. encode_write[v] = e \o fl
      BY <1>2, <1>10, <1>12
    <2>2. Len(e \o fl) = Len(e) + Len(fl)
      BY <1>2, <1>13, ConcatAt
    <2> QED
      BY <1>13, <2>1, <2>2
  <1> QED
    BY <1>1, <1>5, <1>6, <1>7, <1>16, <1>17, <1>18, <1>19, <1>21, <1>22, <1>23, <1>24

\* A part of a sequence.
LEMMA SubSeqAt ==
  ASSUME NEW T, NEW s \in Seq(T), NEW at \in Nat, NEW n \in Nat, at + n <= Len(s)
  PROVE  /\ SubSeq(s, at + 1, at + n) \in Seq(T) /\ Len(SubSeq(s, at + 1, at + n)) = n
         /\ \A j \in 1 .. n : SubSeq(s, at + 1, at + n)[j] = s[at + j]
PROOF
  <1>1. PICK k \in Nat : k = Len(s)
    OBVIOUS
  <1>2. PICK a, b : a = at + 1 /\ b = at + n
    OBVIOUS
  <1>3. a \in Nat /\ b \in Nat /\ a >= 1 /\ b <= k /\ (b - a) + 1 = n
    BY <1>1, <1>2
  <1>4. SubSeq(s, a, b) \in Seq(T) /\ Len(SubSeq(s, a, b)) = n
    BY <1>1, <1>3
  <1>5. ASSUME NEW j \in 1 .. n PROVE SubSeq(s, a, b)[j] = s[at + j]
    <2>1. SubSeq(s, a, b)[j] = s[(a + j) - 1]
      BY <1>1, <1>3
    <2>2. (a + j) - 1 = at + j
      BY <1>2
    <2> QED
      BY <2>1, <2>2
  <1> QED
    BY <1>2, <1>4, <1>5


\* What stands in the stream is the subsequence there.
LEMMA MatchIsSubSeq ==
  ASSUME NEW T, NEW s \in Seq(T), NEW at \in Nat, NEW w \in Seq(T)
  PROVE  Match(s, at, w) <=> at + Len(w) <= Len(s) /\ SubSeq(s, at + 1, at + Len(w)) = w
PROOF
  <1>1. PICK n \in Nat, k \in Nat : n = Len(w) /\ k = Len(s)
    OBVIOUS
  <1>2. ASSUME at + n <= k
        PROVE  /\ SubSeq(s, at + 1, at + n) \in Seq(T) /\ Len(SubSeq(s, at + 1, at + n)) = n
               /\ \A j \in 1 .. n : SubSeq(s, at + 1, at + n)[j] = s[at + j]
    BY <1>1, <1>2, SubSeqAt
  <1>3. ASSUME Match(s, at, w) PROVE at + n <= k /\ SubSeq(s, at + 1, at + n) = w
    <2>1. at + n <= k /\ \A j \in 1 .. n : s[at + j] = w[j]
      BY <1>1, <1>3 DEF Match
    <2>2. PICK u : u = SubSeq(s, at + 1, at + n)
      OBVIOUS
    <2>3. u \in Seq(T) /\ Len(u) = Len(w) /\ \A j \in 1 .. Len(u) : u[j] = w[j]
      BY <1>1, <1>2, <2>1, <2>2
    <2>4. u = w
      BY <2>3
    <2> QED
      BY <2>1, <2>2, <2>4
  <1>4. ASSUME at + n <= k, SubSeq(s, at + 1, at + n) = w PROVE Match(s, at, w)
    BY <1>1, <1>2, <1>4 DEF Match
  <1> QED
    BY <1>1, <1>3, <1>4

\* A value is its parts.
LEMMA ScalarIs ==
  ASSUME NEW v \in GeasValue, ShapeOK(v), v.ty # "String"
  PROVE  v = Val(v.ty, v.tag, v.n, v.elem_ty, v.data)
PROOF
  <1>1. v = [ty |-> v.ty, tag |-> v.tag, n |-> v.n, elem_ty |-> v.elem_ty, len |-> v.len,
             bytes |-> v.bytes, data |-> v.data]
    BY ValuesAreNodes, NodeParts
  <1>2. v.bytes = << >> /\ v.len = Len(v.data)
    BY LengthIsLen
  <1> QED
    BY <1>1, <1>2 DEF Val

LEMMA StringIs ==
  ASSUME NEW v \in GeasValue, ShapeOK(v), v.ty = "String"
  PROVE  v = Str(v.bytes) /\ v.tag = 0
PROOF
  <1>1. v = [ty |-> v.ty, tag |-> v.tag, n |-> v.n, elem_ty |-> v.elem_ty, len |-> v.len,
             bytes |-> v.bytes, data |-> v.data] /\ UnionOK(v)
    BY ValuesAreNodes, NodeParts
  <1>2. v.data = << >> /\ v.len = Len(v.bytes)
    BY LengthIsLen
  <1>3. v.tag = 0
    BY DEF ShapeOK, Variants
  <1>4. v.n = 0 /\ v.elem_ty = "Unit"
    BY <1>1 DEF UnionOK, Listed, Numbers
  <1> QED
    BY <1>1, <1>2, <1>3, <1>4 DEF Str

\* The body of each type.
LEMMA BodyOf ==
  ASSUME NEW s, NEW body, NEW ty, NEW tag, NEW inner,
         NEW rest, rest = body + BodyLen(ty), NEW count, count = get_u64(s, body),
         NEW el, el = TypeOf(s[body + 3]), NEW r, r = decode_body(s, body, ty, tag, inner)
  PROVE  /\ ty = "Unit" => r = Got(Zeroed, rest)
         /\ ty \in {"UInt", "Float"} => r = Got(Val(ty, 0, count, "Unit", << >>), rest)
         /\ ty = "Int" => r = Got(Val(ty, 0, Signed(count), "Unit", << >>), rest)
         /\ ty \in {"Bool", "Byte", "Char"} =>
              r = IF ScalarOK(ty, s[body + 1])
                  THEN Got(Val(ty, 0, s[body + 1], "Unit", << >>), rest) ELSE Refused
         /\ ty = "String" =>
              r = IF take(s, rest, count)
                  THEN Got(Str(SubSeq(s, rest + 1, rest + count)), rest + count) ELSE Refused
         /\ ty = "List" =>
              r = IF tag_crosses(el) /\ count_plausible(s, rest, count)
                  THEN decode_items(inner, rest, count, ty, tag, el) ELSE Refused
         /\ ty = "Map" =>
              r = IF count % 2 = 0 /\ tag_keyable(el) /\ count_plausible(s, rest, count)
                  THEN decode_items(inner, rest, count, ty, tag, el) ELSE Refused
         /\ ty \in Fielded =>
              r = IF count_plausible(s, rest, count)
                  THEN decode_items(inner, rest, count, ty, tag, "Unit") ELSE Refused
         /\ ty = "Option" /\ tag = 0 => r = Got(Val(ty, 0, 0, "Unit", << >>), rest)
         /\ ty = "Result" \/ (ty = "Option" /\ tag # 0) =>
              r = decode_items(inner, rest, 1, ty, tag, "Unit")
PROOF
  BY DEF decode_body, Fielded

\* One value comes back when the decoder one level down reads the elements back.
LEMMA ValueBack ==
  ASSUME NEW s \in Seq(Cells), NEW v \in GeasValue, ShapeOK(v), NEW at \in 0 .. Len(s),
         NEW inner, ReadsBack(inner, s, v), Match(s, at, encode_write[v]),
         \A i \in 1 .. Len(v.data) : Len(encode_write[v.data[i]]) >= 2
  PROVE  decode_value(s, at, inner) =
           IF KeysDistinct[v] THEN Got(v, at + Len(encode_write[v])) ELSE Refused
PROOF
  <1>1. PICK fl : fl = FlattenSeq(Parts(v, encode_write))
    OBVIOUS
  <1>2. PICK m \in 0 .. 3 : m = BodyLen(v.ty)
    BY BodyFits
  <1>3. PICK body \in Nat, rest \in Nat : body = at + 2 /\ rest = body + m
    <2>1. at \in Nat
      OBVIOUS
    <2> QED
      BY <2>1
  <1>4. /\ take(s, at, 2) /\ take(s, body, m) /\ TypeOf(s[at + 1]) = v.ty /\ s[at + 2] = v.tag
        /\ Match(s, body, WriteBody(v)) /\ Match(s, rest, v.bytes)
        /\ Match(s, rest + Len(v.bytes), fl)
        /\ Len(encode_write[v]) = 2 + m + Len(v.bytes) + Len(fl)
    BY <1>1, <1>2, <1>3, HeadRead
  <1>5. /\ v.ty \in Tags /\ v.tag \in Cells /\ v.len \in Words /\ v.bytes \in Seq(Cells)
        /\ v.data \in Seq(GeasValue) /\ UnionOK(v) /\ Len(v.data) \in Nat /\ Len(s) \in Nat
        /\ at \in Nat /\ v.elem_ty \in Tags
    BY ValuesAreNodes, NodeParts
  <1>6. /\ tag_crosses(v.ty) /\ (v.ty \notin Variants => v.tag = 0)
        /\ (v.ty \in Boxes => v.tag <= 1)
    BY DEF ShapeOK
  <1>7. PICK end : end = decode_all(inner, rest, Len(v.data), v.ty, v.elem_ty)
    OBVIOUS
  <1>8. ASSUME v.ty # "String"
        PROVE  /\ Match(s, rest, fl) /\ Len(encode_write[v]) = 2 + m + Len(fl)
               /\ at + Len(encode_write[v]) = rest + Len(fl) /\ Len(fl) \in Nat
               /\ rest + Len(fl) <= Len(s)
    <2>1. Len(v.bytes) = 0
      <3>1. v.bytes = << >>
        BY <1>8, LengthIsLen
      <3> QED
        BY <3>1
    <2>2. Match(s, rest, fl)
      BY <1>3, <1>4, <2>1
    <2>3. Len(fl) \in Nat
      BY <1>1, PartsCells, FlattenCells
    <2>4. rest + Len(fl) <= Len(s)
      BY <2>2 DEF Match
    <2> QED
      BY <1>3, <1>4, <1>5, <2>1, <2>2, <2>3, <2>4
  <1>9. ASSUME v.ty # "String"
        PROVE  IF KeysDistinct[v]
               THEN end = [ok |-> TRUE, vs |-> v.data, at |-> rest + Len(fl)]
               ELSE end.ok = FALSE
    <2>1. rest \in 0 .. Len(s)
      BY <1>3, <1>5, <1>8, <1>9
    <2> QED
      BY <1>1, <1>7, <1>8, <1>9, <2>1, AllBack
  <1>10. ASSUME v.ty # "String"
         PROVE  decode_items(inner, rest, Len(v.data), v.ty, v.tag, v.elem_ty) =
                  IF KeysDistinct[v] THEN Got(Val(v.ty, v.tag, 0, v.elem_ty, v.data), rest + Len(fl))
                  ELSE Refused
    <2>1. CASE KeysDistinct[v]
      <3>1. end.ok = TRUE /\ end.vs = v.data /\ end.at = rest + Len(fl)
        BY <1>9, <1>10, <2>1
      <3> QED
        BY <1>7, <2>1, <3>1 DEF decode_items
    <2>2. CASE ~KeysDistinct[v]
      <3>1. end.ok = FALSE
        BY <1>9, <1>10, <2>2
      <3> QED
        BY <1>7, <2>2, <3>1 DEF decode_items
    <2> QED
      BY <2>1, <2>2
  <1>11. ASSUME v.data = << >>, v.ty # "String" PROVE fl = << >> /\ KeysDistinct[v] /\ Len(fl) = 0
    <2>1. Len(v.data) = 0 /\ DOMAIN v.data = {}
      BY <1>11
    <2>2. Len(Parts(v, encode_write)) = 0
      BY <2>1, PartsCells
    <2>3. Parts(v, encode_write) = << >>
      BY <2>2, PartsCells
    <2>4. FlattenSeq(<< >>) = << >>
      BY DEF FlattenSeq
    <2>5. KeysDistinct[v]
      BY <2>1, DistinctUnfolds DEF KeysApart
    <2> QED
      BY <1>1, <2>3, <2>4, <2>5
  <1>12. ASSUME v.ty # "String"
         PROVE  count_plausible(s, rest, Len(v.data))
    <2>1. 2 * Len(v.data) <= Len(fl)
      BY <1>1, FlattenIsLong
    <2>2. rest + Len(fl) <= Len(s) /\ Len(fl) \in Nat
      BY <1>8, <1>12
    <2>3. PICK a, b, c : a = Len(v.data) /\ b = Len(fl) /\ c = Len(s)
      OBVIOUS
    <2>4. a \in Nat /\ b \in Nat /\ c \in Nat /\ 2 * a <= b /\ rest + b <= c
      BY <1>5, <2>1, <2>2, <2>3
    <2>5. a <= (c - rest) \div 2
      BY <1>3, <2>4
    <2> QED
      BY <2>3, <2>5 DEF count_plausible
  <1>13. PICK count, el : count = get_u64(s, body) /\ el = TypeOf(s[body + 3])
    OBVIOUS
  <1>14. PICK r : r = decode_body(s, body, v.ty, v.tag, inner)
    OBVIOUS
  <1>15. decode_value(s, at, inner) = r
    <2>1. ~(v.ty \in Boxes /\ v.tag > 1)
      BY <1>5, <1>6 DEF Cells
    <2> QED
      BY <1>2, <1>3, <1>4, <1>6, <1>14, <2>1 DEF decode_value
  <1>16. rest = body + BodyLen(v.ty)
    BY <1>2, <1>3
  <1>17. /\ v.ty = "String" =>
              r = IF take(s, rest, count)
                  THEN Got(Str(SubSeq(s, rest + 1, rest + count)), rest + count) ELSE Refused
         /\ v.ty = "List" =>
              r = IF tag_crosses(el) /\ count_plausible(s, rest, count)
                  THEN decode_items(inner, rest, count, v.ty, v.tag, el) ELSE Refused
         /\ v.ty = "Map" =>
              r = IF count % 2 = 0 /\ tag_keyable(el) /\ count_plausible(s, rest, count)
                  THEN decode_items(inner, rest, count, v.ty, v.tag, el) ELSE Refused
         /\ v.ty \in Fielded =>
              r = IF count_plausible(s, rest, count)
                  THEN decode_items(inner, rest, count, v.ty, v.tag, "Unit") ELSE Refused
    BY <1>13, <1>14, <1>16, BodyOf
  <1>18. CASE v.ty = "Unit"
    <2>1. v.data = << >> /\ v.n = 0 /\ v.elem_ty = "Unit" /\ v.tag = 0 /\ m = 0
      BY <1>2, <1>5, <1>6, <1>18 DEF UnionOK, Numbers, Listed, Fielded, Boxes, Variants, BodyLen
    <2>2. v = Zeroed
      BY <1>18, <2>1, ScalarIs DEF Zeroed
    <2>3. decode_value(s, at, inner) = Got(Zeroed, rest)
      BY <1>13, <1>18, <1>14, <1>15, <1>16, BodyOf
    <2> QED
      BY <1>3, <1>8, <1>11, <1>18, <2>1, <2>2, <2>3
  <1>19. CASE v.ty \in {"UInt", "Float", "Int"}
    <2>1. v.data = << >> /\ v.elem_ty = "Unit" /\ v.tag = 0 /\ m = 2
      BY <1>2, <1>5, <1>6, <1>19 DEF UnionOK, Listed, Fielded, Boxes, Variants, BodyLen
    <2>2. v = Val(v.ty, 0, v.n, "Unit", << >>)
      BY <1>19, <2>1, ScalarIs
    <2>3. Unsigned(v.n) \in Words /\ WriteBody(v) = put_u64(Unsigned(v.n)) /\ v.n \in Numbers(v.ty)
      <3>1. v.n \in Numbers(v.ty)
        BY <1>5 DEF UnionOK
      <3>2. Unsigned(v.n) \in Words
        BY <1>19, <3>1, SignedUnsigned DEF Numbers
      <3> QED
        BY <1>19, <3>1, <3>2 DEF WriteBody, Fielded, Listed
    <2>4. count = Unsigned(v.n)
      BY <1>3, <1>4, <1>13, <2>3, WordRead
    <2>5. CASE v.ty = "Int"
      <3>1. v.n = Signed(count)
        BY <2>3, <2>4, <2>5, SignedUnsigned
      <3>2. decode_value(s, at, inner) = Got(Val(v.ty, 0, Signed(count), "Unit", << >>), rest)
        BY <1>13, <1>14, <1>15, <1>16, <2>5, BodyOf
      <3> QED
        BY <1>3, <1>8, <1>11, <1>19, <2>1, <2>2, <3>1, <3>2
    <2>6. CASE v.ty \in {"UInt", "Float"}
      <3>1. v.n = count
        BY <2>3, <2>4, <2>6, SignedUnsigned DEF Numbers
      <3>2. decode_value(s, at, inner) = Got(Val(v.ty, 0, count, "Unit", << >>), rest)
        BY <1>13, <1>14, <1>15, <1>16, <2>6, BodyOf
      <3> QED
        BY <1>3, <1>8, <1>11, <1>19, <2>1, <2>2, <3>1, <3>2
    <2> QED
      BY <1>19, <2>5, <2>6
  <1>20. CASE v.ty \in {"Bool", "Byte", "Char"}
    <2>1. v.data = << >> /\ v.elem_ty = "Unit" /\ v.tag = 0 /\ m = 1
      BY <1>2, <1>5, <1>6, <1>20 DEF UnionOK, Listed, Fielded, Boxes, Variants, BodyLen
    <2>2. v = Val(v.ty, 0, v.n, "Unit", << >>)
      BY <1>20, <2>1, ScalarIs
    <2>3. WriteBody(v) = <<v.n>>
      BY <1>20 DEF WriteBody, put_u32, Fielded, Listed
    <2>4. s[body + 1] = v.n
      BY <1>3, <1>4, <2>3 DEF Match
    <2>5. ScalarOK(v.ty, v.n)
      BY DEF ShapeOK
    <2>6. decode_value(s, at, inner) = Got(Val(v.ty, 0, v.n, "Unit", << >>), rest)
      BY <1>13, <1>20, <1>14, <1>15, <1>16, <2>4, <2>5, BodyOf
    <2> QED
      BY <1>3, <1>8, <1>11, <1>20, <2>1, <2>2, <2>6
  <1>21. CASE v.ty = "String"
    <2>1. v = Str(v.bytes) /\ v.tag = 0 /\ v.data = << >> /\ v.len = Len(v.bytes) /\ m = 2
      <3>1. v = Str(v.bytes) /\ v.tag = 0
        BY <1>21, StringIs
      <3>2. v.data = << >> /\ v.len = Len(v.bytes)
        BY <1>21, LengthIsLen
      <3>3. m = 2
        BY <1>2, <1>21 DEF BodyLen, Fielded, Listed
      <3> QED
        BY <3>1, <3>2, <3>3
    <2>2. WriteBody(v) = put_u64(v.len)
      BY <1>21 DEF WriteBody, Fielded, Listed
    <2>3. count = v.len
      BY <1>3, <1>4, <1>5, <1>13, <2>2, WordRead
    <2>4. rest + Len(v.bytes) <= Len(s) /\ \A j \in 1 .. Len(v.bytes) : s[rest + j] = v.bytes[j]
      BY <1>4 DEF Match
    <2>5. take(s, rest, count)
      BY <1>3, <1>5, <2>1, <2>3, <2>4 DEF take
    <2>6. SubSeq(s, rest + 1, rest + count) = v.bytes
      <3>1. SubSeq(s, rest + 1, rest + Len(v.bytes)) = v.bytes
        <4>1. PICK w : w = v.bytes
          OBVIOUS
        <4>2. w \in Seq(Cells) /\ Match(s, rest, w)
          BY <1>4, <1>5, <4>1
        <4>3. SubSeq(s, rest + 1, rest + Len(w)) = w
          BY <1>3, <4>2, MatchIsSubSeq
        <4> QED
          BY <4>1, <4>3
      <3> QED
        BY <2>1, <2>3, <3>1
    <2>7. decode_value(s, at, inner) = Got(v, rest + count)
      BY <1>21, <1>15, <1>17, <2>1, <2>5, <2>6
    <2>8. fl = << >> /\ KeysDistinct[v]
      <3>1. Len(v.data) = 0 /\ DOMAIN v.data = {}
        BY <2>1
      <3>2. Parts(v, encode_write) = << >>
        BY <3>1, PartsCells
      <3>3. KeysDistinct[v]
        BY <1>21, <3>1, DistinctUnfolds DEF KeysApart
      <3> QED
        BY <1>1, <3>2, <3>3 DEF FlattenSeq
    <2>9. at + Len(encode_write[v]) = rest + count
      <3>1. Len(fl) = 0
        BY <2>8
      <3>2. count \in Nat /\ count = Len(v.bytes)
        BY <1>5, <2>1, <2>3
      <3>3. Len(encode_write[v]) = 2 + m + count
        BY <1>4, <3>1, <3>2
      <3>4. rest = at + 4
        BY <1>3, <1>5, <2>1
      <3>5. at + (4 + count) = rest + count
        <4>1. \A a, c \in Nat : a + (4 + c) = (a + 4) + c
          OBVIOUS
        <4>2. at \in Nat /\ count \in Nat
          BY <1>5, <3>2
        <4> QED
          BY <3>4, <4>1, <4>2, Zenon
      <3>6. 2 + m + count = 4 + count
        BY <2>1, <3>2
      <3> QED
        BY <3>3, <3>5, <3>6
    <2> QED
      BY <2>7, <2>8, <2>9
  <1>22. CASE v.ty \in Listed
    <2>1. v.tag = 0 /\ v.n = 0 /\ v.len = Len(v.data) /\ v.ty # "String" /\ m = 3
      <3>1. v.len = Len(v.data) /\ v.ty # "String"
        BY <1>22, LengthIsLen DEF Listed
      <3> QED
        BY <1>2, <1>5, <1>6, <1>22, <3>1
           DEF UnionOK, Numbers, Listed, Fielded, Boxes, Variants, BodyLen
    <2>2. v = Val(v.ty, v.tag, 0, v.elem_ty, v.data)
      BY <2>1, ScalarIs
    <2>3. WriteBody(v) = put_u64(v.len) \o put_u32(Code(v.elem_ty))
      BY <1>22 DEF WriteBody, Fielded, Listed
    <2>4. put_u64(v.len) \in Seq(Cells) /\ Len(put_u64(v.len)) = 2
          /\ put_u32(Code(v.elem_ty)) \in Seq(Cells) /\ Len(put_u32(Code(v.elem_ty))) = 1
          /\ put_u32(Code(v.elem_ty))[1] = Code(v.elem_ty)
      BY <1>5, WordInCells, CodesAreCells DEF put_u64, put_u32
    <2>5. Match(s, body, put_u64(v.len)) /\ Match(s, body + 2, put_u32(Code(v.elem_ty)))
      <3>1. PICK a, b : a = put_u64(v.len) /\ b = put_u32(Code(v.elem_ty))
        OBVIOUS
      <3>2. a \in Seq(Cells) /\ b \in Seq(Cells) /\ Len(a) = 2 /\ Match(s, body, a \o b)
        BY <1>4, <2>3, <2>4, <3>1
      <3>3. Match(s, body, a) /\ Match(s, body + Len(a), b)
        BY <1>3, <3>2, MatchConcat
      <3> QED
        BY <3>1, <3>2, <3>3
    <2>6. count = v.len
      BY <1>3, <1>5, <1>13, <2>5, WordRead
    <2>7. s[body + 3] = Code(v.elem_ty)
      <3>1. s[(body + 2) + 1] = Code(v.elem_ty)
        BY <2>4, <2>5 DEF Match
      <3>2. (body + 2) + 1 = body + 3
        BY <1>3
      <3> QED
        BY <3>1, <3>2
    <2>8. el = v.elem_ty
      BY <1>5, <1>13, <2>7, CodesAreTypes
    <2>9. count_plausible(s, rest, count) /\ count = Len(v.data)
      BY <1>12, <2>1, <2>6
    <2>10. CASE v.ty = "List"
      <3>1. tag_crosses(el)
        BY <2>8, <2>10 DEF ShapeOK
      <3>2. r = decode_items(inner, rest, count, v.ty, v.tag, el)
        BY <1>17, <2>9, <2>10, <3>1
      <3> QED
        BY <1>8, <1>10, <1>15, <2>1, <2>2, <2>8, <2>9, <3>2
    <2>11. CASE v.ty = "Map"
      <3>1. tag_keyable(el) /\ count % 2 = 0
        BY <2>6, <2>8, <2>11 DEF ShapeOK
      <3>2. r = decode_items(inner, rest, count, v.ty, v.tag, el)
        BY <1>17, <2>9, <2>11, <3>1
      <3> QED
        BY <1>8, <1>10, <1>15, <2>1, <2>2, <2>8, <2>9, <3>2
    <2> QED
      BY <1>22, <2>10, <2>11 DEF Listed
  <1>23. CASE v.ty \in Fielded
    <2>1. v.n = 0 /\ v.len = Len(v.data) /\ v.ty # "String" /\ m = 2 /\ v.elem_ty = "Unit"
      <3>1. v.len = Len(v.data) /\ v.ty # "String"
        BY <1>23, LengthIsLen DEF Fielded
      <3> QED
        BY <1>2, <1>5, <1>6, <1>23, <3>1
           DEF UnionOK, Numbers, Listed, Fielded, Boxes, Variants, BodyLen
    <2>2. v = Val(v.ty, v.tag, 0, v.elem_ty, v.data)
      BY <2>1, ScalarIs
    <2>3. WriteBody(v) = put_u64(v.len)
      BY <1>23 DEF WriteBody, Fielded, Listed
    <2>4. count = v.len
      BY <1>3, <1>4, <1>5, <1>13, <2>3, WordRead
    <2>5. count_plausible(s, rest, count) /\ count = Len(v.data)
      BY <1>12, <2>1, <2>4
    <2>6. r = decode_items(inner, rest, count, v.ty, v.tag, v.elem_ty)
      BY <1>23, <1>17, <2>1, <2>5
    <2> QED
      BY <1>8, <1>10, <1>15, <2>1, <2>2, <2>5, <2>6
  <1>24. CASE v.ty \in Boxes
    <2>1. v.n = 0 /\ v.ty # "String" /\ m = 0 /\ v.elem_ty = "Unit" /\ Len(v.data) <= 1
      BY <1>2, <1>5, <1>24 DEF UnionOK, Numbers, Listed, Fielded, Boxes, BodyLen
    <2>2. v = Val(v.ty, v.tag, 0, v.elem_ty, v.data)
      BY <2>1, ScalarIs
    <2>3. CASE v.ty = "Option" /\ v.tag = 0
      <3>1. v.data = << >>
        BY <2>3 DEF ShapeOK
      <3>2. r = Got(v, rest)
        BY <1>13, <1>14, <1>16, <2>1, <2>2, <2>3, <3>1, BodyOf
      <3>3. KeysDistinct[v] /\ Len(fl) = 0
        BY <1>11, <2>1, <3>1
      <3> QED
        BY <1>3, <1>8, <1>15, <2>1, <3>2, <3>3
    <2>4. CASE ~(v.ty = "Option" /\ v.tag = 0)
      <3>1. v.data # << >>
        BY <1>24, <2>4 DEF ShapeOK, Boxes
      <3>2. Len(v.data) = 1
        <4>1. PICK a \in Nat : a = Len(v.data)
          BY <1>5
        <4>2. a # 0
          BY <1>5, <3>1, <4>1
        <4>3. a <= 1
          BY <2>1, <4>1
        <4>4. a = 1
          BY <4>2, <4>3
        <4> QED
          BY <4>1, <4>4
      <3>3. r = decode_items(inner, rest, Len(v.data), v.ty, v.tag, v.elem_ty)
        BY <1>13, <1>24, <1>14, <1>16, <2>1, <2>4, <3>2, BodyOf DEF Boxes
      <3> QED
        BY <1>8, <1>10, <1>15, <2>1, <2>2, <3>3
    <2> QED
      BY <2>3, <2>4
  <1>25. v.ty \in {"Unit", "UInt", "Float", "Int", "Bool", "Byte", "Char", "String"}
                   \cup Listed \cup Fielded \cup Boxes
    BY <1>6, TagsAre DEF tag_crosses, Tags, Listed, Fielded, Boxes
  <1> QED
    BY <1>18, <1>19, <1>20, <1>21, <1>22, <1>23, <1>24, <1>25

\* No encoding is shorter than its header.
LEMMA WriteIsLong ==
  ASSUME NEW v \in GeasValue
  PROVE  encode_write[v] \in Seq(Cells) /\ Len(encode_write[v]) \in Nat /\ Len(encode_write[v]) >= 2
PROOF
  <1>1. PICK h, fl : h = HeadOf(v) /\ fl = FlattenSeq(Parts(v, encode_write))
    OBVIOUS
  <1>2. encode_write[v] = h \o fl /\ encode_write[v] \in Seq(Cells)
    BY <1>1, WriteUnfolds
  <1>3. h \in Seq(Cells) /\ fl \in Seq(Cells)
    BY <1>1, HeadFits, PartsCells, FlattenCells
  <1>4. Len(h) >= 2
    <2>1. BodyLen(v.ty) \in Nat /\ Len(v.bytes) \in Nat
      BY BodyFits, ValuesAreNodes, NodeParts
    <2> QED
      BY <1>1, <2>1, HeadFits
  <1>5. Len(h) \in Nat /\ Len(fl) \in Nat /\ Len(h \o fl) = Len(h) + Len(fl)
    BY <1>3, ConcatAt
  <1>6. Len(h \o fl) \in Nat /\ Len(h \o fl) >= 2
    BY <1>4, <1>5
  <1> QED
    BY <1>2, <1>6

-----------------------------------------------------------------------------
(* What the encoder accepts, the decoder reads back.                        *)

\* At every depth where the encoder accepts a value, the decoder yields it.
BackAt(s, depth) ==
  \A v \in GeasValue, at \in 0 .. Len(s) :
    encode_size[v][depth] # -1 /\ Match(s, at, encode_write[v]) =>
      Decoders(s)[depth][at] =
        IF KeysDistinct[v] THEN Got(v, at + Len(encode_write[v])) ELSE Refused

LEMMA DecodesBack ==
  ASSUME NEW s \in Seq(Cells)
  PROVE  \A depth \in Depths : BackAt(s, depth)
PROOF
  <1>1. PICK n \in Nat : n = MaxDepth
    BY LevelsAssumption
  <1> DEFINE S == {k \in 0 .. n : BackAt(s, (n + 1) - k)}
  <1>2. 0 \in S
    <2>1. n + 1 \in Depths /\ n + 1 > MaxDepth /\ (n + 1) - 0 = n + 1
      BY <1>1 DEF Depths
    <2>2. \A v \in GeasValue : encode_size[v][n + 1] = -1
      BY <2>1, SizeIsLength
    <2> QED
      BY <1>1, <2>1, <2>2 DEF BackAt
  <1>3. \A k \in 0 .. (n - 1) : k \in S => k + 1 \in S
    <2> SUFFICES ASSUME NEW k \in 0 .. (n - 1), k \in S PROVE k + 1 \in S
      OBVIOUS
    <2>1. PICK d : d = (n + 1) - (k + 1)
      OBVIOUS
    <2>2. /\ d \in Depths /\ d \in 1 .. MaxDepth /\ d + 1 = (n + 1) - k /\ k + 1 \in 0 .. n
          /\ ~(d > MaxDepth)
      BY <1>1, <2>1 DEF Depths
    <2>3. BackAt(s, d + 1)
      BY <2>2
    <2>4. ASSUME NEW v \in GeasValue, NEW at \in 0 .. Len(s), encode_size[v][d] # -1,
                 Match(s, at, encode_write[v])
          PROVE  Decoders(s)[d][at] =
                   IF KeysDistinct[v] THEN Got(v, at + Len(encode_write[v])) ELSE Refused
      <3>1. ShapeOK(v) /\ \A i \in 1 .. Len(v.data) : encode_size[v.data[i]][d + 1] # -1
        BY <2>2, <2>4, SizeIsLength
      <3>2. PICK inner : inner = Decoders(s)[d + 1]
        OBVIOUS
      <3>3. \A i \in 1 .. Len(v.data) : v.data[i] \in GeasValue
        BY ValuesAreNodes
      <3>4. ReadsBack(inner, s, v)
        BY <2>3, <3>1, <3>2, <3>3 DEF ReadsBack, BackAt
      <3>5. \A i \in 1 .. Len(v.data) : Len(encode_write[v.data[i]]) >= 2
        BY <3>3, WriteIsLong
      <3>6. Decoders(s)[d][at] = decode_value(s, at, inner)
        BY <2>2, <3>2, DecodeUnfolds
      <3> QED
        BY <2>4, <3>1, <3>4, <3>5, <3>6, ValueBack
    <2> QED
      BY <2>1, <2>2, <2>4 DEF BackAt
  <1>4. 0 .. n \subseteq S
    <2> HIDE DEF S
    <2> QED
      BY <1>1, <1>2, <1>3, InductUpTo
  <1>5. ASSUME NEW depth \in Depths PROVE BackAt(s, depth)
    <2>1. PICK k : k = (n + 1) - depth
      OBVIOUS
    <2>2. k \in 0 .. n /\ (n + 1) - k = depth
      BY <1>1, <2>1 DEF Depths
    <2> QED
      BY <1>4, <2>2
  <1> QED
    BY <1>5

-----------------------------------------------------------------------------
(* What the decoder accepts, the encoder writes.                            *)

Writes(vs) == [i \in 1 .. Len(vs) |-> encode_write[vs[i]]]

LEMMA WritesAppend ==
  ASSUME NEW vs \in Seq(GeasValue), NEW x \in GeasValue
  PROVE  /\ Writes(vs) \in Seq(Seq(Cells)) /\ FlattenSeq(Writes(vs)) \in Seq(Cells)
         /\ FlattenSeq(Writes(Append(vs, x))) = FlattenSeq(Writes(vs)) \o encode_write[x]
PROOF
  <1>1. PICK n \in Nat : n = Len(vs)
    OBVIOUS
  <1>2. PICK us : us = Append(vs, x)
    OBVIOUS
  <1>3. us \in Seq(GeasValue) /\ Len(us) = n + 1 /\ us[n + 1] = x /\ \A i \in 1 .. n : us[i] = vs[i]
    BY <1>1, <1>2
  <1>4. encode_write[x] \in Seq(Cells) /\ \A i \in 1 .. n : encode_write[vs[i]] \in Seq(Cells)
    BY <1>1, WriteUnfolds
  <1>5. PICK gs : gs = Writes(vs)
    OBVIOUS
  <1>6. gs \in [1 .. n -> Seq(Cells)] /\ \A i \in 1 .. n : gs[i] = encode_write[vs[i]]
    BY <1>1, <1>4, <1>5 DEF Writes
  <1>7. gs \in Seq(Seq(Cells)) /\ Len(gs) = n
    BY <1>6, FunctionIsSeq
  <1>8. Writes(us) = Append(gs, encode_write[x])
    <2>1. PICK hs : hs = Append(gs, encode_write[x])
      OBVIOUS
    <2>2. hs \in Seq(Seq(Cells)) /\ Len(hs) = n + 1 /\ hs[n + 1] = encode_write[x]
          /\ \A i \in 1 .. n : hs[i] = gs[i]
      BY <1>4, <1>7, <2>1
    <2>3. hs = [i \in 1 .. (n + 1) |-> hs[i]]
      BY <2>2
    <2>4. \A i \in 1 .. (n + 1) : i \in 1 .. n \/ i = n + 1
      OBVIOUS
    <2>5. \A i \in 1 .. (n + 1) : hs[i] = encode_write[us[i]]
      BY <1>3, <1>6, <2>2, <2>4
    <2> QED
      BY <1>3, <2>1, <2>3, <2>5 DEF Writes
  <1> QED
    BY <1>2, <1>4, <1>5, <1>7, <1>8, FlattenAppend

\* A value over T read from at on is one the encoder accepts at a depth and writes so.
Encoded(s, T, at, depth, r) ==
  /\ r.v \in T
  /\ encode_size[r.v][depth] # -1
  /\ Match(s, at, encode_write[r.v])
  /\ r.at = at + Len(encode_write[r.v])

ReadsOnly(inner, s, T, depth) ==
  \A at \in 0 .. Len(s) : inner[at].ok => Encoded(s, T, at, depth, inner[at])

\* The elements taken so far, from the first one's place to the next one's.
Taken(s, T, from, depth, ty, el, acc) ==
  /\ \A i \in 1 .. Len(acc.vs) : /\ encode_size[acc.vs[i]][depth] # -1
                                 /\ element_fits(ty, i, el, acc.vs[i].ty)
  /\ Match(s, from, FlattenSeq(Writes(acc.vs)))
  /\ acc.at = from + Len(FlattenSeq(Writes(acc.vs)))

\* What the loop over the elements carries.
Accs(s, T) == [ok : BOOLEAN, vs : Seq(T), at : 0 .. Len(s)]

LEMMA AccIn ==
  ASSUME NEW s, NEW T, NEW b \in BOOLEAN, NEW vs \in Seq(T), NEW at \in 0 .. Len(s)
  PROVE  [ok |-> b, vs |-> vs, at |-> at] \in Accs(s, T)
PROOF
  BY DEF Accs

\* The next element keeps that.
LEMMA NextTaken ==
  ASSUME NEW s \in Seq(Cells), NEW T, T \subseteq GeasValue, NEW from \in 0 .. Len(s),
         NEW depth \in Depths, NEW ty, NEW el, NEW inner,
         ReadsOnly(inner, s, T, depth),
         NEW acc \in Accs(s, T),
         acc.ok => Taken(s, T, from, depth, ty, el, acc),
         NEW nxt, nxt = decode_next(inner, ty, el, Len(acc.vs) + 1, acc)
  PROVE  /\ nxt \in Accs(s, T)
         /\ nxt.ok => /\ acc.ok /\ Len(nxt.vs) = Len(acc.vs) + 1
                      /\ Taken(s, T, from, depth, ty, el, nxt)
PROOF
  <1>0. acc.ok \in BOOLEAN /\ acc.vs \in Seq(T) /\ acc.at \in 0 .. Len(s)
    BY DEF Accs
  <1>1. PICK e : e = inner[acc.at]
    OBVIOUS
  <1>2. PICK n \in Nat : n = Len(acc.vs)
    BY <1>0
  <1>3. CASE /\ acc.ok /\ e.ok
             /\ element_fits(ty, n + 1, el, e.v.ty)
             /\ ty = "Map" /\ (n + 1) % 2 = 1 => keys_distinct(acc.vs, e.v)
    <2>1. nxt = [ok |-> TRUE, vs |-> Append(acc.vs, e.v), at |-> e.at]
      BY <1>1, <1>2, <1>3 DEF decode_next
    <2>2. Encoded(s, T, acc.at, depth, e) /\ Taken(s, T, from, depth, ty, el, acc)
      BY <1>0, <1>1, <1>3 DEF ReadsOnly
    <2>3. e.v \in T /\ e.v \in GeasValue /\ acc.vs \in Seq(T) /\ acc.vs \in Seq(GeasValue)
      BY <1>0, <2>2 DEF Encoded
    <2>4. PICK us, x : us = Append(acc.vs, e.v) /\ x = encode_write[e.v]
      OBVIOUS
    <2>5. us \in Seq(T) /\ Len(us) = n + 1 /\ us[n + 1] = e.v /\ \A i \in 1 .. n : us[i] = acc.vs[i]
      BY <1>2, <2>3, <2>4
    <2>6. PICK fl : fl = FlattenSeq(Writes(acc.vs))
      OBVIOUS
    <2>7. fl \in Seq(Cells) /\ x \in Seq(Cells) /\ FlattenSeq(Writes(us)) = fl \o x
      BY <2>3, <2>4, <2>6, WritesAppend, WriteUnfolds
    <2>8. Match(s, from, fl) /\ acc.at = from + Len(fl) /\ Match(s, acc.at, x) /\ e.at = acc.at + Len(x)
      BY <2>2, <2>4, <2>6 DEF Encoded, Taken
    <2>9. from \in Nat
      OBVIOUS
    <2>10. Match(s, from, fl \o x)
      BY <2>7, <2>8, <2>9, MatchConcat
    <2>11. Len(fl) \in Nat /\ Len(x) \in Nat /\ Len(s) \in Nat /\ Len(fl \o x) = Len(fl) + Len(x)
      BY <2>7, ConcatAt
    <2>12. e.at = from + Len(fl \o x)
      <3>1. PICK a, b : a = Len(fl) /\ b = Len(x)
        OBVIOUS
      <3>2. (from + a) + b = from + (a + b)
        BY <2>9, <2>11, <3>1
      <3> QED
        BY <2>8, <2>11, <3>1, <3>2
    <2>13. e.at \in 0 .. Len(s)
      <3>1. acc.at + Len(x) <= Len(s) /\ acc.at \in Nat
        BY <1>0, <2>8 DEF Match
      <3>2. PICK a, b, c : a = acc.at /\ b = Len(x) /\ c = Len(s)
        OBVIOUS
      <3>3. a + b \in 0 .. c
        BY <2>11, <3>1, <3>2
      <3> QED
        BY <2>8, <3>2, <3>3
    <2>14. \A i \in 1 .. Len(us) : /\ encode_size[us[i]][depth] # -1
                                   /\ element_fits(ty, i, el, us[i].ty)
      <3> SUFFICES ASSUME NEW i \in 1 .. Len(us)
                   PROVE  encode_size[us[i]][depth] # -1 /\ element_fits(ty, i, el, us[i].ty)
        OBVIOUS
      <3>1. i \in 1 .. n \/ i = n + 1
        BY <2>5
      <3>2. CASE i \in 1 .. n
        BY <1>2, <2>2, <2>5, <3>2 DEF Taken
      <3>3. CASE i = n + 1
        BY <1>3, <2>2, <2>5, <3>3 DEF Encoded
      <3> QED
        BY <3>1, <3>2, <3>3
    <2>15. nxt.ok = TRUE /\ nxt.vs = us /\ nxt.at = e.at
      BY <2>1, <2>4
    <2>16. Taken(s, T, from, depth, ty, el, nxt)
      BY <2>7, <2>10, <2>12, <2>14, <2>15 DEF Taken
    <2>17. nxt \in Accs(s, T)
      <3>1. nxt = [ok |-> TRUE, vs |-> us, at |-> e.at]
        BY <2>1, <2>4
      <3> QED
        BY <2>5, <2>13, <3>1, AccIn
    <2> QED
      BY <1>2, <1>3, <2>5, <2>15, <2>16, <2>17
  <1>4. CASE ~(/\ acc.ok /\ e.ok
               /\ element_fits(ty, n + 1, el, e.v.ty)
               /\ ty = "Map" /\ (n + 1) % 2 = 1 => keys_distinct(acc.vs, e.v))
    <2>1. nxt = [acc EXCEPT !.ok = FALSE]
      BY <1>1, <1>2, <1>4 DEF decode_next
    <2> QED
      BY <2>1 DEF Accs
  <1> QED
    BY <1>3, <1>4

\* A run over count elements.
LEMMA AllTaken ==
  ASSUME NEW s \in Seq(Cells), NEW T, T \subseteq GeasValue, NEW from \in 0 .. Len(s),
         NEW depth \in Depths, NEW ty, NEW el, NEW inner, NEW count \in Nat,
         ReadsOnly(inner, s, T, depth),
         NEW end, end = decode_all(inner, from, count, ty, el), end.ok
  PROVE  /\ end.vs \in Seq(T) /\ Len(end.vs) = count
         /\ Taken(s, T, from, depth, ty, el, end)
PROOF
  <1>1. PICK p : /\ p[0] = [ok |-> TRUE, vs |-> << >>, at |-> from]
                 /\ \A i \in 1 .. count : p[i] = decode_next(inner, ty, el, i, p[i - 1])
                 /\ decode_all(inner, from, count, ty, el) = p[count]
    BY AllRuns
  <1> DEFINE Here(k) == /\ p[k] \in Accs(s, T)
                        /\ p[k].ok => Len(p[k].vs) = k /\ Taken(s, T, from, depth, ty, el, p[k])
             S == {k \in 0 .. count : Here(k)}
  <1>2. Here(0)
    <2>1. p[0].vs = << >> /\ p[0].at = from /\ p[0].ok = TRUE /\ Len(p[0].vs) = 0
      BY <1>1
    <2>2. p[0] \in Accs(s, T)
      BY <1>1 DEF Accs
    <2>3. Writes(<< >>) = << >>
      BY DEF Writes
    <2>4. FlattenSeq(<< >>) = << >>
      BY DEF FlattenSeq
    <2>5. Match(s, from, << >>) /\ from = from + Len(<< >>)
      BY DEF Match
    <2>6. Taken(s, T, from, depth, ty, el, p[0])
      BY <2>1, <2>3, <2>4, <2>5 DEF Taken
    <2> QED
      BY <2>1, <2>2, <2>6
  <1>3. \A k \in 0 .. (count - 1) : k \in S => k + 1 \in S
    <2> HIDE DEF Here
    <2> SUFFICES ASSUME NEW k \in 0 .. (count - 1), Here(k) PROVE Here(k + 1)
      OBVIOUS
    <2>1. k \in Nat /\ k + 1 \in 1 .. count /\ (k + 1) - 1 = k
      OBVIOUS
    <2>2. p[k + 1] = decode_next(inner, ty, el, k + 1, p[k])
      BY <1>1, <2>1
    <2>3. PICK acc \in Accs(s, T) : acc = p[k]
      BY DEF Here
    <2>4. PICK nxt : nxt = p[k + 1]
      OBVIOUS
    <2>5. acc.ok => Len(acc.vs) = k /\ Taken(s, T, from, depth, ty, el, acc)
      BY <2>3 DEF Here
    <2>6. CASE acc.ok
      <3>1. Len(acc.vs) = k /\ Taken(s, T, from, depth, ty, el, acc)
        BY <2>5, <2>6
      <3>2. nxt = decode_next(inner, ty, el, Len(acc.vs) + 1, acc)
        BY <2>2, <2>3, <2>4, <3>1
      <3>3. /\ nxt \in Accs(s, T)
            /\ nxt.ok => Len(nxt.vs) = Len(acc.vs) + 1 /\ Taken(s, T, from, depth, ty, el, nxt)
        BY <3>1, <3>2, NextTaken
      <3> QED
        BY <2>4, <3>1, <3>3 DEF Here
    <2>7. CASE ~acc.ok
      <3>1. nxt = [acc EXCEPT !.ok = FALSE]
        BY <2>2, <2>3, <2>4, <2>7 DEF decode_next
      <3>2. nxt \in Accs(s, T) /\ nxt.ok = FALSE
        BY <3>1 DEF Accs
      <3> QED
        BY <2>4, <3>2 DEF Here
    <2> QED
      BY <2>6, <2>7
  <1>4. Here(count)
    <2> HIDE DEF Here
    <2>1. 0 \in S
      BY <1>2
    <2>2. 0 .. count \subseteq S
      <3> HIDE DEF S
      <3> QED
        BY <1>3, <2>1, InductUpTo
    <2> QED
      BY <2>2
  <1> QED
    BY <1>1, <1>4 DEF Accs

\* The pieces of an encoding, found one behind the other, are the encoding.
Pieces(s, w, at, body, rest, to) ==
  /\ take(s, at, 2) /\ s[at + 1] = Code(w.ty) /\ s[at + 2] = w.tag
  /\ body = at + 2 /\ Match(s, body, WriteBody(w))
  /\ rest = body + BodyLen(w.ty) /\ Match(s, rest, w.bytes)
  /\ to = rest + Len(w.bytes) /\ Match(s, to, FlattenSeq(Writes(w.data)))

Accepted(vs, depth) == \A i \in 1 .. Len(vs) : encode_size[vs[i]][depth] # -1

LEMMA NodeEncoded ==
  ASSUME NEW s \in Seq(Cells), NEW T, Nodes(T) \subseteq GeasValue,
         NEW w \in Nodes(T), ShapeOK(w), NEW at \in 0 .. Len(s), NEW depth \in 1 .. MaxDepth,
         Accepted(w.data, depth + 1),
         NEW body \in Nat, NEW rest \in Nat, NEW to \in Nat, Pieces(s, w, at, body, rest, to),
         NEW r, r = Got(w, to + Len(FlattenSeq(Writes(w.data))))
  PROVE  Encoded(s, Nodes(T), at, depth, r)
PROOF
  <1>1. PICK fl : fl = FlattenSeq(Writes(w.data))
    OBVIOUS
  <1>2. w \in GeasValue
    OBVIOUS
  <1>3. Writes(w.data) = Parts(w, encode_write)
    BY DEF Writes, Parts
  <1>4. fl \in Seq(Cells) /\ encode_write[w] = HeadOf(w) \o fl
    BY <1>1, <1>2, <1>3, PartsCells, FlattenCells, WriteUnfolds
  <1>5. w.ty \in Tags /\ w.tag \in Cells /\ w.bytes \in Seq(Cells)
    BY NodeParts
  <1>6. PICK h : h = put_u32(Code(w.ty)) \o put_u32(w.tag)
    OBVIOUS
  <1>7. h \in Seq(Cells) /\ Len(h) = 2 /\ h[1] = Code(w.ty) /\ h[2] = w.tag
    BY <1>5, <1>6, CodesAreCells DEF put_u32
  <1>8. PICK b : b = WriteBody(w)
    OBVIOUS
  <1>9. PICK m \in Nat : m = BodyLen(w.ty)
    BY <1>2, BodyFits
  <1>10. b \in Seq(Cells) /\ Len(b) = m
    BY <1>2, <1>8, <1>9, BodyFits
  <1>11. PICK c : c = h \o b
    OBVIOUS
  <1>12. c \in Seq(Cells) /\ Len(c) = 2 + m
    <2>1. c \in Seq(Cells) /\ Len(c) = Len(h) + Len(b)
      BY <1>7, <1>10, <1>11, ConcatAt
    <2> QED
      BY <1>7, <1>10, <2>1
  <1>13. PICK e : e = c \o w.bytes
    OBVIOUS
  <1>14. e \in Seq(Cells) /\ Len(e) = 2 + m + Len(w.bytes) /\ Len(w.bytes) \in Nat
    <2>1. e \in Seq(Cells) /\ Len(e) = Len(c) + Len(w.bytes) /\ Len(w.bytes) \in Nat
      BY <1>5, <1>12, <1>13, ConcatAt
    <2> QED
      BY <1>12, <2>1
  <1>15. at \in Nat /\ Len(s) \in Nat
    OBVIOUS
  <1>16. encode_write[w] = e \o fl
    BY <1>4, <1>6, <1>8, <1>11, <1>13 DEF HeadOf
  <1>17. Match(s, at, h)
    <2>1. at + 2 <= Len(s)
      <3>1. take(s, at, 2)
        BY DEF Pieces
      <3>2. Len(s) - at >= 2
        BY <3>1 DEF take
      <3> QED
        BY <1>15, <3>2
    <2> QED
      BY <1>7, <2>1 DEF Match, Pieces
  <1>18. at + Len(h) = body /\ at + Len(c) = rest /\ at + Len(e) = to
    <2>1. PICK x, y, z : x = Len(c) /\ y = Len(e) /\ z = Len(w.bytes)
      OBVIOUS
    <2>2. z \in Nat /\ x = 2 + m /\ y = 2 + m + z
      BY <1>12, <1>14, <2>1
    <2>3. body = at + 2 /\ rest = body + m /\ to = rest + z
      BY <1>9, <2>1 DEF Pieces
    <2>4. at + x = rest /\ at + y = to
      BY <1>15, <2>2, <2>3
    <2> QED
      BY <1>7, <2>1, <2>3, <2>4
  <1>19. Match(s, at, c)
    <2>1. Match(s, at + Len(h), b)
      BY <1>8, <1>18 DEF Pieces
    <2> QED
      BY <1>7, <1>10, <1>11, <1>15, <1>17, <2>1, MatchConcat
  <1>20. Match(s, at, e)
    <2>1. Match(s, at + Len(c), w.bytes)
      BY <1>18 DEF Pieces
    <2> QED
      BY <1>5, <1>12, <1>13, <1>15, <1>19, <2>1, MatchConcat
  <1>21. Match(s, at, e \o fl)
    <2>1. Match(s, at + Len(e), fl)
      BY <1>1, <1>18 DEF Pieces
    <2> QED
      BY <1>4, <1>14, <1>15, <1>20, <2>1, MatchConcat
  <1>22. at + Len(e \o fl) = to + Len(fl)
    <2>1. Len(e \o fl) = Len(e) + Len(fl) /\ Len(e) \in Nat /\ Len(fl) \in Nat
      BY <1>4, <1>14, ConcatAt
    <2>2. PICK y, z : y = Len(e) /\ z = Len(fl)
      OBVIOUS
    <2>3. at + (y + z) = (at + y) + z
      BY <1>15, <2>1, <2>2
    <2> QED
      BY <1>18, <2>1, <2>2, <2>3
  <1>23. encode_size[w][depth] # -1
    <2>1. depth \in Depths /\ ~(depth > MaxDepth)
      BY LevelsAssumption DEF Depths
    <2>2. encode_size[w][depth] = Len(encode_write[w])
      BY <1>2, <2>1, SizeIsLength DEF Accepted
    <2>3. Len(encode_write[w]) # -1
      BY <1>2, WriteIsLong
    <2> QED
      BY <2>2, <2>3
  <1> QED
    BY <1>1, <1>16, <1>21, <1>22, <1>23 DEF Encoded, Got

\* Two cells are the word read from them, and a cell is the type read from it.
LEMMA WordWritten ==
  ASSUME NEW s \in Seq(Cells), NEW at \in Nat, take(s, at, 2)
  PROVE  get_u64(s, at) \in Words /\ Match(s, at, put_u64(get_u64(s, at)))
PROOF
  <1>1. at + 2 <= Len(s) /\ Len(s) \in Nat
    BY DEF take
  <1>2. PICK a \in Cells, b \in Cells : a = s[at + 1] /\ b = s[at + 2]
    BY <1>1
  <1>3. get_u64(s, at) = a + Base * b
    BY <1>2 DEF get_u64
  <1>4. a + Base * b \in Words /\ put_u64(a + Base * b) = <<a, b>>
    BY WordInCells DEF put_u64
  <1>5. Match(s, at, <<a, b>>)
    BY <1>1, <1>2 DEF Match
  <1> QED
    BY <1>3, <1>4, <1>5

LEMMA TypeWritten ==
  ASSUME NEW c \in Cells, NEW ty \in Tags, ty = TypeOf(c)
  PROVE  Code(ty) = c
PROOF
  <1>1. ~(c > 16)
    BY CodesAreTypes
  <1>2. c \in 0 .. 16
    BY <1>1, WordInCells DEF Cells
  <1> QED
    BY <1>2, CodesAreTypes

\* What the decoder builds is a value, and one the encoder takes.
LEMMA ZeroIsWord == 0 \in Words /\ 0 \in Cells /\ 1 \in Words
PROOF
  <1>1. PICK B : B = Base * Base
    OBVIOUS
  <1>2. B \in Nat /\ B > 1
    BY <1>1, WordInCells
  <1>3. Words = 0 .. B - 1
    BY <1>1 DEF Words
  <1> QED
    BY <1>2, <1>3, WordInCells DEF Cells

Scalars == {"Unit", "Int", "UInt", "Float", "Bool", "Byte", "Char"}

LEMMA ScalarBuilt ==
  ASSUME NEW T, NEW ty \in Scalars, NEW n \in Numbers(ty), ScalarOK(ty, n),
         NEW w, w = Val(ty, 0, n, "Unit", << >>)
  PROVE  w \in Nodes(T) /\ ShapeOK(w)
PROOF
  <1>1. ty \in Tags /\ "Unit" \in Tags
    BY TagsAre DEF Scalars
  <1>2. n \in Int
    BY WordInCells DEF Numbers, Words, Cells, Scalars
  <1>3. /\ w.ty = ty /\ w.tag = 0 /\ w.n = n /\ w.elem_ty = "Unit" /\ w.len = 0
        /\ w.bytes = << >> /\ w.data = << >>
    BY DEF Val
  <1>4. UnionOK(w)
    <2>1. PICK e : e = << >>
      OBVIOUS
    <2>2. ty \notin {"String"} \cup Listed \cup Fielded \cup Boxes
      BY DEF Scalars, Listed, Fielded, Boxes
    <2>3. w.len = Len(w.bytes) + Len(w.data)
      <3>1. w.bytes = e /\ w.data = e /\ w.len = 0
        BY <1>3, <2>1
      <3>2. 0 = Len(e) + Len(e)
        BY <2>1
      <3> QED
        BY <3>1, <3>2
    <2>4. w.n \in Numbers(w.ty)
      BY <1>3
    <2> QED
      BY <1>3, <2>2, <2>3, <2>4, Zenon DEF UnionOK
  <1>5. w \in [ty : Tags, tag : Cells, n : Int, elem_ty : Tags, len : Words, bytes : Seq(Cells),
               data : Seq(T)]
    <2>1. << >> \in Seq(Cells) /\ << >> \in Seq(T)
      OBVIOUS
    <2> QED
      BY <1>1, <1>2, <2>1, ZeroIsWord DEF Val
  <1>6. tag_crosses(ty)
    BY <1>1 DEF tag_crosses, Scalars, Tags
  <1>7. ElementsFit(w)
    BY <1>3 DEF ElementsFit, Scalars
  <1>8. ShapeOK(w)
    BY <1>3, <1>6, <1>7 DEF ShapeOK, Scalars, Variants, Boxes
  <1> QED
    BY <1>4, <1>5, <1>8 DEF Nodes

LEMMA StringBuilt ==
  ASSUME NEW T, NEW bs \in Seq(Cells), Len(bs) \in Words, NEW w, w = Str(bs)
  PROVE  w \in Nodes(T) /\ ShapeOK(w)
PROOF
  <1>1. "String" \in Tags /\ "Unit" \in Tags
    BY TagsAre
  <1>2. /\ w.ty = "String" /\ w.tag = 0 /\ w.n = 0 /\ w.elem_ty = "Unit" /\ w.len = Len(bs)
        /\ w.bytes = bs /\ w.data = << >>
    BY DEF Str
  <1>3. UnionOK(w)
    <2>1. Len(bs) = Len(bs) + Len(<< >>)
      OBVIOUS
    <2> QED
      BY <1>2, <2>1 DEF UnionOK, Numbers, Listed, Fielded, Boxes
  <1>4. w \in [ty : Tags, tag : Cells, n : Int, elem_ty : Tags, len : Words, bytes : Seq(Cells),
               data : Seq(T)]
    <2>1. << >> \in Seq(T) /\ 0 \in Int
      OBVIOUS
    <2> QED
      BY <1>1, <2>1, ZeroIsWord DEF Str
  <1>5. tag_crosses("String") /\ ScalarOK("String", 0)
    BY <1>1 DEF tag_crosses, ScalarOK, Tags
  <1>6. ElementsFit(w)
    BY <1>2 DEF ElementsFit
  <1>7. w.len # 0 => w.bytes # << >>
    BY <1>2
  <1>8. ShapeOK(w)
    BY <1>2, <1>5, <1>6, <1>7 DEF ShapeOK, Variants, Boxes
  <1> QED
    BY <1>3, <1>4, <1>8 DEF Nodes

\* The rules for a composite.
Formed(ty, tag, el, vs) ==
  /\ ty \notin Listed => el = "Unit"
  /\ ty \in Boxes => Len(vs) <= 1 /\ tag <= 1
  /\ ty \notin Variants => tag = 0
  /\ ty = "List" => tag_crosses(el)
  /\ ty = "Map" => tag_keyable(el) /\ Len(vs) % 2 = 0
  /\ ty = "Option" => (tag = 0 <=> vs = << >>)
  /\ ty = "Result" => vs # << >>
  /\ \A i \in 1 .. Len(vs) : element_fits(ty, i, el, vs[i].ty)

LEMMA ItemsBuilt ==
  ASSUME NEW T, NEW ty \in Listed \cup Fielded \cup Boxes, NEW tag \in Cells, NEW el \in Tags,
         NEW vs \in Seq(T), Len(vs) \in Words, Formed(ty, tag, el, vs),
         NEW w, w = Val(ty, tag, 0, el, vs)
  PROVE  w \in Nodes(T) /\ ShapeOK(w)
PROOF
  <1>1. ty \in Tags /\ ty # "String"
    BY TagsAre DEF Listed, Fielded, Boxes
  <1>2. /\ w.ty = ty /\ w.tag = tag /\ w.n = 0 /\ w.elem_ty = el /\ w.len = Len(vs)
        /\ w.bytes = << >> /\ w.data = vs
    BY DEF Val
  <1>3. UnionOK(w)
    <2>1. Len(vs) = Len(<< >>) + Len(vs)
      OBVIOUS
    <2>2. Numbers(ty) = {0}
      BY DEF Numbers, Listed, Fielded, Boxes
    <2> QED
      BY <1>1, <1>2, <2>1, <2>2 DEF UnionOK, Formed
  <1>4. w \in [ty : Tags, tag : Cells, n : Int, elem_ty : Tags, len : Words, bytes : Seq(Cells),
               data : Seq(T)]
    <2>1. << >> \in Seq(Cells) /\ 0 \in Int
      OBVIOUS
    <2> QED
      BY <1>1, <2>1 DEF Val
  <1>5. tag_crosses(ty) /\ ScalarOK(ty, 0)
    BY <1>1 DEF tag_crosses, ScalarOK, Tags, Listed, Fielded, Boxes
  <1>6. ElementsFit(w)
    <2>1. DOMAIN vs = 1 .. Len(vs)
      OBVIOUS
    <2> QED
      BY <1>2, <2>1 DEF ElementsFit, element_fits, Formed
  <1>7. w.len # 0 => w.data # << >>
    BY <1>2
  <1>8. ShapeOK(w)
    BY <1>2, <1>5, <1>6, <1>7 DEF ShapeOK, Formed
  <1> QED
    BY <1>3, <1>4, <1>8 DEF Nodes

\* The header the decoder takes.
LEMMA HeaderTaken ==
  ASSUME NEW s \in Seq(Cells), NEW at \in 0 .. Len(s), NEW inner,
         NEW r, r = decode_value(s, at, inner), r.ok
  PROVE  \E ty \in Tags, tag \in Cells, body \in Nat, rest \in Nat :
           /\ take(s, at, 2) /\ s[at + 1] = Code(ty) /\ s[at + 2] = tag
           /\ tag_crosses(ty) /\ (ty \notin Variants => tag = 0) /\ (ty \in Boxes => tag <= 1)
           /\ body = at + 2 /\ rest = body + BodyLen(ty) /\ take(s, body, BodyLen(ty))
           /\ rest <= Len(s)
           /\ r = decode_body(s, body, ty, tag, inner)
PROOF
  <1>1. take(s, at, 2)
    BY DEF decode_value, Refused
  <1>2. at \in Nat /\ Len(s) \in Nat /\ at + 2 <= Len(s)
    BY <1>1 DEF take
  <1>3. PICK c \in Cells, tag \in Cells : c = s[at + 1] /\ tag = s[at + 2]
    BY <1>2
  <1>4. PICK ty : ty = TypeOf(c)
    OBVIOUS
  <1>5. PICK body \in Nat : body = at + 2
    BY <1>2
  <1>6. /\ tag_crosses(ty) /\ ~(ty \notin Variants /\ tag # 0) /\ ~(ty \in Boxes /\ tag > 1)
        /\ take(s, body, BodyLen(ty)) /\ r = decode_body(s, body, ty, tag, inner)
    BY <1>1, <1>3, <1>4, <1>5 DEF decode_value, Refused
  <1>7. ty \in Tags
    BY <1>6 DEF tag_crosses, Tags
  <1>8. BodyLen(ty) \in Nat
    BY DEF BodyLen
  <1>9. PICK m \in Nat : m = BodyLen(ty)
    BY <1>8
  <1>10. body + m <= Len(s)
    <2>1. Len(s) - body >= m
      BY <1>6, <1>9 DEF take
    <2> QED
      BY <1>2, <2>1
  <1>11. s[at + 1] = Code(ty)
    BY <1>3, <1>4, <1>7, TypeWritten
  <1>12. tag <= 1 \/ tag > 1
    BY DEF Cells
  <1> QED
    BY <1>1, <1>3, <1>5, <1>6, <1>7, <1>8, <1>9, <1>10, <1>11, <1>12

\* The elements of a composite, read behind its fixed part, and the value over them.
ItemsAre(s, rest, depth, ty, tag, el, vs, r) ==
  /\ Accepted(vs, depth + 1)
  /\ \A i \in 1 .. Len(vs) : element_fits(ty, i, el, vs[i].ty)
  /\ Match(s, rest, FlattenSeq(Writes(vs)))
  /\ r = Got(Val(ty, tag, 0, el, vs), rest + Len(FlattenSeq(Writes(vs))))

LEMMA ItemsOnly ==
  ASSUME NEW s \in Seq(Cells), NEW T, T \subseteq GeasValue, NEW rest \in 0 .. Len(s),
         NEW depth \in 1 .. MaxDepth, NEW ty, NEW tag, NEW el, NEW inner, NEW count \in Nat,
         ReadsOnly(inner, s, T, depth + 1),
         NEW r, r = decode_items(inner, rest, count, ty, tag, el), r.ok
  PROVE  \E vs \in Seq(T) : Len(vs) = count /\ ItemsAre(s, rest, depth, ty, tag, el, vs, r)
PROOF
  <1>1. PICK end : end = decode_all(inner, rest, count, ty, el)
    OBVIOUS
  <1>2. end.ok /\ r = Got(Val(ty, tag, 0, el, end.vs), end.at)
    BY <1>1 DEF decode_items, Refused
  <1>3. PICK d \in Depths : d = depth + 1
    BY LevelsAssumption DEF Depths
  <1>4. end.vs \in Seq(T) /\ Len(end.vs) = count /\ Taken(s, T, rest, d, ty, el, end)
    <2>1. ReadsOnly(inner, s, T, d)
      BY <1>3
    <2> QED
      BY <1>1, <1>2, <2>1, AllTaken, SMTT(30)
  <1> QED
    BY <1>2, <1>3, <1>4 DEF Taken, Accepted, ItemsAre

LEMMA EmptyIs ==
  ASSUME NEW T
  PROVE  << >> \in Seq(T) /\ \A vs \in Seq(T) : Len(vs) = 1 => vs # << >> /\ Len(vs) <= 1
PROOF
  <1>1. << >> \in Seq(T)
    OBVIOUS
  <1>2. ASSUME NEW vs \in Seq(T), Len(vs) = 1 PROVE vs # << >> /\ Len(vs) <= 1
    <2>1. Len(<< >>) = 0
      OBVIOUS
    <2>2. vs # << >>
      BY <1>2, <2>1
    <2>3. Len(vs) <= 1
      BY <1>2
    <2> QED
      BY <2>2, <2>3
  <1> QED
    BY <1>1, <1>2

LEMMA NothingBehind ==
  ASSUME NEW s \in Seq(Cells), NEW rest \in 0 .. Len(s)
  PROVE  /\ Writes(<< >>) = << >> /\ FlattenSeq(<< >>) = << >>
         /\ Match(s, rest, << >>) /\ rest + Len(<< >>) = rest
         /\ \A d : Accepted(<< >>, d)
PROOF
  <1>1. Writes(<< >>) = << >>
    BY DEF Writes
  <1>2. FlattenSeq(<< >>) = << >>
    BY DEF FlattenSeq
  <1>3. Match(s, rest, << >>) /\ rest + Len(<< >>) = rest
    BY DEF Match
  <1>4. \A d : Accepted(<< >>, d)
    BY DEF Accepted
  <1> QED
    BY <1>1, <1>2, <1>3, <1>4

\* A header and a body of its type, found in the cells.
Headed(s, at, ty, tag, body, rest) ==
  /\ take(s, at, 2) /\ s[at + 1] = Code(ty) /\ s[at + 2] = tag
  /\ body = at + 2 /\ rest = body + BodyLen(ty) /\ take(s, body, BodyLen(ty))

\* A value without bytes and elements.
LEMMA ScalarEncoded ==
  ASSUME NEW s \in Seq(Cells), NEW T, Nodes(T) \subseteq GeasValue, NEW at \in 0 .. Len(s),
         NEW depth \in 1 .. MaxDepth, NEW ty \in Tags, NEW tag, NEW body \in Nat,
         NEW rest \in 0 .. Len(s), Headed(s, at, ty, tag, body, rest),
         NEW w \in Nodes(T), ShapeOK(w), w.ty = ty, w.tag = tag, w.bytes = << >>, w.data = << >>,
         Match(s, body, WriteBody(w)), NEW r, r = Got(w, rest)
  PROVE  Encoded(s, Nodes(T), at, depth, r)
PROOF
  <1>1. PICK to \in Nat : to = rest
    OBVIOUS
  <1>2. Pieces(s, w, at, body, rest, to)
    <2>1. take(s, at, 2) /\ s[at + 1] = Code(w.ty) /\ s[at + 2] = w.tag /\ body = at + 2
          /\ rest = body + BodyLen(w.ty)
      BY DEF Headed
    <2>2. Match(s, rest, w.bytes) /\ to = rest + Len(w.bytes)
      BY <1>1, NothingBehind
    <2>3. Match(s, to, FlattenSeq(Writes(w.data)))
      BY <1>1, NothingBehind
    <2> QED
      BY <2>1, <2>2, <2>3 DEF Pieces
  <1>3. r = Got(w, to + Len(FlattenSeq(Writes(w.data)))) /\ Accepted(w.data, depth + 1)
    BY <1>1, NothingBehind
  <1>4. rest \in Nat
    OBVIOUS
  <1> QED
    BY <1>2, <1>3, <1>4, NodeEncoded

\* A composite over elements that were found behind it.
LEMMA ItemsEncoded ==
  ASSUME NEW s \in Seq(Cells), NEW T, Nodes(T) \subseteq GeasValue, NEW at \in 0 .. Len(s),
         NEW depth \in 1 .. MaxDepth, NEW ty \in Tags, NEW tag, NEW body \in Nat,
         NEW rest \in 0 .. Len(s), Headed(s, at, ty, tag, body, rest),
         NEW w \in Nodes(T), ShapeOK(w), w.ty = ty, w.tag = tag, w.bytes = << >>,
         Accepted(w.data, depth + 1),
         Match(s, body, WriteBody(w)), Match(s, rest, FlattenSeq(Writes(w.data))),
         NEW r, r = Got(w, rest + Len(FlattenSeq(Writes(w.data))))
  PROVE  Encoded(s, Nodes(T), at, depth, r)
PROOF
  <1>1. PICK to \in Nat : to = rest
    OBVIOUS
  <1>2. Pieces(s, w, at, body, rest, to)
    <2>1. take(s, at, 2) /\ s[at + 1] = Code(w.ty) /\ s[at + 2] = w.tag /\ body = at + 2
          /\ rest = body + BodyLen(w.ty)
      BY DEF Headed
    <2>2. Match(s, rest, w.bytes) /\ to = rest + Len(w.bytes)
      BY <1>1, NothingBehind
    <2> QED
      BY <1>1, <2>1, <2>2 DEF Pieces
  <1>3. rest \in Nat /\ r = Got(w, to + Len(FlattenSeq(Writes(w.data))))
    BY <1>1
  <1> QED
    BY <1>2, <1>3, NodeEncoded

\* One value, when the decoder one level down accepts only encodings.
LEMMA ValueOnly ==
  ASSUME NEW s \in Seq(Cells), NEW T, T \subseteq GeasValue, Nodes(T) \subseteq GeasValue,
         NEW at \in 0 .. Len(s), NEW depth \in 1 .. MaxDepth, NEW inner,
         ReadsOnly(inner, s, T, depth + 1), NEW r, r = decode_value(s, at, inner), r.ok
  PROVE  Encoded(s, Nodes(T), at, depth, r)
PROOF
  <1>1. PICK ty \in Tags, tag \in Cells, body \in Nat, rest \in Nat :
           /\ take(s, at, 2) /\ s[at + 1] = Code(ty) /\ s[at + 2] = tag
           /\ tag_crosses(ty) /\ (ty \notin Variants => tag = 0) /\ (ty \in Boxes => tag <= 1)
           /\ body = at + 2 /\ rest = body + BodyLen(ty) /\ take(s, body, BodyLen(ty))
           /\ rest <= Len(s)
           /\ r = decode_body(s, body, ty, tag, inner)
    BY HeaderTaken
  <1>2. rest \in 0 .. Len(s) /\ Headed(s, at, ty, tag, body, rest)
    BY <1>1 DEF Headed
  <1>3. PICK count, el : count = get_u64(s, body) /\ el = TypeOf(s[body + 3])
    OBVIOUS
  <1>4. ASSUME BodyLen(ty) \in {2, 3}
        PROVE  /\ count \in Words /\ count \in Nat
               /\ Match(s, body, put_u64(count)) /\ put_u64(count) \in Seq(Cells) /\ Len(put_u64(count)) = 2
    <2>1. take(s, body, 2)
      BY <1>1, <1>4 DEF take
    <2>2. count \in Words /\ Match(s, body, put_u64(count))
      BY <1>3, <2>1, WordWritten
    <2> QED
      <3>1. count \in Nat
        BY <2>2 DEF Words
      <3>2. put_u64(count) \in Seq(Cells) /\ Len(put_u64(count)) = 2
        BY <2>2, WordInCells DEF put_u64
      <3> QED
        BY <2>2, <3>1, <3>2
  <1>5. CASE ty \in Scalars
    <2>1. tag = 0
      BY <1>1, <1>5 DEF Scalars, Variants
    <2>2. \E n \in Numbers(ty) :
            /\ ScalarOK(ty, n) /\ r = Got(Val(ty, 0, n, "Unit", << >>), rest)
            /\ Match(s, body, WriteBody(Val(ty, 0, n, "Unit", << >>)))
      <3> DEFINE w(n) == Val(ty, 0, n, "Unit", << >>)
      <3>1. \A n : w(n).ty = ty /\ w(n).n = n
        BY DEF Val
      <3>2. CASE ty = "Unit"
        <4>1. r = Got(w(0), rest)
          BY <1>1, <1>3, <3>2, BodyOf DEF Zeroed
        <4>2. WriteBody(w(0)) = << >> /\ BodyLen(ty) = 0
          BY <3>1, <3>2 DEF WriteBody, BodyLen, Fielded, Listed
        <4>3. body = rest
          BY <1>1, <4>2
        <4>4. Match(s, body, << >>)
          BY <1>2, <4>3, NothingBehind
        <4>5. 0 \in Numbers(ty) /\ ScalarOK(ty, 0)
          BY <3>2 DEF Numbers, ScalarOK
        <4> QED
          BY <4>1, <4>2, <4>4, <4>5
      <3>3. CASE ty \in {"UInt", "Float"}
        <4>1. r = Got(w(count), rest)
          BY <1>1, <1>3, <3>3, BodyOf
        <4>2. BodyLen(ty) = 2
          BY <3>3 DEF BodyLen, Fielded, Listed
        <4>3. count \in Words /\ Match(s, body, put_u64(count))
          BY <1>4, <4>2
        <4>4. Unsigned(count) = count
          BY <4>3, SignedUnsigned
        <4>5. WriteBody(w(count)) = put_u64(count)
          BY <3>1, <3>3, <4>4 DEF WriteBody, Fielded, Listed
        <4>6. count \in Numbers(ty) /\ ScalarOK(ty, count)
          BY <3>3, <4>3 DEF Numbers, ScalarOK
        <4> QED
          BY <4>1, <4>3, <4>5, <4>6
      <3>4. CASE ty = "Int"
        <4>1. r = Got(w(Signed(count)), rest)
          BY <1>1, <1>3, <3>4, BodyOf
        <4>2. BodyLen(ty) = 2
          BY <3>4 DEF BodyLen, Fielded, Listed
        <4>3. count \in Words /\ Match(s, body, put_u64(count))
          BY <1>4, <4>2
        <4>4. Signed(count) \in Numbers(ty) /\ Unsigned(Signed(count)) = count
          BY <3>4, <4>3, SignedUnsigned
        <4>5. WriteBody(w(Signed(count))) = put_u64(count)
          BY <3>1, <3>4, <4>4 DEF WriteBody, Fielded, Listed
        <4>6. ScalarOK(ty, Signed(count))
          BY <3>4 DEF ScalarOK
        <4> QED
          BY <4>1, <4>3, <4>4, <4>5, <4>6
      <3>5. CASE ty \in {"Bool", "Byte", "Char"}
        <4>1. PICK n : n = s[body + 1]
          OBVIOUS
        <4>2. ScalarOK(ty, n) /\ r = Got(w(n), rest)
          BY <1>1, <1>3, <3>5, <4>1, BodyOf DEF Refused
        <4>3. BodyLen(ty) = 1
          BY <3>5 DEF BodyLen, Fielded, Listed
        <4>4. body + 1 <= Len(s)
          BY <1>1, <4>3
        <4>5. n \in Cells
          BY <4>1, <4>4
        <4>6. WriteBody(w(n)) = <<n>>
          BY <3>1, <3>5 DEF WriteBody, put_u32, Fielded, Listed
        <4>7. Match(s, body, <<n>>)
          BY <4>1, <4>4 DEF Match
        <4>8. n \in Numbers(ty)
          BY <3>5, <4>5 DEF Numbers
        <4> QED
          BY <4>2, <4>6, <4>7, <4>8
      <3> QED
        BY <1>5, <3>2, <3>3, <3>4, <3>5 DEF Scalars
    <2>3. PICK n \in Numbers(ty) :
            /\ ScalarOK(ty, n) /\ r = Got(Val(ty, 0, n, "Unit", << >>), rest)
            /\ Match(s, body, WriteBody(Val(ty, 0, n, "Unit", << >>)))
      BY <2>2
    <2>4. PICK w : w = Val(ty, 0, n, "Unit", << >>)
      OBVIOUS
    <2>5. w \in Nodes(T) /\ ShapeOK(w)
      BY <1>5, <2>3, <2>4, ScalarBuilt
    <2>6. w.ty = ty /\ w.tag = tag /\ w.bytes = << >> /\ w.data = << >>
      BY <2>1, <2>4 DEF Val
    <2>7. r = Got(w, rest) /\ Match(s, body, WriteBody(w))
      BY <2>3, <2>4
    <2> QED
      BY <1>2, <2>5, <2>6, <2>7, ScalarEncoded
  <1>6. CASE ty = "String"
    <2>1. BodyLen(ty) = 2 /\ tag = 0
      BY <1>1, <1>6 DEF BodyLen, Fielded, Listed, Variants
    <2>2. count \in Words /\ count \in Nat /\ Match(s, body, put_u64(count))
      BY <1>4, <2>1
    <2>3. PICK bs : bs = SubSeq(s, rest + 1, rest + count)
      OBVIOUS
    <2>4. take(s, rest, count) /\ r = Got(Str(bs), rest + count)
      BY <1>1, <1>3, <1>6, <2>3, BodyOf DEF Refused
    <2>5. rest + count <= Len(s)
      <3>1. Len(s) - rest >= count /\ Len(s) \in Nat
        BY <2>4 DEF take
      <3> QED
        BY <2>2, <3>1
    <2>6. bs \in Seq(Cells) /\ Len(bs) = count
      BY <2>2, <2>3, <2>5
    <2>7. Match(s, rest, bs)
      BY <2>2, <2>3, <2>5, <2>6, MatchIsSubSeq
    <2>8. PICK w : w = Str(bs)
      OBVIOUS
    <2>9. w \in Nodes(T) /\ ShapeOK(w)
      BY <2>2, <2>6, <2>8, StringBuilt
    <2>10. w.ty = ty /\ w.tag = tag /\ w.bytes = bs /\ w.data = << >> /\ w.len = count
      BY <1>6, <2>1, <2>6, <2>8 DEF Str
    <2>11. WriteBody(w) = put_u64(count)
      BY <1>6, <2>10 DEF WriteBody, Fielded, Listed
    <2>12. PICK to \in 0 .. Len(s) : to = rest + count
      BY <2>2, <2>5
    <2>13. Match(s, to, FlattenSeq(Writes(w.data))) /\ to + Len(FlattenSeq(Writes(w.data))) = to
           /\ Accepted(w.data, depth + 1)
      BY <2>10, NothingBehind
    <2>14. Pieces(s, w, at, body, rest, to)
      BY <1>1, <2>2, <2>6, <2>7, <2>10, <2>11, <2>12, <2>13 DEF Pieces
    <2>15. r = Got(w, to + Len(FlattenSeq(Writes(w.data)))) /\ to \in Nat
      BY <2>4, <2>8, <2>12, <2>13
    <2> QED
      BY <2>9, <2>13, <2>14, <2>15, NodeEncoded
  <1>7. ASSUME ty \in Listed \cup Fielded \cup Boxes, NEW k \in Words, k \in Nat, NEW e \in Tags,
               r = decode_items(inner, rest, k, ty, tag, e),
               ty \notin Listed => e = "Unit", ty \in Boxes => k = 1,
               ty = "List" => tag_crosses(e), ty = "Map" => tag_keyable(e) /\ k % 2 = 0,
               ty = "Option" => tag # 0,
               ty \in Listed => Match(s, body, put_u64(k) \o put_u32(Code(e))),
               ty \in Fielded => Match(s, body, put_u64(k))
        PROVE  Encoded(s, Nodes(T), at, depth, r)
    <2>0. PICK vs \in Seq(T) : Len(vs) = k /\ ItemsAre(s, rest, depth, ty, tag, e, vs, r)
      <3>1. k \in Nat /\ r = decode_items(inner, rest, k, ty, tag, e)
        BY <1>7
      <3> QED
        BY <1>2, <3>1, ItemsOnly
    <2>1. /\ Len(vs) = k /\ Accepted(vs, depth + 1)
          /\ \A i \in 1 .. Len(vs) : element_fits(ty, i, e, vs[i].ty)
          /\ Match(s, rest, FlattenSeq(Writes(vs)))
          /\ r = Got(Val(ty, tag, 0, e, vs), rest + Len(FlattenSeq(Writes(vs))))
      BY <2>0 DEF ItemsAre
    <2>2. PICK w : w = Val(ty, tag, 0, e, vs)
      OBVIOUS
    <2>3. w.ty = ty /\ w.tag = tag /\ w.bytes = << >> /\ w.data = vs /\ w.len = k /\ w.elem_ty = e
      BY <2>1, <2>2 DEF Val
    <2>4. ASSUME ty \in Boxes PROVE vs # << >> /\ Len(vs) <= 1
      <3>1. Len(vs) = 1
        BY <1>7, <2>1, <2>4
      <3> QED
        BY <3>1, EmptyIs
    <2>5. w \in Nodes(T) /\ ShapeOK(w)
      <3>1. ty = "Option" => (tag = 0 <=> vs = << >>)
        BY <1>7, <2>4 DEF Boxes
      <3>2. ty = "Result" => vs # << >>
        BY <2>4 DEF Boxes
      <3>3. (ty = "Map" => tag_keyable(e) /\ Len(vs) % 2 = 0) /\ Len(vs) \in Words
        BY <1>7, <2>1
      <3>4. Formed(ty, tag, e, vs)
        BY <1>1, <1>7, <2>1, <2>4, <3>1, <3>2, <3>3 DEF Formed
      <3> QED
        BY <1>7, <2>2, <3>3, <3>4, ItemsBuilt
    <2>6. Match(s, body, WriteBody(w))
      <3>1. CASE ty \in Listed
        BY <1>7, <2>3, <3>1 DEF WriteBody, Listed, Fielded
      <3>2. CASE ty \in Fielded
        BY <1>7, <2>3, <3>2 DEF WriteBody, Listed, Fielded
      <3>3. CASE ty \in Boxes
        <4>1. WriteBody(w) = << >> /\ BodyLen(ty) = 0
          BY <2>3, <3>3 DEF WriteBody, BodyLen, Listed, Fielded, Boxes
        <4>2. body = rest
          BY <1>1, <4>1
        <4> QED
          BY <1>2, <4>1, <4>2, NothingBehind
      <3> QED
        BY <1>7, <3>1, <3>2, <3>3
    <2>7. /\ Accepted(w.data, depth + 1) /\ Match(s, rest, FlattenSeq(Writes(w.data)))
          /\ r = Got(w, rest + Len(FlattenSeq(Writes(w.data))))
      BY <2>1, <2>2, <2>3
    <2> QED
      BY <1>2, <2>3, <2>5, <2>6, <2>7, ItemsEncoded
  <1>8. CASE ty \in Listed
    <2>1. BodyLen(ty) = 3
      BY <1>8 DEF BodyLen, Fielded, Listed
    <2>2. count \in Words /\ count \in Nat /\ Match(s, body, put_u64(count))
          /\ put_u64(count) \in Seq(Cells) /\ Len(put_u64(count)) = 2
      BY <1>4, <2>1
    <2>3. /\ r = decode_items(inner, rest, count, ty, tag, el)
          /\ ty = "List" => tag_crosses(el)
          /\ ty = "Map" => tag_keyable(el) /\ count % 2 = 0
      <3>1. CASE ty = "List"
        BY <1>1, <1>3, <3>1, BodyOf DEF Refused
      <3>2. CASE ty = "Map"
        BY <1>1, <1>3, <3>2, BodyOf DEF Refused
      <3> QED
        BY <1>8, <3>1, <3>2 DEF Listed
    <2>4. el \in Tags
      BY <1>8, <2>3, TagsAre DEF Listed, tag_crosses, tag_keyable, Tags
    <2>5. body + 3 <= Len(s)
      BY <1>1, <2>1
    <2>6. PICK c \in Cells : c = s[body + 3]
      BY <2>5
    <2>7. Code(el) = c
      BY <1>3, <2>4, <2>6, TypeWritten
    <2>8. Match(s, body + 2, put_u32(c)) /\ put_u32(c) \in Seq(Cells)
      BY <2>5, <2>6 DEF Match, put_u32
    <2>9. Match(s, body, put_u64(count) \o put_u32(c))
      BY <2>2, <2>8, MatchConcat
    <2> QED
      BY <1>7, <1>8, <2>2, <2>3, <2>4, <2>7, <2>9 DEF Listed, Fielded, Boxes
  <1>9. CASE ty \in Fielded
    <2>1. BodyLen(ty) = 2 /\ ty \notin Listed /\ ty \notin Boxes /\ "Unit" \in Tags
      BY <1>9, TagsAre DEF BodyLen, Fielded, Listed, Boxes
    <2>2. count \in Words /\ count \in Nat /\ Match(s, body, put_u64(count))
      BY <1>4, <2>1
    <2>3. r = decode_items(inner, rest, count, ty, tag, "Unit")
      BY <1>1, <1>3, <1>9, BodyOf DEF Refused
    <2> QED
      BY <1>7, <1>9, <2>1, <2>2, <2>3 DEF Listed, Fielded, Boxes
  <1>10. CASE ty = "Option" /\ tag = 0
    <2>1. PICK w : w = Val(ty, 0, 0, "Unit", << >>)
      OBVIOUS
    <2>2. r = Got(w, rest)
      BY <1>1, <1>3, <1>10, <2>1, BodyOf
    <2>3. w.ty = ty /\ w.tag = tag /\ w.bytes = << >> /\ w.data = << >>
      BY <1>10, <2>1 DEF Val
    <2>4. w \in Nodes(T) /\ ShapeOK(w)
      <3>1. PICK vs : vs = << >> /\ vs \in Seq(T)
        BY EmptyIs, Zenon
      <3>2. Len(vs) = 0 /\ Len(vs) \in Words /\ 1 .. Len(vs) = {}
        BY <3>1, ZeroIsWord
      <3>3. "Unit" \in Tags /\ ty \in Boxes /\ ty # "List" /\ ty # "Map" /\ ty # "Result"
            /\ ty \in Variants /\ tag <= 1 /\ Len(vs) <= 1
        BY <1>10, <3>2, TagsAre DEF Boxes, Variants
      <3>4. w = Val(ty, tag, 0, "Unit", vs)
        BY <1>10, <2>1, <3>1
      <3>5. Formed(ty, tag, "Unit", vs)
        BY <1>10, <3>1, <3>2, <3>3 DEF Formed
      <3> QED
        BY <3>1, <3>2, <3>3, <3>4, <3>5, ItemsBuilt
    <2>5. WriteBody(w) = << >> /\ BodyLen(ty) = 0
      BY <1>10, <2>3 DEF WriteBody, BodyLen, Listed, Fielded
    <2>6. Match(s, body, WriteBody(w))
      <3>1. body = rest
        BY <1>1, <2>5
      <3> QED
        BY <1>2, <2>5, <3>1, NothingBehind
    <2> QED
      BY <1>2, <2>2, <2>3, <2>4, <2>6, ScalarEncoded
  <1>11. CASE ty \in Boxes /\ ~(ty = "Option" /\ tag = 0)
    <2>1. r = decode_items(inner, rest, 1, ty, tag, "Unit")
      BY <1>1, <1>3, <1>11, BodyOf DEF Boxes
    <2>2. "Unit" \in Tags /\ 1 \in Words /\ 1 \in Nat
      BY TagsAre, ZeroIsWord
    <2> QED
      BY <1>7, <1>11, <2>1, <2>2 DEF Listed, Fielded, Boxes
  <1>12. ty \in Scalars \cup {"String"} \cup Listed \cup Fielded \cup Boxes
    BY <1>1, TagsAre DEF tag_crosses, Tags, Scalars, Listed, Fielded, Boxes
  <1> QED
    BY <1>5, <1>6, <1>8, <1>9, <1>10, <1>11, <1>12

\* At every depth the decoder accepts only encodings, of values no deeper than what is left.
LEMMA DecodesOnly ==
  ASSUME NEW s \in Seq(Cells)
  PROVE  \A depth \in Depths : ReadsOnly(Decoders(s)[depth], s, GeasValue, depth)
PROOF
  <1>1. PICK n \in Nat : n = MaxDepth
    BY LevelsAssumption
  <1> DEFINE S == {k \in 0 .. n : ReadsOnly(Decoders(s)[(n + 1) - k], s, Trees[k], (n + 1) - k)}
  <1>2. 0 \in S
    <2>1. (n + 1) - 0 = MaxDepth + 1
      BY <1>1
    <2>2. \A at \in 0 .. Len(s) : Decoders(s)[MaxDepth + 1][at] = Refused
      BY DecodeUnfolds
    <2>3. ~Refused.ok
      BY DEF Refused
    <2> QED
      BY <1>1, <2>1, <2>2, <2>3 DEF ReadsOnly
  <1>3. \A k \in 0 .. (n - 1) : k \in S => k + 1 \in S
    <2> SUFFICES ASSUME NEW k \in 0 .. (n - 1), k \in S PROVE k + 1 \in S
      OBVIOUS
    <2>1. PICK d : d = (n + 1) - (k + 1)
      OBVIOUS
    <2>2. d \in 1 .. MaxDepth /\ d + 1 = (n + 1) - k /\ k + 1 \in 0 .. n
      BY <1>1, <2>1
    <2>3. PICK inner : inner = Decoders(s)[d + 1]
      OBVIOUS
    <2>4. ReadsOnly(inner, s, Trees[k], d + 1)
      BY <2>2, <2>3
    <2>5. k + 1 \in 1 .. Levels /\ (k + 1) - 1 = k /\ k \in 0 .. Levels /\ k + 1 \in 0 .. Levels
      BY <1>1, LevelsAssumption
    <2>6. Trees[k + 1] = Nodes(Trees[k]) /\ Trees[k] \subseteq GeasValue
          /\ Trees[k + 1] \subseteq GeasValue
      BY <2>5, TreesUnfold, TreesGrow
    <2>7. ASSUME NEW at \in 0 .. Len(s), Decoders(s)[d][at].ok
          PROVE  Encoded(s, Trees[k + 1], at, d, Decoders(s)[d][at])
      <3>1. PICK r : r = Decoders(s)[d][at]
        OBVIOUS
      <3>2. r = decode_value(s, at, inner)
        BY <2>2, <2>3, <3>1, DecodeUnfolds
      <3>3. Encoded(s, Nodes(Trees[k]), at, d, r)
        BY <2>2, <2>4, <2>6, <2>7, <3>1, <3>2, ValueOnly
      <3> QED
        BY <2>6, <3>1, <3>3
    <2> QED
      BY <2>1, <2>2, <2>7 DEF ReadsOnly
  <1>4. 0 .. n \subseteq S
    <2> HIDE DEF S
    <2> QED
      BY <1>1, <1>2, <1>3, InductUpTo
  <1>5. ASSUME NEW depth \in Depths PROVE ReadsOnly(Decoders(s)[depth], s, GeasValue, depth)
    <2>1. PICK k : k = (n + 1) - depth
      OBVIOUS
    <2>2. k \in 0 .. n /\ (n + 1) - k = depth /\ k \in 0 .. Levels
      BY <1>1, <2>1, LevelsAssumption DEF Depths
    <2>3. ReadsOnly(Decoders(s)[depth], s, Trees[k], depth)
      BY <1>4, <2>2
    <2>4. Trees[k] \subseteq GeasValue
      BY <2>2, TreesGrow
    <2> QED
      BY <2>3, <2>4 DEF ReadsOnly, Encoded
  <1> QED
    BY <1>5

-----------------------------------------------------------------------------
(* Frames.                                                                  *)

\* The cells of a frame header.
LEMMA FrameCells ==
  ASSUME NEW k, NEW a \in Cells, NEW b \in Cells, NEW n \in Nat, KindOK(k), n <= MaxPayload
  PROVE  /\ geas_wire_frame_write(k, a + Base * b, n) = <<MAGIC, k, a, b, n>>
         /\ <<MAGIC, k, a, b, n>> \in Seq(Cells)
PROOF
  <1>1. put_u64(a + Base * b) = <<a, b>>
    BY WordInCells DEF put_u64
  <1>2. geas_wire_frame_write(k, a + Base * b, n) = <<MAGIC>> \o <<k>> \o <<a, b>> \o <<n>>
    BY <1>1 DEF geas_wire_frame_write, put_u32
  <1>3. MAGIC \in Cells /\ k \in Cells /\ n \in Cells
    BY WordInCells, BaseAssumption DEF MAGIC, Cells, KindOK
  <1> QED
    BY <1>2, <1>3

\* The header of the message a sender writes, with its request id.
Header == geas_wire_frame_write(kind, Base + 1, Len(encode_write[val]))

LEMMA HeaderIs ==
  ASSUME val \in GeasValue, KindOK(kind), Len(encode_write[val]) <= MaxPayload
  PROVE  /\ Header = <<MAGIC, kind, 1, 1, Len(encode_write[val])>>
         /\ Header \in Seq(Cells) /\ Len(Header) = HeaderLen
         /\ encode_write[val] \in Seq(Cells) /\ Len(encode_write[val]) \in Nat
PROOF
  <1>1. 1 \in Cells /\ Base + 1 = 1 + Base * 1
    BY WordInCells DEF Cells
  <1>2. PICK n \in Nat : n = Len(encode_write[val])
    BY WriteIsLong
  <1>3. Header = <<MAGIC, kind, 1, 1, n>> /\ Header \in Seq(Cells)
    <2>1. Header = geas_wire_frame_write(kind, 1 + Base * 1, n)
      BY <1>1, <1>2 DEF Header
    <2> QED
      BY <1>1, <1>2, <2>1, FrameCells
  <1>4. Len(Header) = HeaderLen
    BY <1>3 DEF HeaderLen
  <1> QED
    BY <1>2, <1>3, <1>4, WriteIsLong

-----------------------------------------------------------------------------
(* The message on its way.                                                  *)

\* What the receiver makes of a stream.
Answer(w) ==
  LET frames == IF take(w, 0, HeaderLen) THEN geas_wire_frame_read(w) ELSE {}
  IN [frame |-> frames,
      res |-> IF \E f \in frames : take(w, HeaderLen, f.payload_len)
              THEN decode_rec(SubSeq(w, HeaderLen + 1, Len(w))) ELSE Refused]

\* The frame and the encoding of a value the encoder accepts stand first in the stream.
Whole(w) ==
  /\ encode_size[val][1] # -1
  /\ KindOK(kind) /\ Len(encode_write[val]) <= MaxPayload
  /\ Match(w, 0, Header \o encode_write[val])

WireInv ==
  /\ val \in Values
  /\ wire \in Seq(Cells)
  /\ phase \in {"sent", "arrived", "read"} /\ intact => Whole(wire)
  /\ got = IF phase = "read" THEN Answer(wire) ELSE Nothing

LEMMA ValIsValue ==
  ASSUME val \in Values
  PROVE  val \in GeasValue
PROOF
  BY ValuesAssumption

LEMMA InitWire == Init => WireInv
PROOF
  <1> SUFFICES ASSUME Init PROVE WireInv
    OBVIOUS
  <1>1. phase = "made" /\ val \in Values /\ wire = << >> /\ got = Nothing
    BY DEF Init
  <1>2. wire \in Seq(Cells)
    BY <1>1, EmptyIs
  <1> QED
    BY <1>1, <1>2 DEF WireInv

\* What a sender puts on the wire.
LEMMA SendsWhole ==
  ASSUME val \in GeasValue, KindOK(kind), Len(encode_write[val]) <= MaxPayload,
         Send(encode_write[val])
  PROVE  /\ wire' \in Seq(Cells) /\ phase' = "sent"
         /\ Match(wire', 0, Header \o encode_write[val])
PROOF
  <1>1. PICK e, h : e = encode_write[val] /\ h = Header
    OBVIOUS
  <1>2. e \in Seq(Cells) /\ h \in Seq(Cells)
    BY <1>1, HeaderIs
  <1>3. wire' = h \o e /\ phase' = "sent"
    BY <1>1 DEF Send, Header
  <1>4. h \o e \in Seq(Cells)
    BY <1>2, ConcatAt
  <1>5. Match(h \o e, 0, h \o e)
    <2>1. PICK w \in Seq(Cells) : w = h \o e
      BY <1>4
    <2>2. Match(w, 0, w)
      BY DEF Match
    <2> QED
      BY <2>1, <2>2
  <1> QED
    BY <1>1, <1>3, <1>4, <1>5

LEMMA FrameAccepts ==
  ASSUME NEW n, geas_wire_frame_write(kind, 0, n) # << >>
  PROVE  KindOK(kind) /\ n <= MaxPayload
PROOF
  BY DEF geas_wire_frame_write

LEMMA WholeFits ==
  ASSUME val \in GeasValue, encode_size[val][1] # -1
  PROVE  encode_size[val][1] = Len(encode_write[val])
PROOF
  <1>1. 1 \in Depths
    BY LevelsAssumption DEF Depths
  <1> QED
    BY <1>1, SizeIsLength

\* Every step keeps the stream one of cells, and an intact message at its front.
LEMMA NextWire == WireInv /\ [Next]_vars => WireInv'
PROOF
  <1> SUFFICES ASSUME WireInv, [Next]_vars PROVE WireInv'
    OBVIOUS
  <1>1. val \in Values /\ val \in GeasValue /\ wire \in Seq(Cells)
    BY ValIsValue DEF WireInv
  <1>2. CASE geas_wire_encode_value
    <2>1. /\ phase = "made" /\ val' = val /\ kind' = kind /\ intact' = intact /\ got' = got
          /\ got = Nothing
      BY <1>2 DEF geas_wire_encode_value, WireInv
    <2>2. CASE phase' = "refused" /\ wire' = wire
      BY <1>1, <2>1, <2>2 DEF WireInv
    <2>3. CASE /\ encode_size[val][1] # -1
               /\ geas_wire_frame_write(kind, 0, encode_size[val][1]) # << >>
               /\ Send(encode_write[val])
      <3>1. KindOK(kind) /\ Len(encode_write[val]) <= MaxPayload
        BY <1>1, <2>3, FrameAccepts, WholeFits
      <3>2. wire' \in Seq(Cells) /\ phase' = "sent" /\ Match(wire', 0, Header \o encode_write[val])
        BY <1>1, <2>3, <3>1, SendsWhole
      <3>3. Header' = Header /\ encode_write[val]' = encode_write[val]
        BY <2>1 DEF Header
      <3>4. Whole(wire)'
        BY <2>1, <2>3, <3>1, <3>2, <3>3 DEF Whole
      <3> QED
        BY <1>1, <2>1, <3>2, <3>4 DEF WireInv
    <2> QED
      BY <1>2, <2>2, <2>3 DEF geas_wire_encode_value
  <1>3. CASE ForeignSends
    <2>1. /\ phase = "made" /\ val' = val /\ kind' = kind /\ got' = got /\ got = Nothing
          /\ intact' = (encode_size[val][1] # -1)
          /\ Send(encode_write[val]) /\ geas_wire_frame_write(kind, 0, Len(encode_write[val])) # << >>
      BY <1>3 DEF ForeignSends, Foreign, WireInv
    <2>2. KindOK(kind) /\ Len(encode_write[val]) <= MaxPayload
      BY <2>1, FrameAccepts
    <2>3. wire' \in Seq(Cells) /\ phase' = "sent" /\ Match(wire', 0, Header \o encode_write[val])
      BY <1>1, <2>1, <2>2, SendsWhole
    <2>4. Header' = Header
      BY <2>1 DEF Header
    <2>5. intact' => Whole(wire)'
      BY <2>1, <2>2, <2>3, <2>4 DEF Whole
    <2> QED
      BY <1>1, <2>1, <2>3, <2>5 DEF WireInv
  <1>4. CASE Arrive
    <2>1. /\ phase = "sent" /\ phase' = "arrived" /\ val' = val /\ kind' = kind /\ got' = got
          /\ got = Nothing /\ (intact => Whole(wire))
      BY <1>4 DEF Arrive, WireInv
    <2>2. Header' = Header
      BY <2>1 DEF Header
    <2>3. CASE wire' = wire /\ intact' = intact
      <3>1. intact' => Whole(wire)'
        BY <2>1, <2>2, <2>3 DEF Whole
      <3> QED
        BY <1>1, <2>1, <2>3, <3>1 DEF WireInv
    <2>4. ASSUME NEW n \in Noise, wire' = Append(wire, n), intact' = intact PROVE WireInv'
      <3>1. n \in Cells
        BY NoiseAssumption DEF Cells
      <3>2. wire' \in Seq(Cells) /\ Len(wire') = Len(wire) + 1 /\ Len(wire) \in Nat
            /\ \A j \in 1 .. Len(wire) : wire'[j] = wire[j]
        BY <1>1, <2>4, <3>1
      <3>3. ASSUME intact' PROVE Whole(wire)'
        <4>1. Whole(wire) /\ KindOK(kind) /\ Len(encode_write[val]) <= MaxPayload
          BY <2>1, <2>4, <3>3 DEF Whole
        <4>2. PICK w : w = Header \o encode_write[val]
          OBVIOUS
        <4>3. w \in Seq(Cells)
          BY <1>1, <4>1, <4>2, HeaderIs, ConcatAt
        <4>4. PICK m \in Nat : m = Len(w)
          BY <4>3
        <4>5. m <= Len(wire) /\ \A j \in 1 .. m : wire[j] = w[j]
          <5>1. 0 + m <= Len(wire) /\ \A j \in 1 .. m : wire[0 + j] = w[j]
            BY <4>1, <4>2, <4>4 DEF Whole, Match
          <5> QED
            BY <5>1
        <4>6. \A j \in 1 .. m : 0 + j = j /\ j \in 1 .. Len(wire)
          BY <3>2, <4>5
        <4>7. 0 + m <= Len(wire') /\ \A j \in 1 .. m : wire'[0 + j] = w[j]
          BY <3>2, <4>5, <4>6
        <4>8. Match(wire', 0, w)
          BY <4>4, <4>7 DEF Match
        <4> QED
          BY <2>1, <2>2, <4>1, <4>2, <4>8 DEF Whole
      <3> QED
        BY <1>1, <2>1, <3>2, <3>3 DEF WireInv
    <2>5. ASSUME NEW n \in 0 .. Len(wire) - 1, wire' = SubSeq(wire, 1, n), intact' = FALSE
          PROVE  WireInv'
      <3>1. wire' \in Seq(Cells)
        BY <1>1, <2>5
      <3> QED
        BY <1>1, <2>1, <2>5, <3>1 DEF WireInv
    <2>6. ASSUME NEW i \in DOMAIN wire, NEW n \in Noise, wire' = [wire EXCEPT ![i] = n],
                 intact' = FALSE
          PROVE  WireInv'
      <3>1. n \in Cells
        BY NoiseAssumption DEF Cells
      <3>2. wire' \in Seq(Cells)
        BY <1>1, <2>6, <3>1
      <3> QED
        BY <1>1, <2>1, <2>6, <3>2 DEF WireInv
    <2> QED
      BY <1>4, <2>3, <2>4, <2>5, <2>6 DEF Arrive
  <1>5. CASE geas_wire_decode_value
    <2>1. /\ phase = "arrived" /\ phase' = "read" /\ val' = val /\ kind' = kind /\ wire' = wire
          /\ intact' = intact /\ got' = Answer(wire)
      BY <1>5, Zenon DEF geas_wire_decode_value, Answer
    <2>2. intact => Whole(wire)
      BY <2>1 DEF WireInv
    <2>3. intact' => Whole(wire)'
      BY <2>1, <2>2 DEF Whole, Header
    <2> QED
      BY <1>1, <2>1, <2>3 DEF WireInv
  <1>6. CASE UNCHANGED vars
    <2>1. /\ phase' = phase /\ val' = val /\ kind' = kind /\ wire' = wire /\ intact' = intact
          /\ got' = got
      BY <1>6 DEF vars
    <2>2. Whole(wire) => Whole(wire)'
      BY <2>1 DEF Whole, Header
    <2> QED
      BY <2>1, <2>2 DEF WireInv
  <1> QED
    BY <1>2, <1>3, <1>4, <1>5, <1>6 DEF Next

LEMMA WireHolds == Spec => []WireInv
PROOF
  BY InitWire, NextWire, PTL DEF Spec

\* What is behind the header, as a payload of its own.
LEMMA PayloadAt ==
  ASSUME NEW w \in Seq(Cells), take(w, 0, HeaderLen),
         NEW s, s = SubSeq(w, HeaderLen + 1, Len(w))
  PROVE  /\ s \in Seq(Cells) /\ Len(s) \in Nat /\ Len(w) \in Nat
         /\ Len(s) = Len(w) - HeaderLen /\ Len(w) >= 5
         /\ \A j \in 1 .. Len(s) : s[j] = w[HeaderLen + j]
PROOF
  <1>1. PICK n \in Nat : n = Len(w)
    OBVIOUS
  <1>2. n >= 5
    BY <1>1 DEF take, HeaderLen
  <1>3. PICK m \in Nat : m = n - 5
    BY <1>2
  <1>4. 5 + m = n /\ 5 + m <= Len(w)
    BY <1>1, <1>2, <1>3
  <1>5. s = SubSeq(w, 5 + 1, 5 + m)
    BY <1>1, <1>4 DEF HeaderLen
  <1>6. s \in Seq(Cells) /\ Len(s) = m /\ \A j \in 1 .. m : s[j] = w[5 + j]
    <2>1. PICK at \in Nat : at = 5
      OBVIOUS
    <2>2. at + m <= Len(w)
      BY <1>4, <2>1
    <2>3. s = SubSeq(w, at + 1, at + m)
      BY <1>5, <2>1
    <2>4. /\ SubSeq(w, at + 1, at + m) \in Seq(Cells) /\ Len(SubSeq(w, at + 1, at + m)) = m
          /\ \A j \in 1 .. m : SubSeq(w, at + 1, at + m)[j] = w[at + j]
      BY <2>2, SubSeqAt, Zenon
    <2>5. s \in Seq(Cells) /\ Len(s) = m /\ \A j \in 1 .. m : s[j] = w[at + j]
      BY <2>3, <2>4, Zenon
    <2> QED
      BY <2>1, <2>5
  <1> QED
    BY <1>1, <1>2, <1>3, <1>6 DEF HeaderLen

\* An intact message is read back, or refused for a map with a repeated key.
LEMMA WholeIsRead ==
  ASSUME val \in GeasValue, NEW w \in Seq(Cells), Whole(w), NEW a, a = Answer(w)
  PROVE  /\ a.frame = {[kind |-> kind, request_id |-> Base + 1, payload_len |-> encode_size[val][1]]}
         /\ a.res = IF KeysDistinct[val] THEN Got(val, encode_size[val][1]) ELSE Refused
PROOF
  <1>1. PICK e, h : e = encode_write[val] /\ h = Header
    OBVIOUS
  <1>2. KindOK(kind) /\ Len(e) <= MaxPayload /\ Match(w, 0, h \o e) /\ encode_size[val][1] # -1
    BY <1>1 DEF Whole
  <1>3. PICK n \in Nat : n = Len(e)
    BY <1>1, WriteIsLong
  <1>4. encode_size[val][1] = n
    BY <1>1, <1>2, <1>3, WholeFits
  <1>5. h = <<MAGIC, kind, 1, 1, n>> /\ h \in Seq(Cells) /\ Len(h) = 5 /\ e \in Seq(Cells)
    BY <1>1, <1>2, <1>3, HeaderIs DEF HeaderLen
  <1>6. Match(w, 0, h) /\ Match(w, 5, e)
    <2>1. Match(w, 0, h) /\ Match(w, 0 + Len(h), e)
      BY <1>2, <1>5, MatchConcat
    <2> QED
      BY <1>5, <2>1
  <1>7. /\ Len(w) \in Nat /\ 5 <= Len(w)
        /\ w[1] = MAGIC /\ w[2] = kind /\ w[3] = 1 /\ w[4] = 1 /\ w[5] = n
    <2>1. 0 + 5 <= Len(w) /\ \A j \in 1 .. 5 : w[0 + j] = h[j]
      BY <1>5, <1>6 DEF Match
    <2>2. w[0 + 1] = h[1] /\ w[0 + 2] = h[2] /\ w[0 + 3] = h[3] /\ w[0 + 4] = h[4] /\ w[0 + 5] = h[5]
      BY <2>1
    <2> QED
      BY <1>5, <2>1, <2>2
  <1>8. take(w, 0, HeaderLen)
    BY <1>7 DEF take, HeaderLen
  <1>9. PICK f : f = [kind |-> kind, request_id |-> Base + 1, payload_len |-> n]
    OBVIOUS
  <1>10. geas_wire_frame_read(w) = {f}
    <2>1. get_u64(w, 2) = Base + 1
      <3>1. get_u64(w, 2) = w[3] + Base * w[4]
        BY DEF get_u64
      <3>2. 1 + Base * 1 = Base + 1
        BY WordInCells
      <3> QED
        BY <1>7, <3>1, <3>2
    <2>2. f = [kind |-> w[2], request_id |-> get_u64(w, 2), payload_len |-> w[5]]
      BY <1>7, <1>9, <2>1
    <2>3. f.kind = kind /\ f.payload_len = n
      BY <1>9
    <2> QED
      BY <1>2, <1>3, <1>7, <2>2, <2>3 DEF geas_wire_frame_read
  <1>11. take(w, HeaderLen, f.payload_len)
    <2>1. f.payload_len = n
      BY <1>9
    <2>2. 5 + n <= Len(w)
      BY <1>3, <1>6 DEF Match
    <2> QED
      BY <1>7, <2>1, <2>2 DEF take, HeaderLen
  <1>12. PICK s : s = SubSeq(w, HeaderLen + 1, Len(w))
    OBVIOUS
  <1>13. a.frame = {f} /\ a.res = decode_rec(s)
    BY <1>8, <1>10, <1>11, <1>12 DEF Answer
  <1>14. s \in Seq(Cells) /\ Len(s) \in Nat /\ Len(s) = Len(w) - 5
         /\ \A j \in 1 .. Len(s) : s[j] = w[5 + j]
    BY <1>8, <1>12, PayloadAt DEF HeaderLen
  <1>15. Match(s, 0, e)
    <2>1. 5 + n <= Len(w) /\ \A j \in 1 .. n : w[5 + j] = e[j]
      BY <1>3, <1>6 DEF Match
    <2>2. n <= Len(s)
      BY <1>7, <1>14, <2>1
    <2>3. \A j \in 1 .. n : j \in 1 .. Len(s) /\ 0 + j = j
      BY <1>14, <2>2
    <2>4. \A j \in 1 .. n : s[0 + j] = e[j]
      BY <1>14, <2>1, <2>3
    <2> QED
      BY <1>3, <2>2, <2>4 DEF Match
  <1>16. decode_rec(s) = Decoders(s)[1][0]
    BY DecodeUnfolds
  <1>17. Decoders(s)[1][0] = IF KeysDistinct[val] THEN Got(val, 0 + Len(e)) ELSE Refused
    <2>1. 1 \in Depths
      BY LevelsAssumption DEF Depths
    <2>2. BackAt(s, 1)
      BY <1>14, <2>1, DecodesBack
    <2>3. 0 \in 0 .. Len(s)
      BY <1>14
    <2> QED
      BY <1>1, <1>2, <1>15, <2>2, <2>3 DEF BackAt
  <1> QED
    BY <1>3, <1>4, <1>9, <1>13, <1>16, <1>17

\* Whatever the stream, what is read from it is the one encoding of it.
LEMMA ReadIsOnly ==
  ASSUME NEW w \in Seq(Cells), NEW a, a = Answer(w)
  PROVE  /\ a.res.ok =>
              /\ a.res.at <= Len(w) - HeaderLen
              /\ encode_size[a.res.v][1] = a.res.at
              /\ encode_write[a.res.v] = SubSeq(w, HeaderLen + 1, HeaderLen + a.res.at)
         /\ \A f \in a.frame :
              geas_wire_frame_write(f.kind, f.request_id, f.payload_len) = SubSeq(w, 1, HeaderLen)
PROOF
  <1>1. ASSUME a.res.ok
        PROVE  /\ a.res.at <= Len(w) - HeaderLen
               /\ encode_size[a.res.v][1] = a.res.at
               /\ encode_write[a.res.v] = SubSeq(w, HeaderLen + 1, HeaderLen + a.res.at)
    <2>1. PICK s : s = SubSeq(w, HeaderLen + 1, Len(w))
      OBVIOUS
    <2>2. PICK r : r = a.res
      OBVIOUS
    <2>3. take(w, 0, HeaderLen) /\ r = decode_rec(s) /\ r.ok
      BY <1>1, <2>1, <2>2 DEF Answer, Refused
    <2>4. /\ s \in Seq(Cells) /\ Len(s) \in Nat /\ Len(w) \in Nat /\ Len(s) = Len(w) - 5
          /\ \A j \in 1 .. Len(s) : s[j] = w[5 + j]
      BY <2>1, <2>3, PayloadAt DEF HeaderLen
    <2>5. 1 \in Depths /\ 0 \in 0 .. Len(s)
      BY <2>4, LevelsAssumption DEF Depths
    <2>6. r = Decoders(s)[1][0]
      BY <2>3, DecodeUnfolds
    <2>7. Encoded(s, GeasValue, 0, 1, r)
      BY <2>3, <2>4, <2>5, <2>6, DecodesOnly DEF ReadsOnly
    <2>8. PICK e : e = encode_write[r.v]
      OBVIOUS
    <2>9. /\ r.v \in GeasValue /\ encode_size[r.v][1] # -1 /\ Match(s, 0, e) /\ r.at = 0 + Len(e)
      BY <2>7, <2>8 DEF Encoded
    <2>10. e \in Seq(Cells)
      BY <2>8, <2>9, WriteIsLong
    <2>11. PICK n \in Nat : n = Len(e)
      BY <2>10
    <2>12. r.at = n
      BY <2>9, <2>11
    <2>13. encode_size[r.v][1] = n
      BY <2>5, <2>8, <2>9, <2>11, SizeIsLength
    <2>14. n <= Len(s) /\ \A j \in 1 .. n : s[j] = e[j]
      <3>1. 0 + n <= Len(s) /\ \A j \in 1 .. n : s[0 + j] = e[j]
        BY <2>9, <2>11 DEF Match
      <3> QED
        BY <3>1
    <2>15. 5 + n <= Len(w)
      BY <2>4, <2>14
    <2>16. \A j \in 1 .. n : w[5 + j] = e[j]
      <3>1. \A j \in 1 .. n : j \in 1 .. Len(s)
        BY <2>4, <2>14
      <3> QED
        BY <2>4, <2>14, <3>1
    <2>17. Match(w, 5, e)
      BY <2>11, <2>15, <2>16 DEF Match
    <2>18. SubSeq(w, 5 + 1, 5 + n) = e
      BY <2>10, <2>11, <2>17, MatchIsSubSeq
    <2>19. n <= Len(w) - 5
      BY <2>4, <2>15
    <2> QED
      BY <2>2, <2>8, <2>12, <2>13, <2>18, <2>19 DEF HeaderLen
  <1>2. ASSUME NEW f \in a.frame
        PROVE  geas_wire_frame_write(f.kind, f.request_id, f.payload_len) = SubSeq(w, 1, HeaderLen)
    <2>1. take(w, 0, HeaderLen) /\ f \in geas_wire_frame_read(w)
      BY <1>2 DEF Answer
    <2>2. f = [kind |-> w[2], request_id |-> get_u64(w, 2), payload_len |-> w[5]]
          /\ w[1] = MAGIC /\ KindOK(f.kind) /\ f.payload_len <= MaxPayload
      BY <2>1 DEF geas_wire_frame_read
    <2>3. Len(w) \in Nat /\ Len(w) >= 5
      BY <2>1 DEF take, HeaderLen
    <2>4. w[3] \in Cells /\ w[4] \in Cells /\ w[5] \in Cells
      BY <2>3
    <2>5. f.kind = w[2] /\ f.request_id = w[3] + Base * w[4] /\ f.payload_len = w[5]
      BY <2>2 DEF get_u64
    <2>6. w[5] \in Nat
      BY <2>4 DEF Cells
    <2>7. geas_wire_frame_write(f.kind, f.request_id, f.payload_len) = <<MAGIC, w[2], w[3], w[4], w[5]>>
      BY <2>2, <2>4, <2>5, <2>6, FrameCells
    <2>8. SubSeq(w, 1, 5) = <<w[1], w[2], w[3], w[4], w[5]>>
      <3>1. PICK h : h = <<w[1], w[2], w[3], w[4], w[5]>>
        OBVIOUS
      <3>2. h \in Seq(Cells) /\ Len(h) = 5 /\ \A j \in 1 .. 5 : h[j] = w[j]
        BY <2>3, <3>1
      <3>3. Match(w, 0, h)
        BY <2>3, <3>2 DEF Match
      <3>4. SubSeq(w, 0 + 1, 0 + Len(h)) = h
        BY <3>2, <3>3, MatchIsSubSeq
      <3> QED
        BY <3>1, <3>2, <3>4
    <2> QED
      BY <2>2, <2>7, <2>8 DEF HeaderLen
  <1> QED
    BY <1>1, <1>2

\* A value the encoder accepts comes back as it was, from exactly the cells the sizing
\* pass measured and under its own frame, unless it holds a map with a repeated key
\* (geas_wire_encode_value, geas_wire_decode_value, geas_wire_frame_write and _read).
THEOREM EveryValueComesBack == Spec => []RoundTrip
PROOF
  <1>1. WireInv => RoundTrip
    <2> SUFFICES ASSUME WireInv, phase = "read", intact
                 PROVE  /\ got.frame = {[kind |-> kind, request_id |-> Base + 1,
                                         payload_len |-> encode_size[val][1]]}
                        /\ got.res = IF KeysDistinct[val] THEN Got(val, encode_size[val][1])
                                     ELSE Refused
      BY DEF RoundTrip
    <2>1. val \in GeasValue /\ wire \in Seq(Cells) /\ Whole(wire) /\ got = Answer(wire)
      BY ValIsValue DEF WireInv
    <2> QED
      BY <2>1, WholeIsRead
  <1> QED
    BY <1>1, WireHolds, PTL

\* Whatever arrives, damaged, cut or foreign, a payload the decoder accepts is what the
\* encoder writes for the value it yields, and a header it accepts is the one the frame
\* writer writes: no value has two encodings (decode_rec against encode_size and encode_write).
THEOREM EncodingsAreCanonical == Spec => []Canonical
PROOF
  <1>1. WireInv => Canonical
    <2> SUFFICES ASSUME WireInv PROVE Canonical
      OBVIOUS
    <2>1. wire \in Seq(Cells) /\ got = IF phase = "read" THEN Answer(wire) ELSE Nothing
      BY DEF WireInv
    <2>2. CASE phase = "read"
      BY <2>1, <2>2, ReadIsOnly DEF Canonical
    <2>3. CASE phase # "read"
      BY <2>1, <2>3 DEF Canonical, Nothing
    <2> QED
      BY <2>2, <2>3
  <1> QED
    BY <1>1, WireHolds, PTL

=============================================================================
