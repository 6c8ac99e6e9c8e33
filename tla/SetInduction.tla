---------------------------- MODULE SetInduction ----------------------------
(***************************************************************************)
(* Induction over the naturals for a set in place of a predicate, which    *)
(* the provers can instantiate, the recursions that run on it, and         *)
(* sequences laid one after the other.                                     *)
(***************************************************************************)
EXTENDS Integers, SequencesExt, FiniteSetTheorems, WellFoundedInduction, TLAPS

\* A set of naturals has a least element.
LEMMA Least ==
  ASSUME NEW T, T \subseteq Nat, T # {}
  PROVE  \E x \in T : \A y \in T : ~(y < x)
PROOF
  <1>1. IsWellFoundedOn(OpToRel(<, Nat), Nat)
    BY NatLessThanWellFounded
  <1>2. \E x \in T : \A y \in T : ~(<<y, x>> \in OpToRel(<, Nat))
    BY <1>1, WFMin
  <1> QED
    BY <1>2 DEF OpToRel

\* Induction.
LEMMA Induct ==
  ASSUME NEW S, 0 \in S, \A n \in Nat : n \in S => n + 1 \in S
  PROVE  Nat \subseteq S
PROOF
  <1> DEFINE T == Nat \ S
  <1> SUFFICES ASSUME T # {} PROVE FALSE
    OBVIOUS
  <1>1. PICK x \in T : \A y \in T : ~(y < x)
    <2>1. T \subseteq Nat
      OBVIOUS
    <2> HIDE DEF T
    <2> QED
      BY <2>1, Least
  <1>2. x # 0 /\ x - 1 \in Nat /\ x - 1 \in T
    OBVIOUS
  <1> QED
    BY <1>1, <1>2

\* Induction up to a bound.
LEMMA InductUpTo ==
  ASSUME NEW n \in Nat, NEW S, 0 \in S, \A k \in 0 .. (n - 1) : k \in S => k + 1 \in S
  PROVE  0 .. n \subseteq S
PROOF
  <1> DEFINE Z == S \cup {k \in Nat : k > n}
  <1>1. 0 \in Z
    OBVIOUS
  <1>2. \A k \in Nat : k \in Z => k + 1 \in Z
    OBVIOUS
  <1>3. Nat \subseteq Z
    <2> HIDE DEF Z
    <2> QED
      BY <1>1, <1>2, Induct
  <1> QED
    BY <1>3

\* The bodies of a loop of n turns over states in T, and its runs: the states before
\* and after each turn.
Bodies(n, T) == [1 .. n -> [T -> T]]
Runs(n, T, c, G) ==
  {f \in [0 .. n -> T] : f[0] = c /\ \A k \in 1 .. n : f[k] = G[k][f[k - 1]]}

\* A loop has a run.
LEMMA LoopRuns ==
  ASSUME NEW n \in Nat, NEW T, NEW c \in T, NEW G \in Bodies(n, T)
  PROVE  Runs(n, T, c, G) # {}
PROOF
  <1> USE DEF Bodies
  <1> DEFINE Run(k, f) == f[0] = c /\ \A j \in 1 .. k : f[j] = G[j][f[j - 1]]
             S == {k \in Nat : \E f \in [0 .. k -> T] : Run(k, f)}
  <1>1. 0 \in S
    <2>1. PICK f : f = [k \in 0 .. 0 |-> c]
      OBVIOUS
    <2>2. f \in [0 .. 0 -> T] /\ Run(0, f)
      BY <2>1
    <2> QED
      BY <2>2
  <1>2. \A k \in 0 .. (n - 1) : k \in S => k + 1 \in S
    <2> SUFFICES ASSUME NEW k \in 0 .. (n - 1), k \in S PROVE k + 1 \in S
      OBVIOUS
    <2>1. PICK f \in [0 .. k -> T] : Run(k, f)
      OBVIOUS
    <2>2. k \in Nat /\ k + 1 \in 1 .. n /\ k \in 0 .. k
      OBVIOUS
    <2>3. PICK x : x = G[k + 1][f[k]]
      OBVIOUS
    <2>4. x \in T
      BY <2>2, <2>3
    <2>5. PICK g : g = [j \in 0 .. (k + 1) |-> IF j <= k THEN f[j] ELSE x]
      OBVIOUS
    <2>6. g \in [0 .. (k + 1) -> T]
      BY <2>2, <2>4, <2>5
    <2>7. g[0] = c
      BY <2>1, <2>2, <2>5
    <2>8. \A j \in 1 .. (k + 1) : g[j] = G[j][g[j - 1]]
      <3> SUFFICES ASSUME NEW j \in 1 .. (k + 1) PROVE g[j] = G[j][g[j - 1]]
        OBVIOUS
      <3>1. g[j - 1] = f[j - 1]
        BY <2>2, <2>5
      <3>2. CASE j <= k
        BY <2>1, <2>2, <2>5, <3>1, <3>2
      <3>3. CASE j = k + 1
        BY <2>2, <2>3, <2>5, <3>1, <3>3
      <3> QED
        BY <2>2, <3>2, <3>3
    <2>9. k + 1 \in Nat /\ Run(k + 1, g)
      BY <2>2, <2>7, <2>8
    <2> QED
      BY <2>6, <2>9, Zenon
  <1>3. n \in S
    <2>1. 0 .. n \subseteq S
      <3> HIDE DEF S
      <3> QED
        BY <1>1, <1>2, InductUpTo
    <2> QED
      BY <2>1
  <1> QED
    BY <1>3 DEF Runs

\* Induction over the subsets of a finite set, an element at a time.
LEMMA FiniteInduct ==
  ASSUME NEW S, IsFiniteSet(S), NEW F, {} \in F,
         \A T \in SUBSET S : \A x \in S \ T : T \in F => T \cup {x} \in F
  PROVE  SUBSET S \subseteq F
PROOF
  <1> DEFINE K == {k \in Nat : \A T \in SUBSET S : Cardinality(T) = k => T \in F}
  <1>1. \A T \in SUBSET S : IsFiniteSet(T) /\ Cardinality(T) \in Nat
    BY FS_Subset, FS_CardinalityType
  <1>2. 0 \in K
    BY <1>1, FS_EmptySet
  <1>3. \A k \in Nat : k \in K => k + 1 \in K
    <2> SUFFICES ASSUME NEW k \in Nat, k \in K, NEW T \in SUBSET S, Cardinality(T) = k + 1
                 PROVE  T \in F
      OBVIOUS
    <2>1. PICK x : x \in T
      BY <1>1, FS_EmptySet
    <2>2. PICK U : U = T \ {x}
      OBVIOUS
    <2>3. U \in SUBSET S /\ x \in S \ U /\ T = U \cup {x}
      BY <2>1, <2>2
    <2>4. Cardinality(U) = k
      <3>1. IsFiniteSet(T)
        BY <1>1
      <3>2. Cardinality(T \ {x}) = Cardinality(T) - 1
        BY <2>1, <3>1, FS_RemoveElement
      <3> QED
        BY <2>2, <3>2
    <2>5. U \in F
      BY <2>3, <2>4
    <2> QED
      BY <2>3, <2>5
  <1>4. Nat \subseteq K
    <2> HIDE DEF K
    <2> QED
      BY <1>2, <1>3, Induct
  <1> QED
    BY <1>1, <1>4

\* A set has as many elements as its image under a function that tells them apart.
LEMMA SameCount ==
  ASSUME NEW S, IsFiniteSet(S), NEW h, \A x, y \in S : h[x] = h[y] => x = y
  PROVE  /\ IsFiniteSet({h[x] : x \in S})
         /\ Cardinality({h[x] : x \in S}) = Cardinality(S)
PROOF
  <1>1. PICK f : f = [x \in S |-> h[x]]
    OBVIOUS
  <1>2. f \in Bijection(S, {h[x] : x \in S})
    BY <1>1 DEF Bijection, Injection, Surjection, IsInjective
  <1> QED
    BY <1>2, FS_Bijection DEF ExistsBijection

-----------------------------------------------------------------------------
(* Sequences laid one after the other.                                     *)

\* Where the elements of a concatenation are.
LEMMA ConcatAt ==
  ASSUME NEW T, NEW s \in Seq(T), NEW t \in Seq(T)
  PROVE  /\ s \o t \in Seq(T)
         /\ Len(s) \in Nat /\ Len(t) \in Nat
         /\ Len(s \o t) = Len(s) + Len(t)
         /\ \A i \in 1 .. Len(s) : (s \o t)[i] = s[i]
         /\ \A i \in 1 .. Len(t) : (s \o t)[Len(s) + i] = t[i]
PROOF
  OBVIOUS

\* Laying sequences one after another, step by step.
Laid(gs, T, f) ==
  /\ f \in [0 .. Len(gs) -> Seq(T)]
  /\ f[0] = << >>
  /\ \A k \in 1 .. Len(gs) : f[k] = f[k - 1] \o gs[k]

LEMMA LaidExists ==
  ASSUME NEW T, NEW gs \in Seq(Seq(T))
  PROVE  \E f : Laid(gs, T, f)
PROOF
  <1> DEFINE n == Len(gs)
  <1>1. n \in Nat /\ \A k \in 1 .. n : gs[k] \in Seq(T)
    OBVIOUS
  <1>2. PICK G : G = [k \in 1 .. n |-> [x \in Seq(T) |-> x \o gs[k]]]
    OBVIOUS
  <1>3. \A k \in 1 .. n : \A x \in Seq(T) : x \o gs[k] \in Seq(T)
    BY <1>1
  <1>4. G \in Bodies(n, Seq(T))
    BY <1>2, <1>3 DEF Bodies
  <1>5. << >> \in Seq(T)
    OBVIOUS
  <1>6. PICK f \in Runs(n, Seq(T), << >>, G) : TRUE
    <2> HIDE DEF n
    <2> QED
      BY <1>1, <1>4, <1>5, LoopRuns
  <1>7. f \in [0 .. n -> Seq(T)] /\ f[0] = << >> /\ \A k \in 1 .. n : f[k] = G[k][f[k - 1]]
    BY <1>6 DEF Runs
  <1>8. \A k \in 1 .. n : f[k - 1] \in Seq(T)
    <2>1. \A k \in 1 .. n : k - 1 \in 0 .. n
      BY <1>1
    <2> QED
      BY <1>7, <2>1
  <1>9. \A k \in 1 .. n : f[k] = f[k - 1] \o gs[k]
    BY <1>2, <1>7, <1>8
  <1> QED
    BY <1>7, <1>9 DEF Laid

LEMMA LaidStep ==
  ASSUME NEW T, NEW gs \in Seq(Seq(T)), NEW f, Laid(gs, T, f), NEW k \in 0 .. (Len(gs) - 1)
  PROVE  /\ k \in Nat /\ k + 1 \in 1 .. Len(gs)
         /\ f[k] \in Seq(T) /\ f[k + 1] \in Seq(T) /\ gs[k + 1] \in Seq(T)
         /\ f[k + 1] = f[k] \o gs[k + 1]
PROOF
  <1>1. PICK n \in Nat : n = Len(gs)
    OBVIOUS
  <1>2. k \in Nat /\ k \in 0 .. n /\ k + 1 \in 0 .. n /\ k + 1 \in 1 .. n
    BY <1>1
  <1>3. f[k] \in Seq(T) /\ f[k + 1] \in Seq(T)
    BY <1>1, <1>2 DEF Laid
  <1>4. PICK j : j = k + 1
    OBVIOUS
  <1>5. j \in 1 .. Len(gs) /\ j - 1 = k
    BY <1>1, <1>2, <1>4
  <1>6. f[j] = f[j - 1] \o gs[j]
    BY <1>5 DEF Laid
  <1> QED
    BY <1>1, <1>2, <1>3, <1>4, <1>5, <1>6

\* FlattenSeq is the last of those steps.
LEMMA FlattenIsLaid ==
  ASSUME NEW T, NEW gs \in Seq(Seq(T)), NEW f, Laid(gs, T, f)
  PROVE  FlattenSeq(gs) = f[Len(gs)]
PROOF
  <1> DEFINE n == Len(gs)
             P(h) == [i \in 1 .. n |-> IF i = 1 THEN gs[i] ELSE h[i - 1] \o gs[i]]
  <1>1. n \in Nat /\ \A k \in 1 .. n : gs[k] \in Seq(T)
    OBVIOUS
  <1>2. CASE n = 0
    BY <1>2 DEF FlattenSeq, Laid
  <1>3. CASE n # 0
    <2>1. PICK g : g = [i \in 1 .. n |-> f[i]]
      OBVIOUS
    <2>2. g = P(g)
      <3> SUFFICES ASSUME NEW i \in 1 .. n
                   PROVE  f[i] = IF i = 1 THEN gs[i] ELSE g[i - 1] \o gs[i]
        BY <2>1
      <3>1. PICK k : k = i - 1
        OBVIOUS
      <3>2. k \in 0 .. (Len(gs) - 1) /\ k + 1 = i /\ (i # 1 => k \in 1 .. n)
        BY <1>1, <3>1
      <3>3. f[i] = f[k] \o gs[i] /\ gs[i] \in Seq(T)
        BY <3>2, LaidStep
      <3>4. CASE i = 1
        <4>1. f[k] = << >>
          BY <3>1, <3>4 DEF Laid
        <4> QED
          BY <3>3, <3>4, <4>1
      <3>5. CASE i # 1
        BY <2>1, <3>1, <3>2, <3>3, <3>5
      <3> QED
        BY <3>4, <3>5
    <2>3. PICK p : p = CHOOSE h : h = P(h)
      OBVIOUS
    <2>4. p = P(p)
      BY <2>2, <2>3
    <2>5. FlattenSeq(gs) = p[n]
      BY <1>3, <2>3, Zenon DEF FlattenSeq
    <2> DEFINE S == {k \in 0 .. n : k > 0 => p[k] = f[k]}
    <2>6. 0 \in S
      BY <1>1
    <2>7. \A k \in 0 .. (n - 1) : k \in S => k + 1 \in S
      <3> SUFFICES ASSUME NEW k \in 0 .. (n - 1), k \in S PROVE p[k + 1] = f[k + 1]
        BY <1>1
      <3>1. f[k + 1] = f[k] \o gs[k + 1] /\ k \in Nat /\ k + 1 \in 1 .. n
            /\ gs[k + 1] \in Seq(T)
        BY LaidStep
      <3>2. CASE k = 0
        <4>1. f[k] = << >> /\ p[k + 1] = gs[k + 1]
          BY <2>4, <3>1, <3>2 DEF Laid
        <4> QED
          BY <3>1, <4>1
      <3>3. CASE k # 0
        <4>1. PICK j : j = k + 1
          OBVIOUS
        <4>2. j \in 1 .. n /\ j # 1 /\ j - 1 = k
          BY <3>1, <3>3, <4>1
        <4>3. p[j] = p[j - 1] \o gs[j]
          BY <2>4, <4>2
        <4>4. p[k] = f[k]
          BY <3>1, <3>3
        <4> QED
          BY <3>1, <4>1, <4>2, <4>3, <4>4
      <3> QED
        BY <3>2, <3>3
    <2>8. 0 .. n \subseteq S
      <3> HIDE DEF S, n
      <3> QED
        BY <1>1, <2>6, <2>7, InductUpTo
    <2> QED
      BY <1>1, <1>3, <2>5, <2>8
  <1> QED
    BY <1>2, <1>3

\* One sequence more.
LEMMA FlattenAppend ==
  ASSUME NEW T, NEW gs \in Seq(Seq(T)), NEW w \in Seq(T)
  PROVE  FlattenSeq(gs) \in Seq(T) /\ FlattenSeq(Append(gs, w)) = FlattenSeq(gs) \o w
PROOF
  <1>1. PICK hs : hs = Append(gs, w)
    OBVIOUS
  <1>2. PICK n \in Nat : n = Len(gs)
    OBVIOUS
  <1>3. hs \in Seq(Seq(T)) /\ Len(hs) = n + 1 /\ hs[n + 1] = w /\ \A k \in 1 .. n : hs[k] = gs[k]
    BY <1>1, <1>2
  <1>4. PICK f : Laid(hs, T, f)
    BY <1>3, LaidExists
  <1>5. /\ f[0] = << >> /\ \A k \in 0 .. (n + 1) : f[k] \in Seq(T)
        /\ \A k \in 1 .. (n + 1) : f[k] = f[k - 1] \o hs[k]
    BY <1>3, <1>4 DEF Laid
  <1>6. PICK g : g = [k \in 0 .. n |-> f[k]]
    OBVIOUS
  <1>7. Laid(gs, T, g)
    <2>1. g \in [0 .. n -> Seq(T)]
      BY <1>5, <1>6
    <2>2. g[0] = << >>
      BY <1>5, <1>6
    <2>3. ASSUME NEW k \in 1 .. n PROVE g[k] = g[k - 1] \o gs[k]
      <3>1. k \in 0 .. n /\ k - 1 \in 0 .. n /\ k \in 1 .. (n + 1)
        OBVIOUS
      <3> QED
        BY <1>3, <1>5, <1>6, <3>1
    <2> QED
      BY <1>2, <2>1, <2>2, <2>3 DEF Laid
  <1>8. FlattenSeq(gs) = f[n]
    BY <1>2, <1>6, <1>7, FlattenIsLaid
  <1>9. FlattenSeq(hs) = f[n + 1]
    BY <1>3, <1>4, FlattenIsLaid
  <1>10. f[n + 1] = f[n] \o w
    <2>1. PICK j : j = n + 1
      OBVIOUS
    <2>2. j \in 1 .. (n + 1) /\ j - 1 = n
      BY <2>1
    <2> QED
      BY <1>3, <1>5, <2>1, <2>2
  <1> QED
    BY <1>1, <1>5, <1>8, <1>9, <1>10

=============================================================================
