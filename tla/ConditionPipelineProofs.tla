------------------------ MODULE ConditionPipelineProofs ------------------------
(***************************************************************************)
(* Proofs about Conditions and ConditionPipeline, for every evaluation, of *)
(* any number of rules whose conditions are of any height, and every       *)
(* runtime context.  The first part gives the recursive definitions of     *)
(* Conditions their equations, by induction on the height of a tree; the   *)
(* second shows what each stage does to one condition; the third carries   *)
(* it through the list of rules with an inductive invariant.               *)
(***************************************************************************)
EXTENDS ConditionPipeline, SequenceTheorems, FiniteSetTheorems, WellFoundedInduction, TLAPS

-----------------------------------------------------------------------------
(* Recursion                                                               *)

(* A set of numbers has a least one.                                       *)
LEMMA LeastNumber ==
  ASSUME NEW D, D \subseteq Nat, D # {}
  PROVE  \E d \in D : \A e \in D : ~ (e < d)
<1>1. \E d \in D : \A e \in D : <<e, d>> \notin OpToRel(<, Nat)
  BY NatLessThanWellFounded, WFMin
<1> QED
  BY <1>1 DEF OpToRel

LEMMA Predecessor ==
  ASSUME NEW n \in Nat, n # 0
  PROVE  n - 1 \in Nat /\ n - 1 < n /\ (n - 1) + 1 = n
OBVIOUS

(* What holds of n when it holds of every smaller number holds of all.     *)
LEMMA InductionOnNat ==
  ASSUME NEW P, \A n \in Nat : (\A m \in Nat : m < n => m \in P) => n \in P
  PROVE  Nat \subseteq P
<1> DEFINE D == {n \in Nat : n \notin P}
<1>1. SUFFICES ASSUME D # {} PROVE FALSE
  OBVIOUS
<1>2. PICK d \in D : \A e \in D : ~ (e < d)
  <2>1. D \subseteq Nat
    OBVIOUS
  <2> HIDE DEF D
  <2> QED BY <1>1, <2>1, LeastNumber
<1> QED BY <1>2

(* The functions that give every u a value in T[u].                        *)
Typed(U, T) == {f \in [U -> UNION {T[u] : u \in U}] : \A u \in U : f[u] \in T[u]}

(* G does so when it is given such a function.                             *)
StaysIn(U, T, G) == \A u \in U : \A f \in Typed(U, T) : G[<<u, f>>] \in T[u]

(* What G says of u depends on elements of smaller rank only.              *)
LooksBelow(U, T, rank, G) ==
  \A u \in U : \A f, g \in Typed(U, T) :
    (\A w \in U : rank[w] < rank[u] => f[w] = g[w]) => G[<<u, f>>] = G[<<u, g>>]

Solution(U, G, f) == \A u \in U : f[u] = G[<<u, f>>]

(* Then the definition by recursion with it has a solution.                *)
LEMMA RankedRecursion ==
  ASSUME NEW U, NEW T, \A u \in U : T[u] # {}, NEW rank \in [U -> Nat], NEW G,
         StaysIn(U, T, G), LooksBelow(U, T, rank, G)
  PROVE  \E f \in Typed(U, T) : Solution(U, G, f)
<1> USE DEF LooksBelow, StaysIn, Solution
<1> DEFINE F0 == Typed(U, T)
           Solves(n, f) == f \in F0 /\ \A u \in U : rank[u] < n => f[u] = G[<<u, f>>]
<1>0. ASSUME NEW h, h = [u \in U |-> h[u]], \A u \in U : h[u] \in T[u]
      PROVE  h \in F0
  <2>1. h \in [U -> UNION {T[u] : u \in U}]
    BY <1>0
  <2> QED BY <1>0, <2>1 DEF Typed
<1>00. \A f \in F0 : \A u \in U : f[u] \in T[u]
  BY DEF Typed
<1> HIDE DEF F0
<1>000. F0 = Typed(U, T)
  BY DEF F0
<1>1. \A n \in Nat : \E f : Solves(n, f)
  <2> DEFINE P == {n \in Nat : \E f : Solves(n, f)}
  <2>1. ASSUME NEW n \in Nat, \A m \in Nat : m < n => m \in P
        PROVE  n \in P
    <3>1. CASE n = 0
      <4> DEFINE g == [u \in U |-> CHOOSE v : v \in T[u]]
      <4>1. \A u \in U : g[u] \in T[u]
        OBVIOUS
      <4>2. g \in F0
        BY <1>0, <4>1
      <4>3. Solves(0, g)
        BY <4>2
      <4> QED BY <3>1, <4>3
    <3>2. CASE n # 0
      <4>1. n - 1 \in Nat /\ n - 1 < n
        BY <3>2, Predecessor
      <4>2. PICK f : Solves(n - 1, f)
        BY <2>1, <4>1
      <4> DEFINE g == [u \in U |-> IF rank[u] < n - 1 THEN f[u] ELSE G[<<u, f>>]]
      <4>3. g \in F0
        <5>1. \A u \in U : g[u] \in T[u]
          BY <4>2, <1>00, <1>000
        <5> HIDE DEF g
        <5>2. g = [u \in U |-> g[u]]
          BY DEF g
        <5> QED BY <1>0, <5>1, <5>2
      <4>4. ASSUME NEW u \in U, rank[u] < n
            PROVE  g[u] = G[<<u, g>>]
        <5>1. \A w \in U : rank[w] < rank[u] => f[w] = g[w]
          <6> TAKE w \in U
          <6>1. rank[w] \in Nat /\ rank[u] \in Nat
            OBVIOUS
          <6> QED BY <6>1, <4>4, <4>1
        <5>2. G[<<u, f>>] = G[<<u, g>>]
          BY <5>1, <4>2, <4>3, <1>000
        <5>3. g[u] = G[<<u, f>>]
          BY <4>2
        <5> QED BY <5>2, <5>3
      <4>5. Solves(n, g)
        BY <4>3, <4>4
      <4> QED BY <4>5
    <3> QED BY <3>1, <3>2
  <2> HIDE DEF P
  <2>2. Nat \subseteq P
    BY <2>1, InductionOnNat
  <2> QED BY <2>2 DEF P
<1>2. ASSUME NEW n \in Nat, NEW f, NEW g, Solves(n, f), Solves(n, g)
      PROVE  \A u \in U : rank[u] < n => f[u] = g[u]
  <2> DEFINE P == {k \in Nat : \A u \in U : rank[u] = k /\ k < n => f[u] = g[u]}
  <2>1. ASSUME NEW k \in Nat, \A m \in Nat : m < k => m \in P
        PROVE  k \in P
    <3>1. SUFFICES ASSUME NEW u \in U, rank[u] = k, k < n
                   PROVE  f[u] = g[u]
      OBVIOUS
    <3>2. ASSUME NEW w \in U, rank[w] < rank[u] PROVE f[w] = g[w]
      <4>1. rank[w] \in Nat
        OBVIOUS
      <4> QED BY <2>1, <3>1, <3>2, <4>1
    <3>3. G[<<u, f>>] = G[<<u, g>>]
      BY <3>2, <1>2, <1>000
    <3> QED BY <3>1, <3>3, <1>2
  <2> HIDE DEF P
  <2>2. Nat \subseteq P
    BY <2>1, InductionOnNat
  <2> QED BY <2>2 DEF P
<1> DEFINE F == [n \in Nat |-> CHOOSE f : Solves(n, f)]
           h == [u \in U |-> F[rank[u] + 1][u]]
<1>3. \A n \in Nat : Solves(n, F[n])
  BY <1>1
<1> HIDE DEF F
<1>4. ASSUME NEW n \in Nat, NEW w \in U, rank[w] < n
      PROVE  h[w] = F[n][w]
  <2> DEFINE k == rank[w] + 1
  <2>1. k \in Nat /\ rank[w] < k /\ k <= n
    BY <1>4
  <2> HIDE DEF k
  <2>2. Solves(k, F[k]) /\ Solves(n, F[n])
    BY <1>3, <2>1
  <2>3. \A u \in U : rank[u] \in Nat
    OBVIOUS
  <2>4. Solves(k, F[n])
    <3>1. ASSUME NEW u \in U, rank[u] < k PROVE F[n][u] = G[<<u, F[n]>>]
      <4>1. rank[u] < n
        BY <2>1, <2>3, <3>1
      <4> QED BY <2>2, <4>1
    <3> QED BY <2>2, <3>1
  <2>5. F[k][w] = F[n][w]
    <3> HIDE DEF Solves
    <3>1. \A u \in U : rank[u] < k => F[k][u] = F[n][u]
      BY <1>2, <2>1, <2>2, <2>4
    <3> QED BY <2>1, <3>1
  <2>6. h[w] = F[k][w]
    BY DEF k
  <2> QED BY <2>5, <2>6
<1>5. h \in F0
  <2>1. \A u \in U : h[u] \in T[u]
    <3> TAKE u \in U
    <3>1. rank[u] + 1 \in Nat
      OBVIOUS
    <3> QED BY <1>00, <1>3, <3>1
  <2>2. h = [u \in U |-> h[u]]
    OBVIOUS
  <2> HIDE DEF h
  <2> QED BY <1>0, <2>1, <2>2
<1>6. ASSUME NEW u \in U
      PROVE  h[u] = G[<<u, h>>]
  <2> DEFINE n == rank[u] + 1
  <2>1. n \in Nat /\ rank[u] < n
    OBVIOUS
  <2>2. F[n] \in F0 /\ F[n][u] = G[<<u, F[n]>>]
    BY <1>3, <2>1
  <2>3. \A w \in U : rank[w] < rank[u] => F[n][w] = h[w]
    BY <1>4, <2>1
  <2>4. G[<<u, F[n]>>] = G[<<u, h>>]
    BY <1>5, <2>2, <2>3, <1>000
  <2> QED BY <2>2, <2>4
<1> QED BY <1>5, <1>6, <1>000

(* Trees does as its definition says.                                      *)
LEMMA TreesUnfold ==
  /\ Trees[0] = Leaves
  /\ \A h \in Nat : Trees[h + 1] = Trees[h] \cup [kind : {"not"}, kid : Trees[h]]
                                     \cup [kind : Groups, kids : Seq(Trees[h]) \ {<<>>}]
<1> DEFINE Step(T) == T \cup [kind : {"not"}, kid : T]
                        \cup [kind : Groups, kids : Seq(T) \ {<<>>}]
           Solves(n, f) == f[0] = Leaves /\ \A k \in Nat : k < n => f[k + 1] = Step(f[k])
<1> HIDE DEF Step
<1>1. \A n \in Nat : \E f : Solves(n, f)
  <2> DEFINE P == {n \in Nat : \E f : Solves(n, f)}
  <2>1. ASSUME NEW n \in Nat, \A m \in Nat : m < n => m \in P
        PROVE  n \in P
    <3>1. CASE n = 0
      <4>1. Solves(0, [k \in Nat |-> Leaves])
        OBVIOUS
      <4> QED BY <3>1, <4>1
    <3>2. CASE n # 0
      <4>1. n - 1 \in Nat /\ n - 1 < n
        BY <3>2
      <4>2. PICK f : Solves(n - 1, f)
        BY <2>1, <4>1
      <4> DEFINE g == [k \in Nat |-> IF k < n THEN f[k] ELSE Step(f[n - 1])]
      <4>3. g[0] = Leaves
        BY <3>2, <4>2
      <4>4. ASSUME NEW k \in Nat, k < n
            PROVE  g[k + 1] = Step(g[k])
        <5>1. CASE k < n - 1
          <6>1. k + 1 < n /\ f[k + 1] = Step(f[k])
            BY <5>1, <4>2
          <6> QED BY <6>1, <4>4
        <5>2. CASE k = n - 1
          <6>1. ~ (k + 1 < n)
            BY <5>2
          <6> QED BY <6>1, <5>2, <4>4
        <5> QED BY <5>1, <5>2, <4>4
      <4>5. Solves(n, g)
        BY <4>3, <4>4
      <4> QED BY <4>5
    <3> QED BY <3>1, <3>2
  <2> HIDE DEF P
  <2>2. Nat \subseteq P
    BY <2>1, InductionOnNat
  <2> QED BY <2>2 DEF P
<1>2. ASSUME NEW n \in Nat, NEW f, NEW g, Solves(n, f), Solves(n, g)
      PROVE  \A k \in Nat : k <= n => f[k] = g[k]
  <2> DEFINE P == {k \in Nat : k <= n => f[k] = g[k]}
  <2>1. ASSUME NEW k \in Nat, \A m \in Nat : m < k => m \in P
        PROVE  k \in P
    <3>1. CASE k = 0
      BY <3>1, <1>2
    <3>2. CASE k # 0
      <4>1. k - 1 \in Nat /\ k - 1 < k /\ (k - 1) + 1 = k
        BY <3>2
      <4>2. k <= n => f[k] = Step(f[k - 1]) /\ g[k] = Step(g[k - 1])
        BY <1>2, <4>1
      <4> QED BY <2>1, <4>1, <4>2
    <3> QED BY <3>1, <3>2
  <2> HIDE DEF P
  <2>2. Nat \subseteq P
    BY <2>1, InductionOnNat
  <2> QED BY <2>2 DEF P
<1> DEFINE F == [n \in Nat |-> CHOOSE f : Solves(n, f)]
           t == [n \in Nat |-> F[n][n]]
<1>3. \A n \in Nat : Solves(n, F[n])
  BY <1>1
<1> HIDE DEF F
<1>4. t[0] = Leaves
  BY <1>3
<1>5. ASSUME NEW n \in Nat
      PROVE  t[n + 1] = Step(t[n])
  <2>1. n + 1 \in Nat /\ n <= n /\ n < n + 1
    OBVIOUS
  <2>2. Solves(n + 1, F[n + 1]) /\ Solves(n, F[n])
    BY <1>3, <2>1
  <2>3. Solves(n, F[n + 1])
    BY <2>2
  <2>4. F[n + 1][n] = F[n][n]
    BY <1>2, <2>1, <2>2, <2>3
  <2>5. F[n + 1][n + 1] = Step(F[n + 1][n])
    BY <2>1, <2>2
  <2> QED BY <2>1, <2>4, <2>5
<1>6. t = [h \in Nat |-> IF h = 0 THEN Leaves ELSE Step(t[h - 1])]
  <2>1. ASSUME NEW h \in Nat PROVE t[h] = IF h = 0 THEN Leaves ELSE Step(t[h - 1])
    <3>1. CASE h = 0
      BY <3>1, <1>4
    <3>2. CASE h # 0
      <4>1. h - 1 \in Nat /\ (h - 1) + 1 = h
        BY <3>2
      <4> QED BY <3>2, <4>1, <1>5
    <3> QED BY <3>1, <3>2
  <2>2. t = [h \in Nat |-> t[h]]
    OBVIOUS
  <2> HIDE DEF t
  <2> QED BY <2>1, <2>2
<1> HIDE DEF t
<1>7. Trees = [h \in Nat |-> IF h = 0 THEN Leaves ELSE Step(Trees[h - 1])]
  BY <1>6, Zenon DEF Trees, Step
<1>8. ASSUME NEW h \in Nat PROVE Trees[h + 1] = Step(Trees[h])
  <2>1. h + 1 \in Nat /\ h + 1 # 0 /\ (h + 1) - 1 = h
    OBVIOUS
  <2> QED BY <1>7, <2>1
<1> QED BY <1>7, <1>8 DEF Step

-----------------------------------------------------------------------------
(* Trees                                                                   *)

LEMMA TreesGrow ==
  \A m, n \in Nat : m <= n => Trees[m] \subseteq Trees[n]
<1> DEFINE P == {n \in Nat : \A m \in Nat : m <= n => Trees[m] \subseteq Trees[n]}
<1>1. ASSUME NEW n \in Nat, \A k \in Nat : k < n => k \in P
      PROVE  n \in P
  <2>1. SUFFICES ASSUME NEW m \in Nat, m <= n, m # n PROVE Trees[m] \subseteq Trees[n]
    OBVIOUS
  <2>2. n - 1 \in Nat /\ n - 1 < n /\ (n - 1) + 1 = n
    BY <2>1, Predecessor
  <2>3. Trees[m] \subseteq Trees[n - 1]
    BY <1>1, <2>1, <2>2
  <2>4. Trees[n - 1] \subseteq Trees[n]
    BY <2>2, TreesUnfold
  <2> QED BY <2>3, <2>4
<1> HIDE DEF P
<1>2. Nat \subseteq P
  BY <1>1, InductionOnNat
<1> QED BY <1>2 DEF P

IsNegation(c, T) == c.kind = "not" /\ c = Not(c.kid) /\ c.kid \in T
IsGroup(c, T) ==
  /\ c.kind \in Groups
  /\ c = Group(c.kind, c.kids)
  /\ c.kids \in Seq(T)
  /\ c.kids # <<>>

(* The three shapes a tree may have.                                       *)
LEMMA Shapes ==
  ASSUME NEW n \in Nat, NEW c \in Trees[n]
  PROVE  \/ c \in Leaves
         \/ n # 0 /\ IsNegation(c, Trees[n - 1])
         \/ n # 0 /\ IsGroup(c, Trees[n - 1])
<1> DEFINE P == {k \in Nat : \A d \in Trees[k] :
                   \/ d \in Leaves
                   \/ k # 0 /\ IsNegation(d, Trees[k - 1])
                   \/ k # 0 /\ IsGroup(d, Trees[k - 1])}
<1>1. ASSUME NEW k \in Nat, \A m \in Nat : m < k => m \in P
      PROVE  k \in P
  <2>1. CASE k = 0
    BY <2>1, TreesUnfold
  <2>2. CASE k # 0
    <3>1. k - 1 \in Nat /\ k - 1 < k /\ (k - 1) + 1 = k
      BY <2>2, Predecessor
    <3>2. SUFFICES ASSUME NEW d \in Trees[k]
                   PROVE  d \in Leaves \/ IsNegation(d, Trees[k - 1]) \/ IsGroup(d, Trees[k - 1])
      BY <2>2
    <3>3. CASE d \in Trees[k - 1]
      <4>1. SUFFICES ASSUME k - 1 # 0, d \notin Leaves
                     PROVE  IsNegation(d, Trees[k - 1]) \/ IsGroup(d, Trees[k - 1])
        BY <1>1, <3>1, <3>3
      <4>2. (k - 1) - 1 \in Nat /\ (k - 1) - 1 <= k - 1
        BY <3>1, <4>1
      <4>3. Trees[(k - 1) - 1] \subseteq Trees[k - 1]
        BY <3>1, <4>2, TreesGrow
      <4>4. IsNegation(d, Trees[(k - 1) - 1]) \/ IsGroup(d, Trees[(k - 1) - 1])
        BY <1>1, <3>1, <3>3, <4>1
      <4>5. Seq(Trees[(k - 1) - 1]) \subseteq Seq(Trees[k - 1])
        BY <4>3
      <4> QED BY <4>3, <4>4, <4>5 DEF IsNegation, IsGroup
    <3>4. CASE d \in [kind : {"not"}, kid : Trees[k - 1]]
      BY <3>4 DEF IsNegation, Not
    <3>5. CASE d \in [kind : Groups, kids : Seq(Trees[k - 1]) \ {<<>>}]
      BY <3>5 DEF IsGroup, Group
    <3> QED BY <3>1, <3>2, <3>3, <3>4, <3>5, TreesUnfold
  <2> QED BY <2>1, <2>2
<1> HIDE DEF P
<1>2. Nat \subseteq P
  BY <1>1, InductionOnNat
<1> QED BY <1>2 DEF P

(* Trees are closed under the constructors, one level deeper.              *)
LEMMA Constructors ==
  ASSUME NEW n \in Nat
  PROVE  /\ Leaves \subseteq Trees[n]
         /\ \A c \in Trees[n] : Not(c) \in Trees[n + 1]
         /\ \A op \in Groups, kids \in Seq(Trees[n]) :
              kids # <<>> => Group(op, kids) \in Trees[n + 1]
<1>1. Leaves \subseteq Trees[n]
  <2>1. 0 \in Nat /\ 0 <= n
    OBVIOUS
  <2> QED BY <2>1, TreesGrow, TreesUnfold
<1> QED BY <1>1, TreesUnfold DEF Not, Group

(* The height of a tree is the first level it is in.                       *)
Height(c) == CHOOSE n \in Nat : c \in Trees[n] /\ \A m \in Nat : c \in Trees[m] => n <= m

LEMMA HeightIsLeast ==
  ASSUME NEW n \in Nat, NEW c \in Trees[n]
  PROVE  Height(c) \in Nat /\ Height(c) <= n /\ c \in Trees[Height(c)]
<1> DEFINE D == {m \in Nat : c \in Trees[m]}
<1>1. D \subseteq Nat /\ D # {}
  OBVIOUS
<1>2. PICK d \in D : \A e \in D : ~ (e < d)
  <2> HIDE DEF D
  <2> QED BY <1>1, LeastNumber
<1>3. d \in Nat /\ c \in Trees[d] /\ \A m \in Nat : c \in Trees[m] => d <= m
  BY <1>2
<1> QED BY <1>3 DEF Height

(* The conditions a condition is made of.                                  *)
Parts(c) ==
  IF c.kind = "not" THEN {c.kid}
  ELSE IF c.kind \in Groups THEN {c.kids[i] : i \in DOMAIN c.kids} ELSE {}

LEMMA LeafKinds ==
  ASSUME NEW c \in Leaves
  PROVE  /\ c.kind \in {"const", "cmp", "opaque"}
         /\ c.kind = "const" => c.value \in BOOLEAN /\ c = Const(c.value)
         /\ c.kind = "cmp" => /\ c.op \in Comparisons /\ c.lit \in Int /\ c.flipped \in BOOLEAN
                              /\ c.operands \in Operands
                              /\ c = Compare(c.op, c.lit, c.flipped, c.operands)
         /\ c.kind = "opaque" => /\ c.form \in LeafForms /\ c.operands \in Operands
                                 /\ c = Opaque(c.form, c.operands)
         /\ Parts(c) = {}
BY DEF Leaves, Const, Compare, Opaque, Parts, Groups

LEMMA PartsAreLower ==
  ASSUME NEW n \in Nat, NEW c \in Trees[n], NEW d \in Parts(c)
  PROVE  d \in Trees[n] /\ Height(d) \in Nat /\ Height(c) \in Nat /\ Height(d) < Height(c)
<1> DEFINE h == Height(c)
<1>1. h \in Nat /\ h <= n /\ c \in Trees[h]
  BY HeightIsLeast
<1> HIDE DEF h
<1>2. h # 0 /\ d \in Trees[h - 1]
  <2>1. c \notin Leaves
    BY LeafKinds
  <2>2. CASE h # 0 /\ IsNegation(c, Trees[h - 1])
    BY <2>2 DEF IsNegation, Parts
  <2>3. CASE h # 0 /\ IsGroup(c, Trees[h - 1])
    <3>1. c.kind \in Groups /\ c.kind # "not" /\ c.kids \in Seq(Trees[h - 1])
      BY <2>3 DEF IsGroup, Groups
    <3>2. PICK i \in DOMAIN c.kids : d = c.kids[i]
      BY <3>1 DEF Parts
    <3> QED BY <3>1, <3>2, <2>3
  <2> QED BY <1>1, <2>1, <2>2, <2>3, Shapes
<1>3. h - 1 \in Nat /\ h - 1 < h /\ h - 1 <= n
  BY <1>1, <1>2
<1>4. Height(d) \in Nat /\ Height(d) <= h - 1
  BY <1>2, <1>3, HeightIsLeast
<1>5. Trees[h - 1] \subseteq Trees[n]
  BY <1>3, TreesGrow
<1> QED BY <1>1, <1>2, <1>3, <1>4, <1>5 DEF h

(* Induction on the height.                                                *)
LEMMA TreeInduction ==
  ASSUME NEW n \in Nat, NEW P,
         \A c \in Trees[n] :
           (\A d \in Trees[n] : Height(d) < Height(c) => d \in P) => c \in P
  PROVE  Trees[n] \subseteq P
<1> DEFINE Q == {k \in Nat : \A c \in Trees[n] : Height(c) = k => c \in P}
<1>0. \A c \in Trees[n] : Height(c) \in Nat
  BY HeightIsLeast
<1>1. ASSUME NEW k \in Nat, \A m \in Nat : m < k => m \in Q
      PROVE  k \in Q
  <2>1. SUFFICES ASSUME NEW c \in Trees[n], Height(c) = k PROVE c \in P
    OBVIOUS
  <2>2. \A d \in Trees[n] : Height(d) < Height(c) => d \in P
    BY <1>0, <1>1, <2>1
  <2> QED BY <2>2
<1> HIDE DEF Q
<1>2. Nat \subseteq Q
  BY <1>1, InductionOnNat
<1> QED BY <1>0, <1>2 DEF Q

(* Recursion on trees.                                                     *)
TreesBelow(U, T, G) ==
  \A c \in U : \A f, g \in Typed(U, T) :
    (\A d \in U : Height(d) < Height(c) => f[d] = g[d]) => G[<<c, f>>] = G[<<c, g>>]

LEMMA TreeRecursion ==
  ASSUME NEW n \in Nat, NEW T, \A c \in Trees[n] : T[c] # {}, NEW G,
         StaysIn(Trees[n], T, G), TreesBelow(Trees[n], T, G)
  PROVE  \E f \in Typed(Trees[n], T) : Solution(Trees[n], G, f)
<1> DEFINE U == Trees[n]
           rank == [c \in U |-> Height(c)]
<1>1. rank \in [U -> Nat]
  BY HeightIsLeast
<1>2. LooksBelow(U, T, rank, G)
  <2>1. SUFFICES ASSUME NEW u \in U, NEW f \in Typed(U, T), NEW g \in Typed(U, T),
                        \A w \in U : rank[w] < rank[u] => f[w] = g[w]
                 PROVE  G[<<u, f>>] = G[<<u, g>>]
    BY DEF LooksBelow
  <2>2. \A d \in Trees[n] : Height(d) < Height(u) => f[d] = g[d]
    BY <2>1
  <2> QED BY <2>2 DEF TreesBelow
<1>3. StaysIn(U, T, G) /\ \A u \in U : T[u] # {}
  OBVIOUS
<1> HIDE DEF U, rank
<1>4. \E f \in Typed(U, T) : Solution(U, G, f)
  BY <1>1, <1>2, <1>3, RankedRecursion, Zenon
<1> QED BY <1>4 DEF U

(* The same when a value depends on the values at the parts, and all are   *)
(* of one type.                                                            *)
ToAll(U, V, G) == \A c \in U : \A f \in [U -> V] : G[<<c, f>>] \in V
PartsBelow(U, V, G) ==
  \A c \in U : \A f, g \in [U -> V] :
    (\A d \in Parts(c) : f[d] = g[d]) => G[<<c, f>>] = G[<<c, g>>]

LEMMA PartwiseRecursion ==
  ASSUME NEW n \in Nat, NEW V, V # {}, NEW G,
         ToAll(Trees[n], V, G), PartsBelow(Trees[n], V, G)
  PROVE  \E f \in [Trees[n] -> V] : Solution(Trees[n], G, f)
<1> DEFINE T == [c \in Trees[n] |-> V]
<1>0. \A f \in Typed(Trees[n], T) : f \in [Trees[n] -> V]
  BY DEF Typed
<1>1. TreesBelow(Trees[n], T, G)
  <2>1. SUFFICES ASSUME NEW c \in Trees[n], NEW f \in [Trees[n] -> V], NEW g \in [Trees[n] -> V],
                        \A d \in Trees[n] : Height(d) < Height(c) => f[d] = g[d]
                 PROVE  G[<<c, f>>] = G[<<c, g>>]
    BY <1>0 DEF TreesBelow
  <2>2. \A d \in Parts(c) : f[d] = g[d]
    BY <2>1, PartsAreLower
  <2> QED BY <2>2 DEF PartsBelow
<1>2. StaysIn(Trees[n], T, G)
  BY <1>0 DEF StaysIn, ToAll
<1>3. \A c \in Trees[n] : T[c] # {}
  OBVIOUS
<1> HIDE DEF T
<1>4. \E f \in Typed(Trees[n], T) : Solution(Trees[n], G, f)
  BY <1>1, <1>2, <1>3, TreeRecursion, Zenon
<1> QED BY <1>0, <1>4

LEMMA PartwiseInduction ==
  ASSUME NEW n \in Nat, NEW P, \A c \in Trees[n] : (\A d \in Parts(c) : d \in P) => c \in P
  PROVE  Trees[n] \subseteq P
<1>1. \A c \in Trees[n] : (\A d \in Trees[n] : Height(d) < Height(c) => d \in P) => c \in P
  BY PartsAreLower
<1> QED BY <1>1, TreeInduction, Zenon

(* What a tree is made of is given by its kind.                            *)
LEMMA KindsOfTrees ==
  ASSUME NEW n \in Nat, NEW c \in Trees[n]
  PROVE  \/ c \in Leaves /\ c.kind \in {"const", "cmp", "opaque"} /\ Parts(c) = {}
         \/ c.kind = "not" /\ IsNegation(c, Trees[n]) /\ Parts(c) = {c.kid}
         \/ /\ c.kind \in {"all", "any", "one"}
            /\ IsGroup(c, Trees[n])
            /\ Parts(c) = {c.kids[i] : i \in DOMAIN c.kids}
<1>1. CASE c \in Leaves
  BY <1>1, LeafKinds
<1>2. ASSUME n # 0 PROVE Trees[n - 1] \subseteq Trees[n]
  <2>1. n - 1 \in Nat /\ n - 1 <= n
    BY <1>2
  <2> QED BY <2>1, TreesGrow
<1>3. CASE n # 0 /\ IsNegation(c, Trees[n - 1])
  BY <1>2, <1>3 DEF IsNegation, Parts
<1>4. CASE n # 0 /\ IsGroup(c, Trees[n - 1])
  <2>1. Seq(Trees[n - 1]) \subseteq Seq(Trees[n])
    BY <1>2, <1>4
  <2>2. c.kind \in {"all", "any", "one"} /\ IsGroup(c, Trees[n])
    BY <1>4, <2>1 DEF IsGroup, Groups
  <2> QED BY <2>2 DEF Parts, Groups
<1> QED BY <1>1, <1>3, <1>4, Shapes

LEMMA Bounds ==
  /\ MaxHeight \in Nat /\ Condition = Trees[MaxHeight]
  /\ 3 * MaxHeight \in Nat /\ Expression = Trees[3 * MaxHeight]
  /\ Condition \subseteq Expression
<1>1. MaxHeight \in Nat /\ 3 * MaxHeight \in Nat /\ MaxHeight <= 3 * MaxHeight
  BY ConditionAssumption
<1> QED BY <1>1, TreesGrow DEF Condition, Expression

(* Counting the children that match tells whether all, any or just one do. *)
Counts(kids, f, matched) ==
  /\ matched \in Nat
  /\ matched = Len(kids) <=> \A i \in DOMAIN kids : f[kids[i]]
  /\ matched > 0 <=> \E i \in DOMAIN kids : f[kids[i]]
  /\ matched = 1 <=> \E i \in DOMAIN kids : \A j \in DOMAIN kids : f[kids[j]] <=> i = j

LEMMA Counting ==
  ASSUME NEW S, NEW kids \in Seq(S), NEW f
  PROVE  Counts(kids, f, Cardinality({i \in DOMAIN kids : f[kids[i]]}))
<1> DEFINE D == DOMAIN kids
           M == {i \in D : f[kids[i]]}
<1>1. IsFiniteSet(D) /\ Cardinality(D) = Len(kids)
  <2>1. D = 1 .. Len(kids) /\ Len(kids) \in Nat
    OBVIOUS
  <2> QED BY <2>1, FS_Interval
<1>2. M \subseteq D
  OBVIOUS
<1> HIDE DEF D
<1>3. IsFiniteSet(M) /\ Cardinality(M) \in Nat /\ (Cardinality(M) = Cardinality(D) => M = D)
  BY <1>1, <1>2, FS_Subset, FS_CardinalityType
<1>4. Cardinality(M) = Len(kids) <=> M = D
  BY <1>1, <1>3
<1>5. Cardinality(M) > 0 <=> M # {}
  BY <1>3, FS_EmptySet
<1>6. Cardinality(M) = 1 <=> \E i : M = {i}
  BY <1>3, FS_Singleton
<1>7. (\E i : M = {i}) <=> \E i \in D : \A j \in D : f[kids[j]] <=> i = j
  <2>1. ASSUME NEW i, M = {i} PROVE i \in D /\ \A j \in D : f[kids[j]] <=> i = j
    BY <2>1
  <2>2. ASSUME NEW i \in D, \A j \in D : f[kids[j]] <=> i = j PROVE M = {i}
    BY <2>2
  <2> QED BY <2>1, <2>2
<1> QED BY <1>3, <1>4, <1>5, <1>6, <1>7 DEF D, Counts

-----------------------------------------------------------------------------
(* The recursive definitions do as they say                                *)

CompilesBody(f, t, c) ==
  CASE c.kind \in Groups -> \A i \in DOMAIN c.kids : f[c.kids[i]]
    [] c.kind = "not" -> f[c.kid]
    [] OTHER -> ~ Refuses(t, c)

LEMMA CompilesUnfolds ==
  ASSUME NEW t
  PROVE  /\ Compiles(t) \in [Condition -> BOOLEAN]
         /\ \A c \in Condition : Compiles(t)[c] = CompilesBody(Compiles(t), t, c)
<1> DEFINE G == [p \in Condition \X [Condition -> BOOLEAN] |-> CompilesBody(p[2], t, p[1])]
<1>1. ASSUME NEW c \in Condition, NEW f \in [Condition -> BOOLEAN]
      PROVE  CompilesBody(f, t, c) \in BOOLEAN
  BY Bounds, KindsOfTrees DEF CompilesBody, IsNegation, Groups, Refuses
<1>2. ASSUME NEW c \in Condition, NEW f \in [Condition -> BOOLEAN], NEW g \in [Condition -> BOOLEAN],
             \A d \in Parts(c) : f[d] = g[d]
      PROVE  CompilesBody(f, t, c) = CompilesBody(g, t, c)
  <2>1. c.kind = "not" => f[c.kid] = g[c.kid]
    BY <1>2 DEF Parts
  <2>2. c.kind \in Groups => \A i \in DOMAIN c.kids : f[c.kids[i]] = g[c.kids[i]]
    BY <1>2 DEF Parts, Groups
  <2> QED BY <2>1, <2>2 DEF CompilesBody, Groups
<1>3. \A c \in Condition : \A f \in [Condition -> BOOLEAN] : G[<<c, f>>] = CompilesBody(f, t, c)
  OBVIOUS
<1> HIDE DEF G
<1>4. ToAll(Condition, BOOLEAN, G) /\ PartsBelow(Condition, BOOLEAN, G)
  BY <1>1, <1>2, <1>3 DEF ToAll, PartsBelow
<1>5. PICK f \in [Condition -> BOOLEAN] : Solution(Condition, G, f)
  <2>1. BOOLEAN # {}
    OBVIOUS
  <2> QED BY <1>4, <2>1, Bounds, PartwiseRecursion, Zenon
<1>6. f = [c \in Condition |-> CompilesBody(f, t, c)]
  BY <1>3, <1>5 DEF Solution
<1>7. Compiles(t) = [c \in Condition |-> CompilesBody(Compiles(t), t, c)]
  BY <1>6, Zenon DEF Compiles, CompilesBody
<1>8. \A c \in Condition : Compiles(t)[c] \in BOOLEAN
  <2> DEFINE P == {c \in Condition : Compiles(t)[c] \in BOOLEAN}
  <2>1. ASSUME NEW c \in Condition, \A d \in Parts(c) : d \in P
        PROVE  c \in P
    BY <1>7, <2>1, Bounds, KindsOfTrees DEF CompilesBody, Refuses, Groups
  <2> HIDE DEF P
  <2>2. Condition \subseteq P
    BY <2>1, Bounds, PartwiseInduction, Zenon
  <2> QED BY <2>2 DEF P
<1> QED BY <1>7, <1>8

MeaningBody(f, ctx, c) ==
  CASE c.kind = "all" -> \A i \in DOMAIN c.kids : f[c.kids[i]]
    [] c.kind = "any" -> \E i \in DOMAIN c.kids : f[c.kids[i]]
    [] c.kind = "one" -> \E i \in DOMAIN c.kids :
                           \A j \in DOMAIN c.kids : f[c.kids[j]] <=> i = j
    [] c.kind = "not" -> ~ f[c.kid]
    [] OTHER -> LeafMeans(c, ctx)

LEMMA MeaningUnfolds ==
  ASSUME NEW ctx \in Context
  PROVE  /\ Meaning(ctx) \in [Condition -> BOOLEAN]
         /\ \A c \in Condition : Meaning(ctx)[c] = MeaningBody(Meaning(ctx), ctx, c)
<1> DEFINE G == [p \in Condition \X [Condition -> BOOLEAN] |-> MeaningBody(p[2], ctx, p[1])]
<1>1. ASSUME NEW c \in Condition, NEW f
      PROVE  MeaningBody(f, ctx, c) \in BOOLEAN
  BY Bounds, KindsOfTrees, LeafKinds DEF MeaningBody, LeafMeans, Context
<1>2. ASSUME NEW c \in Condition, NEW f \in [Condition -> BOOLEAN], NEW g \in [Condition -> BOOLEAN],
             \A d \in Parts(c) : f[d] = g[d]
      PROVE  MeaningBody(f, ctx, c) = MeaningBody(g, ctx, c)
  <2>1. c.kind = "not" => f[c.kid] = g[c.kid]
    BY <1>2 DEF Parts
  <2>2. c.kind \in Groups => \A i \in DOMAIN c.kids : f[c.kids[i]] = g[c.kids[i]]
    BY <1>2 DEF Parts, Groups
  <2>3. CASE c.kind = "one"
    BY <2>2, <2>3 DEF MeaningBody, Groups
  <2>4. CASE c.kind # "one"
    BY <2>1, <2>2, <2>4 DEF MeaningBody, Groups
  <2> QED BY <2>3, <2>4
<1>3. \A c \in Condition : \A f \in [Condition -> BOOLEAN] : G[<<c, f>>] = MeaningBody(f, ctx, c)
  OBVIOUS
<1> HIDE DEF G
<1>4. ToAll(Condition, BOOLEAN, G) /\ PartsBelow(Condition, BOOLEAN, G)
  BY <1>1, <1>2, <1>3 DEF ToAll, PartsBelow
<1>5. PICK f \in [Condition -> BOOLEAN] : Solution(Condition, G, f)
  <2>1. BOOLEAN # {}
    OBVIOUS
  <2> QED BY <1>4, <2>1, Bounds, PartwiseRecursion, Zenon
<1>6. f = [c \in Condition |-> MeaningBody(f, ctx, c)]
  BY <1>3, <1>5 DEF Solution
<1>7. Meaning(ctx) = [c \in Condition |-> MeaningBody(Meaning(ctx), ctx, c)]
  BY <1>6, Zenon DEF Meaning, MeaningBody
<1> QED BY <1>1, <1>7

EvaluateBody(f, ctx, c) ==
  CASE c.kind = "const" -> c.value
    [] c.kind = "opaque" -> ctx.holds
    [] c.kind = "cmp" -> ctx.numeric /\ CompareNumbers(ctx.x, c.op, c.lit)
    [] c.kind = "not" -> ~ f[c.kid]
    [] OTHER ->
         LET matched == Quantify(DOMAIN c.kids, LAMBDA i : f[c.kids[i]])
         IN CASE c.kind = "all" -> matched = Len(c.kids)
              [] c.kind = "any" -> matched > 0
              [] c.kind = "one" -> matched = 1

LEMMA EvaluateUnfolds ==
  ASSUME NEW ctx \in Context
  PROVE  /\ Evaluate(ctx) \in [Expression -> BOOLEAN]
         /\ \A c \in Expression : Evaluate(ctx)[c] = EvaluateBody(Evaluate(ctx), ctx, c)
<1> DEFINE G == [p \in Expression \X [Expression -> BOOLEAN] |-> EvaluateBody(p[2], ctx, p[1])]
<1>1. ASSUME NEW c \in Expression, NEW f
      PROVE  EvaluateBody(f, ctx, c) \in BOOLEAN
  <2>1. c.kind \in {"const", "opaque", "cmp", "not"} \cup Groups
    BY Bounds, KindsOfTrees DEF Groups
  <2>2. c.kind = "const" => c.value \in BOOLEAN
    BY Bounds, KindsOfTrees, LeafKinds
  <2>3. CASE c.kind = "all"
    BY <2>3, Zenon DEF EvaluateBody, Quantify
  <2>5. CASE c.kind = "any"
    <3>1. Quantify(DOMAIN c.kids, LAMBDA i : f[c.kids[i]]) \in Nat
      BY <2>5, Bounds, KindsOfTrees, Counting DEF IsGroup, Quantify, Counts
    <3> QED BY <2>5, <3>1 DEF EvaluateBody, Quantify
  <2>6. CASE c.kind = "one"
    BY <2>6, Zenon DEF EvaluateBody, Quantify
  <2>4. CASE c.kind \in {"const", "opaque", "cmp", "not"}
    BY <2>2, <2>4 DEF EvaluateBody, Context
  <2> QED BY <2>1, <2>3, <2>4, <2>5, <2>6 DEF Groups
<1>2. ASSUME NEW c \in Expression, NEW f \in [Expression -> BOOLEAN], NEW g \in [Expression -> BOOLEAN],
             \A d \in Parts(c) : f[d] = g[d]
      PROVE  EvaluateBody(f, ctx, c) = EvaluateBody(g, ctx, c)
  <2>1. c.kind = "not" => f[c.kid] = g[c.kid]
    BY <1>2 DEF Parts
  <2>2. ASSUME c.kind \in Groups
        PROVE  Quantify(DOMAIN c.kids, LAMBDA i : f[c.kids[i]])
                 = Quantify(DOMAIN c.kids, LAMBDA i : g[c.kids[i]])
    <3>1. \A i \in DOMAIN c.kids : f[c.kids[i]] = g[c.kids[i]]
      BY <1>2, <2>2 DEF Parts, Groups
    <3>2. {i \in DOMAIN c.kids : f[c.kids[i]]} = {i \in DOMAIN c.kids : g[c.kids[i]]}
      BY <3>1
    <3> QED BY <3>2, Zenon DEF Quantify
  <2>3. c.kind \in {"const", "opaque", "cmp", "not"} \cup Groups
    BY Bounds, KindsOfTrees DEF Groups
  <2> QED BY <2>1, <2>2, <2>3 DEF EvaluateBody, Groups, Quantify
<1>3. \A c \in Expression : \A f \in [Expression -> BOOLEAN] : G[<<c, f>>] = EvaluateBody(f, ctx, c)
  OBVIOUS
<1> HIDE DEF G
<1>4. ToAll(Expression, BOOLEAN, G) /\ PartsBelow(Expression, BOOLEAN, G)
  BY <1>1, <1>2, <1>3 DEF ToAll, PartsBelow
<1>5. PICK f \in [Expression -> BOOLEAN] : Solution(Expression, G, f)
  <2>1. BOOLEAN # {}
    OBVIOUS
  <2> QED BY <1>4, <2>1, Bounds, PartwiseRecursion, Zenon
<1>6. f = [c \in Expression |-> EvaluateBody(f, ctx, c)]
  BY <1>3, <1>5 DEF Solution
<1>7. Evaluate(ctx) = [c \in Expression |-> EvaluateBody(Evaluate(ctx), ctx, c)]
  BY <1>6, Zenon DEF Evaluate, EvaluateBody
<1> QED BY <1>1, <1>7

ValidBody(f, c) ==
  [depth \in Nat |->
     /\ depth <= MaxDepth
     /\ c.kind \in {"cmp", "opaque"} => c.operands # "malformed"
     /\ c.kind \in Groups => /\ Len(c.kids) \in 2 .. MaxChildren
                             /\ \A i \in DOMAIN c.kids : f[c.kids[i]][depth + 1]
     /\ c.kind = "not" => f[c.kid][depth + 1]]

LEMMA ValidUnfolds ==
  /\ Valid \in [Condition -> [Nat -> BOOLEAN]]
  /\ \A c \in Condition : Valid[c] = ValidBody(Valid, c)
<1> DEFINE G == [p \in Condition \X [Condition -> [Nat -> BOOLEAN]] |-> ValidBody(p[2], p[1])]
<1>1. ASSUME NEW c \in Condition, NEW f
      PROVE  ValidBody(f, c) \in [Nat -> BOOLEAN]
  BY DEF ValidBody
<1>2. ASSUME NEW c \in Condition, NEW f \in [Condition -> [Nat -> BOOLEAN]],
             NEW g \in [Condition -> [Nat -> BOOLEAN]],
             \A d \in Parts(c) : f[d] = g[d]
      PROVE  ValidBody(f, c) = ValidBody(g, c)
  <2>1. c.kind = "not" => f[c.kid] = g[c.kid]
    BY <1>2 DEF Parts
  <2>2. c.kind \in Groups => \A i \in DOMAIN c.kids : f[c.kids[i]] = g[c.kids[i]]
    BY <1>2 DEF Parts, Groups
  <2> QED BY <2>1, <2>2 DEF ValidBody, Groups
<1>3. \A c \in Condition : \A f \in [Condition -> [Nat -> BOOLEAN]] : G[<<c, f>>] = ValidBody(f, c)
  OBVIOUS
<1> HIDE DEF G
<1>4. ToAll(Condition, [Nat -> BOOLEAN], G) /\ PartsBelow(Condition, [Nat -> BOOLEAN], G)
  BY <1>1, <1>2, <1>3 DEF ToAll, PartsBelow
<1>5. PICK f \in [Condition -> [Nat -> BOOLEAN]] : Solution(Condition, G, f)
  <2>1. [Nat -> BOOLEAN] # {}
    <3>1. [n \in Nat |-> TRUE] \in [Nat -> BOOLEAN]
      OBVIOUS
    <3> QED BY <3>1
  <2> QED BY <1>4, <2>1, Bounds, PartwiseRecursion, Zenon
<1>6. f = [c \in Condition |-> ValidBody(f, c)]
  BY <1>3, <1>5 DEF Solution
<1>7. Valid = [c \in Condition |-> ValidBody(Valid, c)]
  BY <1>6, Zenon DEF Valid, ValidBody
<1> QED BY <1>1, <1>7

NormalBody(f, c) ==
  /\ c.kind \in {"all", "any"} =>
       /\ Len(c.kids) > 1
       /\ \A i \in DOMAIN c.kids : /\ c.kids[i].kind \notin {c.kind, "const"}
                                   /\ f[c.kids[i]]
  /\ c.kind = "not" => c.kid.kind \notin {"not", "const"} /\ f[c.kid]

LEMMA NormalUnfolds ==
  /\ Normal \in [Condition -> BOOLEAN]
  /\ \A c \in Condition : Normal[c] = NormalBody(Normal, c)
<1> DEFINE G == [p \in Condition \X [Condition -> BOOLEAN] |-> NormalBody(p[2], p[1])]
<1>1. ASSUME NEW c \in Condition, NEW f
      PROVE  NormalBody(f, c) \in BOOLEAN
  BY DEF NormalBody
<1>2. ASSUME NEW c \in Condition, NEW f \in [Condition -> BOOLEAN], NEW g \in [Condition -> BOOLEAN],
             \A d \in Parts(c) : f[d] = g[d]
      PROVE  NormalBody(f, c) = NormalBody(g, c)
  <2>1. c.kind = "not" => f[c.kid] = g[c.kid]
    BY <1>2 DEF Parts
  <2>2. c.kind \in Groups => \A i \in DOMAIN c.kids : f[c.kids[i]] = g[c.kids[i]]
    BY <1>2 DEF Parts, Groups
  <2> QED BY <2>1, <2>2 DEF NormalBody, Groups
<1>3. \A c \in Condition : \A f \in [Condition -> BOOLEAN] : G[<<c, f>>] = NormalBody(f, c)
  OBVIOUS
<1> HIDE DEF G
<1>4. ToAll(Condition, BOOLEAN, G) /\ PartsBelow(Condition, BOOLEAN, G)
  BY <1>1, <1>2, <1>3 DEF ToAll, PartsBelow
<1>5. PICK f \in [Condition -> BOOLEAN] : Solution(Condition, G, f)
  <2>1. BOOLEAN # {}
    OBVIOUS
  <2> QED BY <1>4, <2>1, Bounds, PartwiseRecursion, Zenon
<1>6. f = [c \in Condition |-> NormalBody(f, c)]
  BY <1>3, <1>5 DEF Solution
<1>7. Normal = [c \in Condition |-> NormalBody(Normal, c)]
  BY <1>6, Zenon DEF Normal, NormalBody
<1> QED BY <1>1, <1>7

WideBody(f, c) ==
  \/ c.kind \in Groups /\ (Len(c.kids) > MaxChildren \/ \E i \in DOMAIN c.kids : f[c.kids[i]])
  \/ c.kind = "not" /\ f[c.kid]

LEMMA WideUnfolds ==
  /\ Wide \in [Condition -> BOOLEAN]
  /\ \A c \in Condition : Wide[c] = WideBody(Wide, c)
<1> DEFINE G == [p \in Condition \X [Condition -> BOOLEAN] |-> WideBody(p[2], p[1])]
<1>1. ASSUME NEW c \in Condition, NEW f
      PROVE  WideBody(f, c) \in BOOLEAN
  BY DEF WideBody
<1>2. ASSUME NEW c \in Condition, NEW f \in [Condition -> BOOLEAN], NEW g \in [Condition -> BOOLEAN],
             \A d \in Parts(c) : f[d] = g[d]
      PROVE  WideBody(f, c) = WideBody(g, c)
  <2>1. c.kind = "not" => f[c.kid] = g[c.kid]
    BY <1>2 DEF Parts
  <2>2. c.kind \in Groups => \A i \in DOMAIN c.kids : f[c.kids[i]] = g[c.kids[i]]
    BY <1>2 DEF Parts, Groups
  <2> QED BY <2>1, <2>2 DEF WideBody, Groups
<1>3. \A c \in Condition : \A f \in [Condition -> BOOLEAN] : G[<<c, f>>] = WideBody(f, c)
  OBVIOUS
<1> HIDE DEF G
<1>4. ToAll(Condition, BOOLEAN, G) /\ PartsBelow(Condition, BOOLEAN, G)
  BY <1>1, <1>2, <1>3 DEF ToAll, PartsBelow
<1>5. PICK f \in [Condition -> BOOLEAN] : Solution(Condition, G, f)
  <2>1. BOOLEAN # {}
    OBVIOUS
  <2> QED BY <1>4, <2>1, Bounds, PartwiseRecursion, Zenon
<1>6. f = [c \in Condition |-> WideBody(f, c)]
  BY <1>3, <1>5 DEF Solution
<1>7. Wide = [c \in Condition |-> WideBody(Wide, c)]
  BY <1>6, Zenon DEF Wide, WideBody
<1> QED BY <1>1, <1>7

-----------------------------------------------------------------------------
(* Sequences                                                               *)

LEMMA SingletonSeq ==
  ASSUME NEW S, NEW x \in S
  PROVE  <<x>> \in Seq(S)
OBVIOUS

LEMMA RangeOfConcat ==
  ASSUME NEW S, NEW s \in Seq(S), NEW t \in Seq(S)
  PROVE  s \o t \in Seq(S) /\ Range(s \o t) = Range(s) \cup Range(t)
<1>1. /\ s \o t \in Seq(S)
      /\ Len(s \o t) = Len(s) + Len(t)
      /\ \A i \in 1 .. Len(s) : (s \o t)[i] = s[i]
      /\ \A i \in 1 .. Len(t) : (s \o t)[Len(s) + i] = t[i]
      /\ \A i \in 1 .. Len(s) + Len(t) : i \notin 1 .. Len(s) => i - Len(s) \in 1 .. Len(t)
                                               /\ (s \o t)[i] = t[i - Len(s)]
  OBVIOUS
<1>2. DOMAIN s = 1 .. Len(s) /\ DOMAIN t = 1 .. Len(t) /\ DOMAIN (s \o t) = 1 .. Len(s) + Len(t)
      /\ Len(s) \in Nat /\ Len(t) \in Nat
  BY <1>1
<1>3. ASSUME NEW x \in Range(s \o t) PROVE x \in Range(s) \cup Range(t)
  <2>1. PICK i \in 1 .. Len(s) + Len(t) : x = (s \o t)[i]
    BY <1>2, <1>3 DEF Range
  <2>2. CASE i \in 1 .. Len(s)
    BY <1>1, <1>2, <2>1, <2>2 DEF Range
  <2>3. CASE i \notin 1 .. Len(s)
    BY <1>1, <1>2, <2>1, <2>3 DEF Range
  <2> QED BY <2>2, <2>3
<1>4. ASSUME NEW x \in Range(s) PROVE x \in Range(s \o t)
  <2>1. PICK i \in 1 .. Len(s) : x = s[i]
    BY <1>2, <1>4 DEF Range
  <2>2. i \in 1 .. Len(s) + Len(t) /\ x = (s \o t)[i]
    BY <1>1, <1>2, <2>1
  <2> QED BY <1>2, <2>2 DEF Range
<1>5. ASSUME NEW x \in Range(t) PROVE x \in Range(s \o t)
  <2>1. PICK i \in 1 .. Len(t) : x = t[i]
    BY <1>2, <1>5 DEF Range
  <2>2. Len(s) + i \in 1 .. Len(s) + Len(t) /\ x = (s \o t)[Len(s) + i]
    BY <1>1, <1>2, <2>1
  <2> QED BY <1>2, <2>2 DEF Range
<1> QED BY <1>1, <1>3, <1>4, <1>5

(* Flattening keeps what is in the sequences.                              *)
LEMMA Flattening ==
  ASSUME NEW S, NEW ss \in Seq(Seq(S))
  PROVE  /\ FlattenSeq(ss) \in Seq(S)
         /\ Range(FlattenSeq(ss)) = UNION {Range(ss[i]) : i \in DOMAIN ss}
<1> DEFINE n == Len(ss)
           U == 1 .. n
           T == [i \in U |-> Seq(S)]
           rank == [i \in U |-> i]
           E(f, i) == IF i = 1 THEN ss[i] ELSE f[i - 1] \o ss[i]
           G == [p \in U \X Typed(U, T) |-> E(p[2], p[1])]
<1>0. n \in Nat /\ DOMAIN ss = U /\ \A i \in U : ss[i] \in Seq(S)
  OBVIOUS
<1>1. CASE n = 0
  <2>1. FlattenSeq(ss) = ss /\ ss = <<>> /\ U = {}
    BY <1>0, <1>1 DEF FlattenSeq
  <2> QED BY <1>0, <2>1 DEF Range
<1>2. CASE n # 0
  <2>1. rank \in [U -> Nat] /\ \A i \in U : T[i] # {}
    <3>1. <<>> \in Seq(S)
      OBVIOUS
    <3> QED BY <3>1
  <2>2. \A i \in U : \A f \in Typed(U, T) : G[<<i, f>>] = E(f, i)
    OBVIOUS
  <2>3. StaysIn(U, T, G)
    <3>1. SUFFICES ASSUME NEW i \in U, NEW f \in Typed(U, T) PROVE E(f, i) \in Seq(S)
      BY <2>2 DEF StaysIn
    <3>2. i # 1 => f[i - 1] \in Seq(S)
      BY <1>0 DEF Typed
    <3> QED BY <1>0, <3>2
  <2>4. LooksBelow(U, T, rank, G)
    <3>1. SUFFICES ASSUME NEW i \in U, NEW f \in Typed(U, T), NEW g \in Typed(U, T),
                          \A j \in U : j < i => f[j] = g[j]
                   PROVE  E(f, i) = E(g, i)
      <4>1. \A i, j \in U : rank[j] < rank[i] <=> j < i
        OBVIOUS
      <4> HIDE DEF G, E, T, U, rank
      <4> QED BY <2>2, <4>1 DEF LooksBelow
    <3>2. i # 1 => i - 1 \in U /\ i - 1 < i
      BY <1>0
    <3> QED BY <3>1, <3>2
  <2> HIDE DEF T, G, rank
  <2>5. PICK f \in Typed(U, T) : Solution(U, G, f)
    BY <2>1, <2>3, <2>4, RankedRecursion, Zenon
  <2>6. f = [i \in U |-> E(f, i)]
    BY <2>2, <2>5 DEF Solution, Typed
  <2> DEFINE flat == CHOOSE g : g = [i \in U |-> E(g, i)]
  <2>7. FlattenSeq(ss) = flat[n]
    BY <1>2 DEF FlattenSeq
  <2>8. flat = [i \in U |-> E(flat, i)]
    BY <2>6, Zenon
  <2> HIDE DEF flat
  <2> DEFINE P == {k \in Nat : k \in U => /\ flat[k] \in Seq(S)
                                          /\ Range(flat[k]) = UNION {Range(ss[i]) : i \in 1 .. k}}
  <2>9. ASSUME NEW k \in Nat, \A m \in Nat : m < k => m \in P
        PROVE  k \in P
    <3>1. SUFFICES ASSUME k \in U
                   PROVE  /\ flat[k] \in Seq(S)
                          /\ Range(flat[k]) = UNION {Range(ss[i]) : i \in 1 .. k}
      OBVIOUS
    <3>2. CASE k = 1
      <4>1. flat[k] = ss[1] /\ 1 .. k = {1}
        BY <2>8, <3>1, <3>2
      <4> QED BY <1>0, <3>1, <3>2, <4>1
    <3>3. CASE k # 1
      <4>1. k - 1 \in Nat /\ k - 1 \in U /\ k - 1 < k /\ 1 .. k = (1 .. k - 1) \cup {k}
        BY <1>0, <3>1, <3>3
      <4>2. /\ flat[k - 1] \in Seq(S)
            /\ Range(flat[k - 1]) = UNION {Range(ss[i]) : i \in 1 .. k - 1}
        BY <2>9, <4>1
      <4>3. flat[k] = flat[k - 1] \o ss[k] /\ ss[k] \in Seq(S)
        BY <1>0, <2>8, <3>1, <3>3
      <4>4. flat[k] \in Seq(S) /\ Range(flat[k]) = Range(flat[k - 1]) \cup Range(ss[k])
        BY <4>2, <4>3, RangeOfConcat
      <4>5. UNION {Range(ss[i]) : i \in 1 .. k}
              = (UNION {Range(ss[i]) : i \in 1 .. k - 1}) \cup Range(ss[k])
        BY <4>1
      <4> QED BY <4>2, <4>4, <4>5
    <3> QED BY <3>2, <3>3
  <2> HIDE DEF P
  <2>10. Nat \subseteq P
    BY <2>9, InductionOnNat
  <2>11. n \in U /\ n \in Nat
    BY <1>0, <1>2
  <2> QED BY <1>0, <2>7, <2>10, <2>11 DEF P
<1> QED BY <1>1, <1>2
-----------------------------------------------------------------------------
(* Recursion that returns a condition                                      *)

(* The largest of the numbers of a sequence.                               *)
LEMMA MaxOfMany ==
  ASSUME NEW n \in Nat \ {0}, NEW f, \A i \in 1 .. n : f[i] \in Nat
  PROVE  /\ Max({f[i] : i \in 1 .. n}) \in Nat
         /\ \A i \in 1 .. n : f[i] <= Max({f[j] : j \in 1 .. n})
<1> DEFINE P == {k \in Nat : k \in 1 .. n => \E m \in 1 .. k : \A i \in 1 .. k : f[i] <= f[m]}
<1>1. ASSUME NEW k \in Nat, \A m \in Nat : m < k => m \in P
      PROVE  k \in P
  <2>1. SUFFICES ASSUME k \in 1 .. n
                 PROVE  \E m \in 1 .. k : \A i \in 1 .. k : f[i] <= f[m]
    OBVIOUS
  <2>2. CASE k = 1
    BY <2>2
  <2>3. CASE k # 1
    <3>1. k - 1 \in Nat /\ k - 1 < k /\ k - 1 \in 1 .. n
      BY <2>1, <2>3
    <3>2. PICK m \in 1 .. k - 1 : \A i \in 1 .. k - 1 : f[i] <= f[m]
      BY <1>1, <3>1
    <3>3. m \in 1 .. k /\ \A i \in 1 .. k : i = k \/ i \in 1 .. k - 1
      BY <3>1
    <3>4. f[m] \in Nat /\ f[k] \in Nat /\ \A i \in 1 .. k : f[i] \in Nat
      BY <2>1, <3>3
    <3>5. CASE f[k] <= f[m]
      BY <3>2, <3>3, <3>5
    <3>6. CASE f[m] <= f[k]
      BY <2>1, <3>2, <3>3, <3>4, <3>6
    <3> QED BY <3>4, <3>5, <3>6
  <2> QED BY <2>2, <2>3
<1> HIDE DEF P
<1>2. Nat \subseteq P
  BY <1>1, InductionOnNat
<1>3. n \in Nat /\ n \in 1 .. n
  OBVIOUS
<1>4. PICK m \in 1 .. n : \A i \in 1 .. n : f[i] <= f[m]
  BY <1>2, <1>3 DEF P
<1> DEFINE S == {f[i] : i \in 1 .. n}
<1>5. f[m] \in S /\ \A y \in S : f[m] >= y
  BY <1>4
<1>6. S \subseteq Nat
  OBVIOUS
<1>7. Max(S) \in S /\ \A y \in S : Max(S) >= y
  <2> HIDE DEF S
  <2> QED BY <1>5 DEF Max
<1>8. \A i \in 1 .. n : f[i] \in S /\ f[i] \in Nat
  OBVIOUS
<1>9. Max(S) \in Nat
  BY <1>6, <1>7
<1>10. \A i \in 1 .. n : f[i] <= Max(S)
  <2> HIDE DEF S
  <2> QED BY <1>7, <1>8, <1>9
<1> QED BY <1>9, <1>10

(* A part is at least one level lower, and so is what is no higher than it. *)
LEMMA OneLevelBelow ==
  ASSUME NEW n \in Nat, NEW c \in Trees[n], NEW d \in Parts(c)
  PROVE  /\ Height(c) - 1 \in Nat /\ Height(c) # 0
         /\ Trees[Height(d)] \subseteq Trees[Height(c) - 1]
         /\ Trees[3 * Height(d)] \subseteq Trees[3 * (Height(c) - 1)]
<1>1. Height(d) \in Nat /\ Height(c) \in Nat /\ Height(d) < Height(c)
  BY PartsAreLower
<1>2. /\ Height(c) - 1 \in Nat /\ Height(c) # 0 /\ Height(d) <= Height(c) - 1
      /\ 3 * (Height(c) - 1) \in Nat /\ 3 * Height(d) \in Nat
      /\ 3 * Height(d) <= 3 * (Height(c) - 1)
  BY <1>1
<1> QED BY <1>1, <1>2, TreesGrow

(* The children of a group, each replaced.                                 *)
LEMMA Replaced ==
  ASSUME NEW n \in Nat, NEW c \in Trees[n], c.kind \in Groups, NEW f, NEW S,
         \A d \in Parts(c) : f[d] \in S
  PROVE  LET kids == [i \in DOMAIN c.kids |-> f[c.kids[i]]]
         IN /\ kids \in Seq(S) /\ kids # <<>>
            /\ Len(kids) = Len(c.kids) /\ Len(kids) \in Nat \ {0}
            /\ c.kids[1] \in Parts(c)
            /\ DOMAIN kids = 1 .. Len(kids) /\ DOMAIN kids = DOMAIN c.kids
<1> DEFINE kids == [i \in DOMAIN c.kids |-> f[c.kids[i]]]
<1>1. /\ c.kids \in Seq(Trees[n]) /\ c.kids # <<>>
      /\ Parts(c) = {c.kids[i] : i \in DOMAIN c.kids}
  BY KindsOfTrees DEF IsGroup, Groups
<1>2. Len(c.kids) \in Nat \ {0} /\ DOMAIN c.kids = 1 .. Len(c.kids)
  BY <1>1
<1>3. \A i \in DOMAIN c.kids : f[c.kids[i]] \in S
  BY <1>1
<1>5. c.kids[1] \in Parts(c)
  BY <1>1, <1>2
<1>4. kids \in Seq(S) /\ Len(kids) = Len(c.kids)
  BY <1>2, <1>3
<1> QED BY <1>2, <1>5, <1>4

(* For any type there is a solution that has it.                           *)
DepthBody(f, c) ==
  CASE c.kind \in Groups -> 1 + Max({f[c.kids[i]] : i \in DOMAIN c.kids})
    [] c.kind = "not" -> 1 + f[c.kid]
    [] OTHER -> 0

LEMMA DepthStays ==
  ASSUME NEW c \in Condition, NEW f, \A d \in Parts(c) : f[d] \in Nat
  PROVE  /\ DepthBody(f, c) \in Nat
         /\ \A d \in Parts(c) : f[d] < DepthBody(f, c)
<1>1. CASE c.kind \in Groups
  <2> DEFINE kids == [i \in DOMAIN c.kids |-> f[c.kids[i]]]
             n == Len(kids)
  <2>1. kids \in Seq(Nat) /\ n \in Nat \ {0} /\ DOMAIN c.kids = 1 .. n
    BY <1>1, Bounds, Replaced
  <2>2. \A i \in 1 .. n : kids[i] \in Nat /\ kids[i] = f[c.kids[i]]
    BY <2>1
  <2>3. {f[c.kids[i]] : i \in DOMAIN c.kids} = {kids[i] : i \in 1 .. n}
    BY <2>1, <2>2
  <2> HIDE DEF kids, n
  <2>4. /\ Max({kids[i] : i \in 1 .. n}) \in Nat
        /\ \A i \in 1 .. n : kids[i] <= Max({kids[j] : j \in 1 .. n})
    BY <2>1, <2>2, MaxOfMany
  <2>5. DepthBody(f, c) = 1 + Max({kids[i] : i \in 1 .. n})
    <3>1. DepthBody(f, c) = 1 + Max({f[c.kids[i]] : i \in DOMAIN c.kids})
      BY <1>1 DEF DepthBody, Groups
    <3> QED BY <2>3, <3>1, Zenon
  <2>6. \A d \in Parts(c) : \E i \in 1 .. n : f[d] = kids[i]
    BY <1>1, <2>1, <2>2 DEF Parts, Groups
  <2> QED BY <2>2, <2>4, <2>5, <2>6
<1>2. CASE c.kind = "not"
  BY <1>2 DEF DepthBody, Parts, Groups
<1>3. CASE c.kind \notin Groups \cup {"not"}
  BY <1>3 DEF DepthBody, Parts, Groups
<1> QED BY <1>1, <1>2, <1>3

LEMMA DepthUnfolds ==
  /\ Depth \in [Condition -> Nat]
  /\ \A c \in Condition : Depth[c] = DepthBody(Depth, c)
<1> DEFINE G == [p \in Condition \X [Condition -> Nat] |-> DepthBody(p[2], p[1])]
<1>1. ASSUME NEW c \in Condition, NEW f, \A d \in Parts(c) : f[d] \in Nat
      PROVE  DepthBody(f, c) \in Nat
  BY <1>1, DepthStays
<1>2. ASSUME NEW c \in Condition, NEW f, NEW g, \A d \in Parts(c) : f[d] = g[d]
      PROVE  DepthBody(f, c) = DepthBody(g, c)
  <2>1. c.kind = "not" => f[c.kid] = g[c.kid]
    BY <1>2 DEF Parts
  <2>2. c.kind \in Groups => \A i \in DOMAIN c.kids : f[c.kids[i]] = g[c.kids[i]]
    BY <1>2 DEF Parts, Groups
  <2>3. c.kind \in Groups => {f[c.kids[i]] : i \in DOMAIN c.kids} = {g[c.kids[i]] : i \in DOMAIN c.kids}
    BY <2>2
  <2> QED BY <2>1, <2>3 DEF DepthBody, Groups
<1>3. \A c \in Condition : \A f \in [Condition -> Nat] : G[<<c, f>>] = DepthBody(f, c)
  OBVIOUS
<1> HIDE DEF G
<1>4. ToAll(Condition, Nat, G)
  <2>1. ASSUME NEW c \in Condition, NEW f \in [Condition -> Nat] PROVE G[<<c, f>>] \in Nat
    <3>1. \A d \in Parts(c) : f[d] \in Nat
      BY Bounds, PartsAreLower
    <3> QED BY <1>1, <1>3, <3>1
  <2> QED BY <2>1 DEF ToAll
<1>5. PartsBelow(Condition, Nat, G)
  BY <1>2, <1>3 DEF PartsBelow
<1>6. PICK f \in [Condition -> Nat] : Solution(Condition, G, f)
  <2>1. Nat # {}
    OBVIOUS
  <2> QED BY <1>4, <1>5, <2>1, Bounds, PartwiseRecursion, Zenon
<1>7. f = [c \in Condition |-> DepthBody(f, c)]
  BY <1>3, <1>6 DEF Solution
<1>8. Depth = [c \in Condition |-> DepthBody(Depth, c)]
  BY <1>7, Zenon DEF Depth, DepthBody
<1> DEFINE P == {c \in Condition : Depth[c] \in Nat}
<1>9. ASSUME NEW c \in Condition, \A d \in Parts(c) : d \in P
      PROVE  c \in P
  BY <1>1, <1>8, <1>9
<1> HIDE DEF P
<1>10. Condition \subseteq P
  BY <1>9, Bounds, PartwiseInduction, Zenon
<1> QED BY <1>8, <1>10 DEF P

AllKinds == LeafForms \cup {"logical", "negation", "constant", "equality", "inequality",
                            "numeric_comparison"}

KindsOfBody(f, c) ==
  CASE c.kind \in Groups -> {"logical"} \cup UNION {f[c.kids[i]] : i \in DOMAIN c.kids}
    [] c.kind = "not" -> {"negation"} \cup f[c.kid]
    [] c.kind = "const" -> {"constant"}
    [] c.kind = "opaque" -> {c.form}
    [] c.kind = "cmp" -> {ComparisonKind(c.op)}

LEMMA KindsOfUnfolds ==
  /\ KindsOf \in [Condition -> (SUBSET AllKinds)]
  /\ \A c \in Condition : KindsOf[c] = KindsOfBody(KindsOf, c)
<1> DEFINE G == [p \in Condition \X [Condition -> (SUBSET AllKinds)] |-> KindsOfBody(p[2], p[1])]
<1>1. ASSUME NEW c \in Condition, NEW f, \A d \in Parts(c) : f[d] \in (SUBSET AllKinds)
      PROVE  KindsOfBody(f, c) \in (SUBSET AllKinds)
  <2>1. CASE c.kind \in Groups
    <3>1. \A i \in DOMAIN c.kids : f[c.kids[i]] \subseteq AllKinds
      BY <1>1, <2>1 DEF Parts, Groups
    <3>2. KindsOfBody(f, c) = {"logical"} \cup UNION {f[c.kids[i]] : i \in DOMAIN c.kids}
      BY <2>1 DEF KindsOfBody, Groups
    <3>3. UNION {f[c.kids[i]] : i \in DOMAIN c.kids} \subseteq AllKinds
      BY <3>1
    <3> QED BY <3>2, <3>3 DEF AllKinds
  <2>2. CASE c.kind = "not"
    BY <1>1, <2>2 DEF KindsOfBody, AllKinds, Parts, Groups
  <2>3. CASE c \in Leaves
    BY <2>3, LeafKinds DEF KindsOfBody, AllKinds, Groups, ComparisonKind
  <2> QED BY <2>1, <2>2, <2>3, Bounds, KindsOfTrees DEF Groups
<1>2. ASSUME NEW c \in Condition, NEW f, NEW g, \A d \in Parts(c) : f[d] = g[d]
      PROVE  KindsOfBody(f, c) = KindsOfBody(g, c)
  <2>1. c.kind = "not" => f[c.kid] = g[c.kid]
    BY <1>2 DEF Parts
  <2>2. c.kind \in Groups => \A i \in DOMAIN c.kids : f[c.kids[i]] = g[c.kids[i]]
    BY <1>2 DEF Parts, Groups
  <2>3. c.kind \in Groups => {f[c.kids[i]] : i \in DOMAIN c.kids} = {g[c.kids[i]] : i \in DOMAIN c.kids}
    BY <2>2
  <2>4. CASE c.kind \in Groups
    <3>1. KindsOfBody(f, c) = {"logical"} \cup UNION {f[c.kids[i]] : i \in DOMAIN c.kids}
      BY <2>4 DEF KindsOfBody, Groups
    <3>2. KindsOfBody(g, c) = {"logical"} \cup UNION {g[c.kids[i]] : i \in DOMAIN c.kids}
      BY <2>4 DEF KindsOfBody, Groups
    <3> QED BY <2>3, <2>4, <3>1, <3>2, Zenon
  <2>5. CASE c.kind = "not"
    BY <2>1, <2>5 DEF KindsOfBody, Groups
  <2>6. CASE c \in Leaves
    BY <2>6, LeafKinds DEF KindsOfBody, Groups
  <2> QED BY <2>4, <2>5, <2>6, Bounds, KindsOfTrees DEF Groups
<1>3. \A c \in Condition : \A f \in [Condition -> (SUBSET AllKinds)] : G[<<c, f>>] = KindsOfBody(f, c)
  OBVIOUS
<1> HIDE DEF G
<1>4. ToAll(Condition, (SUBSET AllKinds), G)
  <2>1. ASSUME NEW c \in Condition, NEW f \in [Condition -> (SUBSET AllKinds)]
        PROVE  G[<<c, f>>] \in (SUBSET AllKinds)
    <3>1. \A d \in Parts(c) : f[d] \in (SUBSET AllKinds)
      BY Bounds, PartsAreLower
    <3> QED BY <1>1, <1>3, <3>1
  <2> QED BY <2>1 DEF ToAll
<1>5. PartsBelow(Condition, (SUBSET AllKinds), G)
  BY <1>2, <1>3 DEF PartsBelow
<1>6. PICK f \in [Condition -> (SUBSET AllKinds)] : Solution(Condition, G, f)
  <2>1. (SUBSET AllKinds) # {}
    OBVIOUS
  <2> QED BY <1>4, <1>5, <2>1, Bounds, PartwiseRecursion, Zenon
<1>7. f = [c \in Condition |-> KindsOfBody(f, c)]
  BY <1>3, <1>6 DEF Solution
<1>8. KindsOf = [c \in Condition |-> KindsOfBody(KindsOf, c)]
  BY <1>7, Zenon DEF KindsOf, KindsOfBody
<1> DEFINE P == {c \in Condition : KindsOf[c] \in (SUBSET AllKinds)}
<1>9. ASSUME NEW c \in Condition, \A d \in Parts(c) : d \in P
      PROVE  c \in P
  BY <1>1, <1>8, <1>9
<1> HIDE DEF P
<1>10. Condition \subseteq P
  BY <1>9, Bounds, PartwiseInduction, Zenon
<1> QED BY <1>8, <1>10 DEF P

OperandsOfBody(f, c) ==
  CASE c.kind \in Groups -> UNION {f[c.kids[i]] : i \in DOMAIN c.kids}
    [] c.kind = "not" -> f[c.kid]
    [] c.kind \in {"cmp", "opaque"} -> {c.operands}
    [] OTHER -> {}

(* Of no operands but those in X.                                          *)
Within(f, kids, X) == \A i \in DOMAIN kids : f[kids[i]] \subseteq X

LEMMA OperandsOfUnfolds ==
  /\ OperandsOf \in [Condition -> (SUBSET Operands)]
  /\ \A c \in Condition : OperandsOf[c] = OperandsOfBody(OperandsOf, c)
<1> DEFINE V == SUBSET Operands
           G == [p \in Condition \X [Condition -> V] |-> OperandsOfBody(p[2], p[1])]
<1>1. ASSUME NEW c \in Condition, NEW f, \A d \in Parts(c) : f[d] \in V
      PROVE  OperandsOfBody(f, c) \in V
  <2>1. CASE c.kind \in Groups
    <3>1. \A i \in DOMAIN c.kids : f[c.kids[i]] \subseteq Operands
      BY <1>1, <2>1 DEF Parts, Groups
    <3>2. OperandsOfBody(f, c) = UNION {f[c.kids[i]] : i \in DOMAIN c.kids}
      BY <2>1 DEF OperandsOfBody, Groups
    <3> QED BY <3>1, <3>2
  <2>2. CASE c.kind = "not"
    BY <1>1, <2>2 DEF OperandsOfBody, Parts, Groups
  <2>3. CASE c \in Leaves
    BY <2>3, LeafKinds DEF OperandsOfBody, Groups
  <2> QED BY <2>1, <2>2, <2>3, Bounds, KindsOfTrees DEF Groups
<1>2. ASSUME NEW c \in Condition, NEW f, NEW g, \A d \in Parts(c) : f[d] = g[d]
      PROVE  OperandsOfBody(f, c) = OperandsOfBody(g, c)
  <2>1. c.kind = "not" => f[c.kid] = g[c.kid]
    BY <1>2 DEF Parts
  <2>2. c.kind \in Groups => \A i \in DOMAIN c.kids : f[c.kids[i]] = g[c.kids[i]]
    BY <1>2 DEF Parts, Groups
  <2>3. c.kind \in Groups => {f[c.kids[i]] : i \in DOMAIN c.kids} = {g[c.kids[i]] : i \in DOMAIN c.kids}
    BY <2>2
  <2>4. CASE c.kind \in Groups
    <3>1. OperandsOfBody(f, c) = UNION {f[c.kids[i]] : i \in DOMAIN c.kids}
      BY <2>4 DEF OperandsOfBody, Groups
    <3>2. OperandsOfBody(g, c) = UNION {g[c.kids[i]] : i \in DOMAIN c.kids}
      BY <2>4 DEF OperandsOfBody, Groups
    <3> QED BY <2>3, <2>4, <3>1, <3>2, Zenon
  <2>5. CASE c.kind = "not"
    BY <2>1, <2>5 DEF OperandsOfBody, Groups
  <2>6. CASE c \in Leaves
    BY <2>6, LeafKinds DEF OperandsOfBody, Groups
  <2> QED BY <2>4, <2>5, <2>6, Bounds, KindsOfTrees DEF Groups
<1>3. \A c \in Condition : \A f \in [Condition -> V] : G[<<c, f>>] = OperandsOfBody(f, c)
  OBVIOUS
<1> HIDE DEF G
<1>4. ToAll(Condition, V, G)
  <2>1. ASSUME NEW c \in Condition, NEW f \in [Condition -> V]
        PROVE  G[<<c, f>>] \in V
    <3>1. \A d \in Parts(c) : f[d] \in V
      BY Bounds, PartsAreLower
    <3> QED BY <1>1, <1>3, <3>1
  <2> QED BY <2>1 DEF ToAll
<1>5. PartsBelow(Condition, V, G)
  BY <1>2, <1>3 DEF PartsBelow
<1>6. PICK f \in [Condition -> V] : Solution(Condition, G, f)
  <2>1. V # {}
    OBVIOUS
  <2> QED BY <1>4, <1>5, <2>1, Bounds, PartwiseRecursion, Zenon
<1>7. f = [c \in Condition |-> OperandsOfBody(f, c)]
  BY <1>3, <1>6 DEF Solution
<1>8. OperandsOf = [c \in Condition |-> OperandsOfBody(OperandsOf, c)]
  BY <1>7, Zenon DEF OperandsOf, OperandsOfBody
<1> DEFINE P == {c \in Condition : OperandsOf[c] \in V}
<1>9. ASSUME NEW c \in Condition, \A d \in Parts(c) : d \in P
      PROVE  c \in P
  BY <1>1, <1>8, <1>9
<1> HIDE DEF P
<1>10. Condition \subseteq P
  BY <1>9, Bounds, PartwiseInduction, Zenon
<1> QED BY <1>8, <1>10 DEF P

(* What the operands of a condition are, by its shape.                     *)
LEMMA OperandsByShape ==
  ASSUME NEW c \in Condition
  PROVE  /\ c.kind \in Groups => /\ Within(OperandsOf, c.kids, OperandsOf[c])
                                 /\ \A X : Within(OperandsOf, c.kids, X) => OperandsOf[c] \subseteq X
         /\ c.kind = "not" => OperandsOf[c] = OperandsOf[c.kid]
         /\ c.kind \in {"cmp", "opaque"} => OperandsOf[c] = {c.operands}
         /\ c.kind = "const" => OperandsOf[c] = {}
<1>1. OperandsOf[c] = OperandsOfBody(OperandsOf, c)
  BY OperandsOfUnfolds
<1>2. ASSUME c.kind \in Groups
      PROVE  /\ Within(OperandsOf, c.kids, OperandsOf[c])
             /\ \A X : Within(OperandsOf, c.kids, X) => OperandsOf[c] \subseteq X
  <2>1. OperandsOf[c] = UNION {OperandsOf[c.kids[i]] : i \in DOMAIN c.kids}
    BY <1>1, <1>2 DEF OperandsOfBody, Groups
  <2> QED BY <2>1 DEF Within
<1>3. c.kind = "not" => OperandsOf[c] = OperandsOf[c.kid]
  BY <1>1 DEF OperandsOfBody, Groups
<1>4. c.kind \in {"cmp", "opaque"} => OperandsOf[c] = {c.operands}
  BY <1>1 DEF OperandsOfBody, Groups
<1>5. c.kind = "const" => OperandsOf[c] = {}
  BY <1>1 DEF OperandsOfBody, Groups
<1> QED BY <1>2, <1>3, <1>4, <1>5

(* Trees at a level under a height, as the children and as the result.     *)
LEMMA Levels ==
  ASSUME NEW c \in Condition
  PROVE  /\ Height(c) \in Nat /\ c \in Trees[Height(c)]
         /\ Trees[Height(c)] \subseteq Condition
         /\ Trees[3 * Height(c)] \subseteq Expression
         /\ Leaves \subseteq Trees[Height(c)] /\ Leaves \subseteq Trees[3 * Height(c)]
<1>1. Height(c) \in Nat /\ Height(c) <= MaxHeight /\ c \in Trees[Height(c)]
  BY Bounds, HeightIsLeast
<1>2. 3 * Height(c) \in Nat /\ 3 * Height(c) <= 3 * MaxHeight
  BY <1>1, Bounds
<1> QED BY <1>1, <1>2, Bounds, TreesGrow, Constructors

LEMMA LevelUp ==
  ASSUME NEW h \in Nat, h # 0
  PROVE  /\ h - 1 \in Nat
         /\ Trees[h - 1] \subseteq Trees[h]
         /\ \A c \in Trees[h - 1] : Not(c) \in Trees[h]
         /\ \A op \in Groups, kids \in Seq(Trees[h - 1]) :
              kids # <<>> => Group(op, kids) \in Trees[h]
<1>1. h - 1 \in Nat /\ (h - 1) + 1 = h /\ h - 1 <= h
  BY Predecessor
<1> QED BY <1>1, TreesGrow, Constructors

LEMMA CanonicalStays ==
  ASSUME NEW h \in Nat, NEW c \in Trees[h]
  PROVE  canonical(c) \in Trees[h]
<1>1. Leaves \subseteq Trees[h]
  BY Constructors
<1>2. \A b \in BOOLEAN : Const(b) \in Leaves
  BY DEF Const, Leaves
<1>3. CASE c.kind \in Groups
  <2>1. c.kids \in Seq(Trees[h]) /\ c.kids # <<>> /\ c.kind # "not"
    BY <1>3, KindsOfTrees DEF IsGroup, Groups
  <2>2. c.kids[1] \in Trees[h]
    BY <2>1
  <2> QED BY <1>3, <2>1, <2>2 DEF canonical
<1>4. CASE c.kind \notin Groups
  BY <1>1, <1>2, <1>4 DEF canonical
<1> QED BY <1>3, <1>4

LEMMA LowerStays ==
  ASSUME NEW c \in Condition, NEW f,
         \A d \in Condition : Height(d) < Height(c) => f[d] \in Trees[Height(d)]
  PROVE  canonical(rawCondition(f, c)) \in Trees[Height(c)]
<1> DEFINE h == Height(c)
<1>0. h \in Nat /\ Leaves \subseteq Trees[h] /\ c \in Trees[h]
  BY Levels
<1>1. \A d \in Parts(c) : h # 0 /\ f[d] \in Trees[h - 1]
  BY Bounds, PartsAreLower, OneLevelBelow
<1>2. CASE c.kind \in Groups
  <2> DEFINE kids == [i \in DOMAIN c.kids |-> f[c.kids[i]]]
  <2>1. kids \in Seq(Trees[h - 1]) /\ kids # <<>>
    BY <1>1, <1>2, Bounds, Replaced
  <2>2. h # 0
    BY <1>1, <1>2, Bounds, Replaced
  <2> HIDE DEF kids, h
  <2>3. Group(c.kind, kids) \in Trees[h]
    BY <1>0, <1>2, <2>1, <2>2, LevelUp
  <2>4. canonical(rawCondition(f, c)) = canonical(Group(c.kind, kids))
    BY <1>2 DEF rawCondition, kids, Groups
  <2> QED BY <1>0, <2>3, <2>4, CanonicalStays DEF h
<1>3. CASE c.kind = "not"
  <2>1. h # 0 /\ f[c.kid] \in Trees[h - 1]
    BY <1>1, <1>3 DEF Parts
  <2> HIDE DEF h
  <2>2. Not(f[c.kid]) \in Trees[h]
    BY <1>0, <2>1, LevelUp
  <2>3. canonical(rawCondition(f, c)) = canonical(Not(f[c.kid]))
    BY <1>3 DEF rawCondition, Groups
  <2> QED BY <1>0, <2>2, <2>3, CanonicalStays DEF h
<1>4. CASE c.kind = "cmp"
  <2>1. c.op \in Comparisons /\ c.lit \in Int /\ c.operands \in Operands
    BY <1>4, Bounds, KindsOfTrees, LeafKinds DEF Groups
  <2>2. Mirror(c.op) \in Comparisons
    BY <2>1 DEF Mirror, Comparisons
  <2>3. \A op \in Comparisons : Compare(op, c.lit, FALSE, c.operands) \in Leaves
    BY <2>1 DEF Compare, Leaves
  <2>4. PICK op \in Comparisons : rawCondition(f, c) = Compare(op, c.lit, FALSE, c.operands)
    <3>1. rawCondition(f, c) =
            Compare(IF c.flipped THEN Mirror(c.op) ELSE c.op, c.lit, FALSE, c.operands)
      BY <1>4 DEF rawCondition, Groups
    <3> QED BY <2>1, <2>2, <3>1
  <2> HIDE DEF h
  <2> QED BY <1>0, <2>3, <2>4, CanonicalStays DEF h
<1>5. CASE c.kind \notin Groups \cup {"not", "cmp"}
  <2>1. canonical(rawCondition(f, c)) = canonical(c)
    BY <1>5 DEF rawCondition
  <2> HIDE DEF h
  <2> QED BY <1>0, <2>1, CanonicalStays DEF h
<1> QED BY <1>2, <1>3, <1>4, <1>5

LEMMA LowerLocal ==
  ASSUME NEW c \in Condition, NEW f, NEW g,
         \A d \in Condition : Height(d) < Height(c) => f[d] = g[d]
  PROVE  canonical(rawCondition(f, c)) = canonical(rawCondition(g, c))
<1>1. \A d \in Parts(c) : f[d] = g[d]
  BY Bounds, PartsAreLower
<1>2. c.kind = "not" => f[c.kid] = g[c.kid]
  BY <1>1 DEF Parts
<1>3. c.kind \in Groups =>
        [i \in DOMAIN c.kids |-> f[c.kids[i]]] = [i \in DOMAIN c.kids |-> g[c.kids[i]]]
  BY <1>1 DEF Parts, Groups
<1> QED BY <1>2, <1>3 DEF rawCondition, Groups

LEMMA LowerUnfolds ==
  \A c \in Condition : lower[c] = canonical(rawCondition(lower, c)) /\ lower[c] \in Trees[Height(c)]
<1> DEFINE T == [c \in Condition |-> Trees[Height(c)]]
           G == [p \in Condition \X Typed(Condition, T) |-> canonical(rawCondition(p[2], p[1]))]
<1>1. \A c \in Condition : \A f \in Typed(Condition, T) : G[<<c, f>>] = canonical(rawCondition(f, c))
  OBVIOUS
<1>2. \A f \in Typed(Condition, T) : \A c \in Condition : f[c] \in Trees[Height(c)]
  BY DEF Typed
<1>3. \A c \in Condition : T[c] = Trees[Height(c)] /\ T[c] # {}
  <2> TAKE c \in Condition
  <2>1. Height(c) \in Nat /\ 3 * Height(c) \in Nat
    BY Bounds, HeightIsLeast
  <2>2. Const(TRUE) \in Trees[Height(c)]
    BY <2>1, Constructors DEF Leaves, Const
  <2> QED BY <2>2
<1> HIDE DEF T, G
<1>4. StaysIn(Condition, T, G)
  BY <1>1, <1>2, <1>3, LowerStays DEF StaysIn
<1>5. TreesBelow(Condition, T, G)
  <2>1. SUFFICES ASSUME NEW c \in Condition,
                        NEW f \in Typed(Condition, T), NEW g \in Typed(Condition, T),
                        \A d \in Condition : Height(d) < Height(c) => f[d] = g[d]
                 PROVE  canonical(rawCondition(f, c)) = canonical(rawCondition(g, c))
    BY <1>1 DEF TreesBelow
  <2> QED BY <1>2, <2>1, LowerLocal
<1>6. PICK f \in Typed(Condition, T) : Solution(Condition, G, f)
  BY <1>3, <1>4, <1>5, Bounds, TreeRecursion, Zenon
<1>7. f = [c \in Condition |-> canonical(rawCondition(f, c))]
  BY <1>1, <1>6 DEF Solution, Typed
<1>8. lower = [c \in Condition |-> canonical(rawCondition(lower, c))]
  BY <1>7, Zenon DEF lower
<1> DEFINE P == {c \in Condition : lower[c] \in Trees[Height(c)]}
<1>9. ASSUME NEW c \in Condition, \A d \in Condition : Height(d) < Height(c) => d \in P
      PROVE  c \in P
  BY <1>8, <1>9, LowerStays
<1> HIDE DEF P
<1>10. Condition \subseteq P
  BY <1>9, Bounds, TreeInduction, Zenon
<1> QED BY <1>8, <1>10 DEF P

(* Taking one element out of a sequence.                                   *)
LEMMA Removing ==
  ASSUME NEW S, NEW s \in Seq(S), NEW i \in DOMAIN s
  PROVE  /\ RemoveAt(s, i) \in Seq(S)
         /\ Len(RemoveAt(s, i)) = Len(s) - 1 /\ Len(s) - 1 \in Nat
         /\ DOMAIN RemoveAt(s, i) = 1 .. Len(s) - 1
         /\ \A j \in 1 .. Len(s) - 1 : RemoveAt(s, i)[j] = s[IF j < i THEN j ELSE j + 1]
<1> DEFINE n == Len(s)
           a == SubSeq(s, 1, i - 1)
           b == SubSeq(s, i + 1, n)
<1>1. n \in Nat /\ i \in 1 .. n /\ DOMAIN s = 1 .. n /\ \A j \in 1 .. n : s[j] \in S
  OBVIOUS
<1>2. a \in Seq(S) /\ Len(a) = i - 1 /\ \A j \in 1 .. i - 1 : a[j] = s[j]
  <2>1. 1 \in Int /\ i - 1 \in Int /\ \A j \in 1 .. i - 1 : s[j] \in S
    BY <1>1
  <2>2. /\ a \in Seq(S)
        /\ Len(a) = IF 1 <= i - 1 THEN (i - 1) - 1 + 1 ELSE 0
        /\ \A j \in 1 .. (i - 1) - 1 + 1 : a[j] = s[1 + j - 1]
    BY <2>1, SubSeqProperties
  <2> HIDE DEF a
  <2> QED BY <1>1, <2>2
<1>3. b \in Seq(S) /\ Len(b) = n - i /\ \A j \in 1 .. n - i : b[j] = s[i + j]
  <2>1. i + 1 \in Int /\ n \in Int /\ \A j \in i + 1 .. n : s[j] \in S
    BY <1>1
  <2>2. /\ b \in Seq(S)
        /\ Len(b) = IF i + 1 <= n THEN n - (i + 1) + 1 ELSE 0
        /\ \A j \in 1 .. n - (i + 1) + 1 : b[j] = s[(i + 1) + j - 1]
    BY <2>1, SubSeqProperties
  <2> HIDE DEF b, n
  <2>3. ASSUME NEW j \in 1 .. n - i PROVE b[j] = s[i + j]
    <3>1. j \in 1 .. n - (i + 1) + 1 /\ (i + 1) + j - 1 = i + j
      BY <1>1
    <3> QED BY <2>2, <3>1
  <2>4. Len(b) = n - i
    BY <1>1, <2>2
  <2> QED BY <2>2, <2>3, <2>4
<1> HIDE DEF a, b, n
<1>4. /\ a \o b \in Seq(S)
      /\ Len(a \o b) = n - 1
      /\ \A j \in 1 .. n - 1 : (a \o b)[j] = IF j <= i - 1 THEN a[j] ELSE b[j - (i - 1)]
  <2>1. /\ a \o b \in Seq(S)
        /\ Len(a \o b) = Len(a) + Len(b)
        /\ \A j \in 1 .. Len(a) + Len(b) :
             (a \o b)[j] = IF j <= Len(a) THEN a[j] ELSE b[j - Len(a)]
    BY <1>2, <1>3, ConcatProperties
  <2>2. Len(a) + Len(b) = n - 1
    BY <1>1, <1>2, <1>3
  <2> QED BY <1>2, <2>1, <2>2
<1>5. RemoveAt(s, i) = a \o b
  BY DEF RemoveAt, a, b, n
<1>6. ASSUME NEW j \in 1 .. n - 1
      PROVE  (a \o b)[j] = s[IF j < i THEN j ELSE j + 1]
  <2>1. CASE j < i
    BY <1>1, <1>2, <1>4, <2>1
  <2>2. CASE ~ (j < i)
    <3>1. j - (i - 1) \in 1 .. n - i /\ i + (j - (i - 1)) = j + 1 /\ ~ (j <= i - 1)
      BY <1>1, <2>2
    <3>2. b[j - (i - 1)] = s[j + 1]
      BY <1>3, <3>1
    <3>3. (a \o b)[j] = b[j - (i - 1)]
      BY <1>4, <3>1
    <3> QED BY <2>2, <3>2, <3>3
  <2> QED BY <2>1, <2>2
<1>7. DOMAIN (a \o b) = 1 .. n - 1 /\ n - 1 \in Nat
  BY <1>1, <1>4
<1> QED BY <1>4, <1>5, <1>6, <1>7 DEF n

(* One clause of exactly one.                                              *)
Clause(kids, i) ==
  LET others == RemoveAt(kids, i)
  IN Group("all", <<kids[i]>> \o [j \in DOMAIN others |-> Not(others[j])])

LEMMA ClauseOf ==
  ASSUME NEW n \in Nat, NEW kids \in Seq(Trees[n]), NEW i \in DOMAIN kids
  PROVE  /\ Clause(kids, i) \in Trees[n + 2]
         /\ Clause(kids, i).kind = "all"
         /\ Clause(kids, i).kids \in Seq(Trees[n + 1])
         /\ Clause(kids, i).kids # <<>>
         /\ Range(Clause(kids, i).kids)
              = {kids[i]} \cup {Not(kids[j]) : j \in DOMAIN kids \ {i}}
<1> DEFINE others == RemoveAt(kids, i)
           negs == [j \in DOMAIN others |-> Not(others[j])]
           m == Len(kids)
<1>1. /\ others \in Seq(Trees[n]) /\ m - 1 \in Nat /\ DOMAIN others = 1 .. m - 1
      /\ Len(others) = m - 1
      /\ \A j \in 1 .. m - 1 : others[j] = kids[IF j < i THEN j ELSE j + 1]
  BY Removing
<1>2. m \in Nat /\ DOMAIN kids = 1 .. m /\ i \in 1 .. m /\ \A j \in 1 .. m : kids[j] \in Trees[n]
  OBVIOUS
<1> HIDE DEF others, m
<1>3. n + 1 \in Nat /\ n <= n + 1 /\ (n + 1) + 1 = n + 2
  OBVIOUS
<1>4. Trees[n] \subseteq Trees[n + 1] /\ \A c \in Trees[n] : Not(c) \in Trees[n + 1]
  BY <1>3, TreesGrow, Constructors
<1>5. negs \in Seq(Trees[n + 1])
  <2>1. \A j \in 1 .. m - 1 : others[j] \in Trees[n]
    BY <1>1
  <2>2. \A j \in 1 .. m - 1 : Not(others[j]) \in Trees[n + 1]
    BY <1>4, <2>1
  <2>3. negs \in [1 .. m - 1 -> Trees[n + 1]]
    BY <1>1, <2>2
  <2> HIDE DEF negs
  <2>4. [1 .. m - 1 -> Trees[n + 1]] \in {[1 .. k -> Trees[n + 1]] : k \in Nat}
    BY <1>1
  <2>5. negs \in UNION {[1 .. k -> Trees[n + 1]] : k \in Nat}
    BY <2>3, <2>4
  <2> QED BY <2>5, SeqDef, Zenon
<1>6. <<kids[i]>> \in Seq(Trees[n + 1]) /\ Range(<<kids[i]>>) = {kids[i]}
  <2>1. kids[i] \in Trees[n + 1]
    BY <1>2, <1>4
  <2>2. DOMAIN <<kids[i]>> = {1} /\ <<kids[i]>>[1] = kids[i]
    OBVIOUS
  <2>3. <<kids[i]>> \in Seq(Trees[n + 1])
    BY <2>1, SingletonSeq
  <2>4. Range(<<kids[i]>>) = {kids[i]}
    BY <2>2 DEF Range
  <2> QED BY <2>3, <2>4
<1>7. Range(negs) = {Not(kids[j]) : j \in DOMAIN kids \ {i}}
  <2>1. Range(negs) = {Not(others[j]) : j \in 1 .. m - 1}
    BY <1>1 DEF Range
  <2>2. ASSUME NEW j \in 1 .. m - 1
        PROVE  \E k \in DOMAIN kids \ {i} : others[j] = kids[k]
    <3>1. (IF j < i THEN j ELSE j + 1) \in (1 .. m) \ {i}
      BY <1>1, <1>2
    <3> QED BY <1>1, <1>2, <3>1
  <2>3. ASSUME NEW k \in DOMAIN kids \ {i}
        PROVE  \E j \in 1 .. m - 1 : others[j] = kids[k]
    <3>1. CASE k < i
      <4>1. k \in 1 .. m - 1
        BY <1>1, <1>2, <3>1
      <4> QED BY <1>1, <3>1, <4>1
    <3>2. CASE ~ (k < i)
      <4>1. k - 1 \in 1 .. m - 1 /\ ~ (k - 1 < i) /\ (k - 1) + 1 = k
        BY <1>1, <1>2, <3>2
      <4> QED BY <1>1, <4>1
    <3> QED BY <3>1, <3>2
  <2> QED BY <2>1, <2>2, <2>3
<1> HIDE DEF negs
<1>8. <<kids[i]>> \o negs \in Seq(Trees[n + 1])
      /\ Range(<<kids[i]>> \o negs) = Range(<<kids[i]>>) \cup Range(negs)
  BY <1>5, <1>6, RangeOfConcat
<1>9. <<kids[i]>> \o negs # <<>>
  <2>1. kids[i] \in Range(<<kids[i]>> \o negs)
    BY <1>6, <1>8
  <2>2. Range(<<>>) = {}
    BY DEF Range
  <2> QED BY <2>1, <2>2
<1> DEFINE all == <<kids[i]>> \o negs
<1>10. Clause(kids, i) = Group("all", all)
  BY DEF Clause, others, negs
<1>11. Group("all", <<kids[i]>> \o negs) \in Trees[n + 2]
  BY <1>3, <1>8, <1>9, Constructors DEF Groups
<1>12. /\ all \in Seq(Trees[n + 1]) /\ all # <<>> /\ Group("all", all) \in Trees[n + 2]
       /\ Range(all) = {kids[i]} \cup {Not(kids[j]) : j \in DOMAIN kids \ {i}}
  BY <1>6, <1>7, <1>8, <1>9, <1>11
<1> HIDE DEF all
<1>13. Group("all", all).kind = "all" /\ Group("all", all).kids = all
  BY DEF Group
<1> QED BY <1>10, <1>12, <1>13

LEMMA ExactlyOneOf ==
  ASSUME NEW n \in Nat, NEW kids \in Seq(Trees[n]), kids # <<>>
  PROVE  /\ ExactlyOne(kids) = Group("any", [i \in DOMAIN kids |-> Clause(kids, i)])
         /\ [i \in DOMAIN kids |-> Clause(kids, i)] \in Seq(Trees[n + 2])
         /\ ExactlyOne(kids) \in Trees[n + 3]
<1> DEFINE clauses == [i \in DOMAIN kids |-> Clause(kids, i)]
<1>1. ExactlyOne(kids) = Group("any", clauses)
  BY DEF ExactlyOne, Clause
<1>2. clauses \in Seq(Trees[n + 2]) /\ clauses # <<>>
  <2>1. Len(kids) \in Nat /\ DOMAIN kids = 1 .. Len(kids) /\ Len(kids) # 0
    OBVIOUS
  <2>2. \A i \in 1 .. Len(kids) : Clause(kids, i) \in Trees[n + 2]
    BY <2>1, ClauseOf
  <2> QED BY <2>1, <2>2
<1> HIDE DEF clauses
<1>3. n + 2 \in Nat /\ (n + 2) + 1 = n + 3
  OBVIOUS
<1>4. Group("any", clauses) \in Trees[n + 3]
  BY <1>2, <1>3, Constructors DEF Groups
<1> QED BY <1>1, <1>2, <1>4 DEF clauses

CompiledBody(f, c) ==
  CASE c.kind \in {"all", "any"} -> Group(c.kind, [i \in DOMAIN c.kids |-> f[c.kids[i]]])
    [] c.kind = "one" -> ExactlyOne([i \in DOMAIN c.kids |-> f[c.kids[i]]])
    [] c.kind = "not" -> Not(f[c.kid])
    [] OTHER -> c

LEMMA CompiledStays ==
  ASSUME NEW c \in Condition, NEW f,
         \A d \in Condition : Height(d) < Height(c) => f[d] \in Trees[3 * Height(d)]
  PROVE  CompiledBody(f, c) \in Trees[3 * Height(c)]
<1> DEFINE h == Height(c)
           n == 3 * (h - 1)
<1>0. h \in Nat /\ 3 * h \in Nat /\ Leaves \subseteq Trees[3 * h] /\ c \in Trees[h]
  BY Levels
<1>1. \A d \in Parts(c) : h # 0 /\ f[d] \in Trees[n]
  BY Bounds, PartsAreLower, OneLevelBelow
<1> HIDE DEF h, n
<1>2. ASSUME h # 0
      PROVE  /\ n \in Nat /\ n + 1 \in Nat /\ n + 3 = 3 * h
             /\ n <= n + 3 /\ n + 1 <= n + 3 /\ n + 3 \in Nat
  BY <1>0, <1>2 DEF n
<1>3. ASSUME h # 0 PROVE Trees[n + 1] \subseteq Trees[3 * h]
  BY <1>2, <1>3, TreesGrow
<1>4. CASE c.kind \in Groups
  <2> DEFINE kids == [i \in DOMAIN c.kids |-> f[c.kids[i]]]
  <2>1. kids \in Seq(Trees[n]) /\ kids # <<>>
    BY <1>1, <1>4, Bounds, Replaced
  <2>2. h # 0
    BY <1>1, <1>4, Bounds, Replaced
  <2> HIDE DEF kids
  <2>3. Group(c.kind, kids) \in Trees[3 * h] /\ ExactlyOne(kids) \in Trees[3 * h]
    BY <1>2, <1>3, <1>4, <2>1, <2>2, Constructors, ExactlyOneOf
  <2>4. CompiledBody(f, c) = Group(c.kind, kids) \/ CompiledBody(f, c) = ExactlyOne(kids)
    BY <1>4 DEF CompiledBody, kids, Groups
  <2> QED BY <2>3, <2>4 DEF h
<1>5. CASE c.kind = "not"
  <2>1. h # 0 /\ f[c.kid] \in Trees[n]
    BY <1>1, <1>5 DEF Parts
  <2>2. Not(f[c.kid]) \in Trees[3 * h]
    BY <1>2, <1>3, <2>1, Constructors
  <2> QED BY <1>5, <2>2 DEF CompiledBody, h
<1>6. CASE c.kind \notin Groups \cup {"not"}
  <2>1. c \in Leaves
    BY <1>6, Bounds, KindsOfTrees DEF Groups
  <2> QED BY <1>0, <1>6, <2>1 DEF CompiledBody, Groups, h
<1> QED BY <1>4, <1>5, <1>6

LEMMA CompiledLocal ==
  ASSUME NEW c \in Condition, NEW f, NEW g,
         \A d \in Condition : Height(d) < Height(c) => f[d] = g[d]
  PROVE  CompiledBody(f, c) = CompiledBody(g, c)
<1>1. \A d \in Parts(c) : f[d] = g[d]
  BY Bounds, PartsAreLower
<1>2. c.kind = "not" => f[c.kid] = g[c.kid]
  BY <1>1 DEF Parts
<1>3. c.kind \in Groups =>
        [i \in DOMAIN c.kids |-> f[c.kids[i]]] = [i \in DOMAIN c.kids |-> g[c.kids[i]]]
  BY <1>1 DEF Parts, Groups
<1> QED BY <1>2, <1>3 DEF CompiledBody, Groups

LEMMA CompiledUnfolds ==
  \A c \in Condition : Compiled[c] = CompiledBody(Compiled, c) /\ Compiled[c] \in Trees[3 * Height(c)]
<1> DEFINE T == [c \in Condition |-> Trees[3 * Height(c)]]
           G == [p \in Condition \X Typed(Condition, T) |-> CompiledBody(p[2], p[1])]
<1>1. \A c \in Condition : \A f \in Typed(Condition, T) : G[<<c, f>>] = CompiledBody(f, c)
  OBVIOUS
<1>2. \A f \in Typed(Condition, T) : \A c \in Condition : f[c] \in Trees[3 * Height(c)]
  BY DEF Typed
<1>3. \A c \in Condition : T[c] = Trees[3 * Height(c)] /\ T[c] # {}
  <2> TAKE c \in Condition
  <2>1. Height(c) \in Nat /\ 3 * Height(c) \in Nat
    BY Bounds, HeightIsLeast
  <2>2. Const(TRUE) \in Trees[3 * Height(c)]
    BY <2>1, Constructors DEF Leaves, Const
  <2> QED BY <2>2
<1> HIDE DEF T, G
<1>4. StaysIn(Condition, T, G)
  BY <1>1, <1>2, <1>3, CompiledStays DEF StaysIn
<1>5. TreesBelow(Condition, T, G)
  <2>1. SUFFICES ASSUME NEW c \in Condition,
                        NEW f \in Typed(Condition, T), NEW g \in Typed(Condition, T),
                        \A d \in Condition : Height(d) < Height(c) => f[d] = g[d]
                 PROVE  CompiledBody(f, c) = CompiledBody(g, c)
    BY <1>1 DEF TreesBelow
  <2> QED BY <1>2, <2>1, CompiledLocal
<1>6. PICK f \in Typed(Condition, T) : Solution(Condition, G, f)
  BY <1>3, <1>4, <1>5, Bounds, TreeRecursion, Zenon
<1>7. f = [c \in Condition |-> CompiledBody(f, c)]
  BY <1>1, <1>6 DEF Solution, Typed
<1>8. Compiled = [c \in Condition |-> CompiledBody(Compiled, c)]
  BY <1>7, Zenon DEF Compiled, CompiledBody
<1> DEFINE P == {c \in Condition : Compiled[c] \in Trees[3 * Height(c)]}
<1>9. ASSUME NEW c \in Condition, \A d \in Condition : Height(d) < Height(c) => d \in P
      PROVE  c \in P
  BY <1>8, <1>9, CompiledStays
<1> HIDE DEF P
<1>10. Condition \subseteq P
  BY <1>9, Bounds, TreeInduction, Zenon
<1> QED BY <1>8, <1>10 DEF P

(* What simplifying a group leaves, given the levels of its children.      *)
LEMMA EmptySeqIn ==
  ASSUME NEW S
  PROVE  <<>> \in Seq(S)
OBVIOUS

LEMMA MoreThanOne ==
  \A k \in Nat \ {0} : k # 1 => k > 1 /\ k >= 2
OBVIOUS

LEMMA FlattenedStays ==
  ASSUME NEW n \in Nat, NEW op \in {"all", "any"}, NEW s \in Trees[n]
  PROVE  Flattened(op, s) \in Seq(Trees[n])
<1>1. s.kind = op => s.kids \in Seq(Trees[n])
  BY KindsOfTrees, LeafKinds DEF IsGroup
<1>2. <<>> \in Seq(Trees[n]) /\ <<s>> \in Seq(Trees[n])
  BY EmptySeqIn, SingletonSeq
<1>3. \/ Flattened(op, s) = <<>>
      \/ s.kind = op /\ Flattened(op, s) = s.kids
      \/ Flattened(op, s) = <<s>>
  BY Zenon DEF Flattened
<1> QED BY <1>1, <1>2, <1>3

Flat(op, kids) == FlattenSeq([i \in DOMAIN kids |-> Flattened(op, kids[i])])
InFlat(op, kids) == UNION {Range(Flattened(op, kids[i])) : i \in DOMAIN kids}

LEMMA FlatOf ==
  ASSUME NEW n \in Nat, NEW op \in {"all", "any"}, NEW kids \in Seq(Trees[n])
  PROVE  Flat(op, kids) \in Seq(Trees[n]) /\ Range(Flat(op, kids)) = InFlat(op, kids)
<1> DEFINE parts == [i \in DOMAIN kids |-> Flattened(op, kids[i])]
<1>1. Len(kids) \in Nat /\ DOMAIN kids = 1 .. Len(kids) /\ \A i \in DOMAIN kids : kids[i] \in Trees[n]
  OBVIOUS
<1>2. \A i \in DOMAIN kids : Flattened(op, kids[i]) \in Seq(Trees[n])
  BY <1>1, FlattenedStays
<1>3. parts \in Seq(Seq(Trees[n])) /\ DOMAIN parts = DOMAIN kids
  BY <1>1, <1>2
<1>4. \A i \in DOMAIN kids : parts[i] = Flattened(op, kids[i])
  OBVIOUS
<1> HIDE DEF parts
<1>5. /\ FlattenSeq(parts) \in Seq(Trees[n])
      /\ Range(FlattenSeq(parts)) = UNION {Range(parts[i]) : i \in DOMAIN parts}
  BY <1>3, Flattening
<1>6. {Range(parts[i]) : i \in DOMAIN parts} = {Range(Flattened(op, kids[i])) : i \in DOMAIN kids}
  BY <1>3, <1>4
<1> QED BY <1>5, <1>6, Zenon DEF parts, Flat, InFlat

(* The four outcomes of an all or any.                                     *)
LEMMA CombinedIs ==
  ASSUME NEW n \in Nat, NEW op \in {"all", "any"}, NEW kids \in Seq(Trees[n])
  PROVE  LET flat == Flat(op, kids)
         IN \/ /\ \E i \in DOMAIN kids : IsConst(kids[i], op = "any")
               /\ Combined(op, kids) = Const(op = "any")
            \/ /\ \A i \in DOMAIN kids : ~ IsConst(kids[i], op = "any")
               /\ \/ flat = <<>> /\ Combined(op, kids) = Const(op = "all")
                  \/ Len(flat) = 1 /\ flat # <<>> /\ Combined(op, kids) = flat[1]
                  \/ Len(flat) > 1 /\ flat # <<>> /\ Combined(op, kids) = Group(op, flat)
<1> DEFINE flat == Flat(op, kids)
<1>1. flat \in Seq(Trees[n])
  BY FlatOf
<1>2. Combined(op, kids) =
        IF \E i \in DOMAIN kids : IsConst(kids[i], op = "any") THEN Const(op = "any")
        ELSE IF flat = <<>> THEN Const(op = "all")
        ELSE IF Len(flat) = 1 THEN flat[1]
        ELSE Group(op, flat)
  BY Zenon DEF Combined, Flat
<1> HIDE DEF flat
<1>3. flat # <<>> => Len(flat) \in Nat \ {0}
  BY <1>1
<1>4. CASE \E i \in DOMAIN kids : IsConst(kids[i], op = "any")
  <2>1. Combined(op, kids) = Const(op = "any")
    BY <1>2, <1>4, Zenon
  <2> QED BY <1>4, <2>1, Zenon
<1>5. CASE ~ \E i \in DOMAIN kids : IsConst(kids[i], op = "any")
  <2>1. Combined(op, kids) = IF flat = <<>> THEN Const(op = "all")
                             ELSE IF Len(flat) = 1 THEN flat[1] ELSE Group(op, flat)
    BY <1>2, <1>5, Zenon
  <2>2. \/ flat = <<>> /\ Combined(op, kids) = Const(op = "all")
        \/ Len(flat) = 1 /\ flat # <<>> /\ Combined(op, kids) = flat[1]
        \/ Len(flat) # 1 /\ flat # <<>> /\ Combined(op, kids) = Group(op, flat)
    BY <2>1, Zenon
  <2>3. Len(flat) # 1 /\ flat # <<>> => Len(flat) > 1
    BY <1>3, MoreThanOne
  <2>4. \A i \in DOMAIN kids : ~ IsConst(kids[i], op = "any")
    BY <1>5, Zenon
  <2> QED BY <2>2, <2>3, <2>4, Zenon DEF flat
<1> QED BY <1>4, <1>5, Zenon

LEMMA FirstOf ==
  ASSUME NEW S, NEW s \in Seq(S), Len(s) = 1
  PROVE  s[1] \in S
OBVIOUS

LEMMA CombinedStays ==
  ASSUME NEW h \in Nat, h # 0, NEW op \in {"all", "any"}, NEW kids \in Seq(Trees[h - 1])
  PROVE  Combined(op, kids) \in Trees[h]
<1> DEFINE flat == Flat(op, kids)
<1>0. h - 1 \in Nat
  OBVIOUS
<1>1. flat \in Seq(Trees[h - 1])
  BY <1>0, FlatOf
<1>2. \A b \in BOOLEAN : Const(b) \in Trees[h]
  BY Constructors DEF Leaves, Const
<1>3. \/ \E b \in BOOLEAN : Combined(op, kids) = Const(b)
      \/ Len(flat) = 1 /\ Combined(op, kids) = flat[1]
      \/ flat # <<>> /\ Combined(op, kids) = Group(op, flat)
  BY <1>0, CombinedIs
<1> HIDE DEF flat
<1>4. Len(flat) = 1 => flat[1] \in Trees[h - 1]
  BY <1>1, FirstOf, Zenon
<1>5. op \in Groups
  BY DEF Groups
<1> QED BY <1>1, <1>2, <1>3, <1>4, <1>5, LevelUp

SimplifyBody(f, c) ==
  CASE c.kind \in {"all", "any"} -> Combined(c.kind, [i \in DOMAIN c.kids |-> f[c.kids[i]]])
    [] c.kind = "not" ->
         LET child == f[c.kid]
         IN IF child.kind = "const" THEN Const(~ child.value)
            ELSE IF child.kind = "not" THEN f[child.kid]
            ELSE Not(child)
    [] OTHER -> c

(* The child of a simplified negation is lower than the negation.          *)
LEMMA UnderNegation ==
  ASSUME NEW c \in Condition, c.kind = "not", NEW child \in Trees[Height(c.kid)]
  PROVE  /\ Height(c) # 0 /\ child \in Trees[Height(c) - 1]
         /\ c.kid \in Condition /\ Height(c.kid) < Height(c)
         /\ child.kind = "not" => /\ child.kid \in Condition
                                  /\ Height(child.kid) < Height(c)
                                  /\ Trees[Height(child.kid)] \subseteq Trees[Height(c)]
<1>1. c.kid \in Parts(c)
  BY DEF Parts
<1>2. /\ c.kid \in Condition /\ Height(c.kid) \in Nat /\ Height(c) \in Nat /\ Height(c.kid) < Height(c)
      /\ Height(c) # 0 /\ Trees[Height(c.kid)] \subseteq Trees[Height(c) - 1]
  BY <1>1, Bounds, PartsAreLower, OneLevelBelow
<1>3. child \in Condition /\ Height(child) \in Nat /\ Height(child) <= Height(c.kid)
  BY <1>2, Levels, HeightIsLeast
<1>4. ASSUME child.kind = "not"
      PROVE  /\ child.kid \in Condition
             /\ Height(child.kid) < Height(c)
             /\ Trees[Height(child.kid)] \subseteq Trees[Height(c)]
  <2>1. child.kid \in Parts(child)
    BY <1>4 DEF Parts
  <2>2. child.kid \in Condition /\ Height(child.kid) \in Nat /\ Height(child.kid) < Height(child)
    BY <1>3, <2>1, Bounds, PartsAreLower
  <2>3. Height(child.kid) < Height(c) /\ Height(child.kid) <= Height(c)
    BY <1>2, <1>3, <2>2
  <2> QED BY <1>2, <2>2, <2>3, TreesGrow
<1> QED BY <1>2, <1>4

LEMMA SimplifyStays ==
  ASSUME NEW c \in Condition, NEW f,
         \A d \in Condition : Height(d) < Height(c) => f[d] \in Trees[Height(d)]
  PROVE  SimplifyBody(f, c) \in Trees[Height(c)]
<1> DEFINE h == Height(c)
<1>0. h \in Nat /\ c \in Trees[h]
  BY Levels
<1>1. \A d \in Parts(c) : h # 0 /\ f[d] \in Trees[h - 1]
  BY Bounds, PartsAreLower, OneLevelBelow
<1>2. CASE c.kind \in {"all", "any"}
  <2> DEFINE kids == [i \in DOMAIN c.kids |-> f[c.kids[i]]]
  <2>0. c.kind \in Groups
    BY <1>2 DEF Groups
  <2>1. kids \in Seq(Trees[h - 1])
    BY <1>1, <2>0, Bounds, Replaced
  <2>2. h # 0
    BY <1>1, <2>0, Bounds, Replaced
  <2> HIDE DEF kids, h
  <2>3. Combined(c.kind, kids) \in Trees[h]
    BY <1>0, <1>2, <2>1, <2>2, CombinedStays
  <2>4. SimplifyBody(f, c) = Combined(c.kind, kids)
    BY <1>2 DEF SimplifyBody, kids
  <2> QED BY <2>3, <2>4 DEF h
<1>3. CASE c.kind = "not"
  <2> DEFINE child == f[c.kid]
  <2>1. c.kid \in Condition /\ Height(c.kid) < Height(c)
    BY <1>3, Bounds, PartsAreLower DEF Parts
  <2>2. child \in Trees[Height(c.kid)]
    BY <2>1
  <2>3. SimplifyBody(f, c) = IF child.kind = "const" THEN Const(~ child.value)
                             ELSE IF child.kind = "not" THEN f[child.kid] ELSE Not(child)
    BY <1>3 DEF SimplifyBody
  <2>4. /\ h # 0 /\ child \in Trees[h - 1]
        /\ child.kind = "not" => f[child.kid] \in Trees[h]
    <3> HIDE DEF child
    <3>1. /\ Height(c) # 0 /\ child \in Trees[Height(c) - 1]
          /\ child.kind = "not" => /\ child.kid \in Condition
                                   /\ Height(child.kid) < Height(c)
                                   /\ Trees[Height(child.kid)] \subseteq Trees[Height(c)]
      BY <1>3, <2>2, UnderNegation
    <3> QED BY <3>1
  <2> HIDE DEF child, h
  <2>5. Not(child) \in Trees[h] /\ Const(~ child.value) \in Trees[h]
    <3>1. Const(~ child.value) \in Leaves
      BY DEF Const, Leaves
    <3> QED BY <1>0, <2>4, <3>1, LevelUp, Constructors
  <2> QED BY <2>3, <2>4, <2>5 DEF h
<1>4. CASE c.kind \notin {"all", "any", "not"}
  BY <1>0, <1>4 DEF SimplifyBody
<1> QED BY <1>2, <1>3, <1>4

LEMMA SimplifyLocal ==
  ASSUME NEW c \in Condition, NEW f, NEW g,
         \A d \in Condition : Height(d) < Height(c) => f[d] \in Trees[Height(d)],
         \A d \in Condition : Height(d) < Height(c) => f[d] = g[d]
  PROVE  SimplifyBody(f, c) = SimplifyBody(g, c)
<1>1. \A d \in Parts(c) : f[d] = g[d]
  BY Bounds, PartsAreLower
<1>2. CASE c.kind \in {"all", "any"}
  <2>1. [i \in DOMAIN c.kids |-> f[c.kids[i]]] = [i \in DOMAIN c.kids |-> g[c.kids[i]]]
    BY <1>1, <1>2 DEF Parts, Groups
  <2> QED BY <1>2, <2>1 DEF SimplifyBody
<1>3. CASE c.kind = "not"
  <2>1. c.kid \in Condition /\ Height(c.kid) < Height(c) /\ f[c.kid] = g[c.kid]
    BY <1>1, <1>3, Bounds, PartsAreLower DEF Parts
  <2>2. f[c.kid].kind = "not" => f[f[c.kid].kid] = g[f[c.kid].kid]
    <3>1. f[c.kid] \in Trees[Height(c.kid)]
      BY <2>1
    <3>2. f[c.kid].kind = "not" => /\ f[c.kid].kid \in Condition
                                   /\ Height(f[c.kid].kid) < Height(c)
      BY <1>3, <3>1, UnderNegation
    <3> QED BY <3>2
  <2> QED BY <1>3, <2>1, <2>2 DEF SimplifyBody
<1>4. CASE c.kind \notin {"all", "any", "not"}
  BY <1>4 DEF SimplifyBody
<1> QED BY <1>2, <1>3, <1>4

LEMMA SimplifyUnfolds ==
  \A c \in Condition : simplify[c] = SimplifyBody(simplify, c) /\ simplify[c] \in Trees[Height(c)]
<1> DEFINE T == [c \in Condition |-> Trees[Height(c)]]
           G == [p \in Condition \X Typed(Condition, T) |-> SimplifyBody(p[2], p[1])]
<1>1. \A c \in Condition : \A f \in Typed(Condition, T) : G[<<c, f>>] = SimplifyBody(f, c)
  OBVIOUS
<1>2. \A f \in Typed(Condition, T) : \A c \in Condition : f[c] \in Trees[Height(c)]
  BY DEF Typed
<1>3. \A c \in Condition : T[c] = Trees[Height(c)] /\ T[c] # {}
  <2> TAKE c \in Condition
  <2>1. Height(c) \in Nat
    BY Bounds, HeightIsLeast
  <2>2. Const(TRUE) \in Trees[Height(c)]
    BY <2>1, Constructors DEF Leaves, Const
  <2> QED BY <2>2
<1> HIDE DEF T, G
<1>4. StaysIn(Condition, T, G)
  BY <1>1, <1>2, <1>3, SimplifyStays DEF StaysIn
<1>5. TreesBelow(Condition, T, G)
  <2>1. SUFFICES ASSUME NEW c \in Condition,
                        NEW f \in Typed(Condition, T), NEW g \in Typed(Condition, T),
                        \A d \in Condition : Height(d) < Height(c) => f[d] = g[d]
                 PROVE  SimplifyBody(f, c) = SimplifyBody(g, c)
    BY <1>1 DEF TreesBelow
  <2> QED BY <1>2, <2>1, SimplifyLocal
<1>6. PICK f \in Typed(Condition, T) : Solution(Condition, G, f)
  BY <1>3, <1>4, <1>5, Bounds, TreeRecursion, Zenon
<1>7. f = [c \in Condition |-> SimplifyBody(f, c)]
  BY <1>1, <1>6 DEF Solution, Typed
<1>8. simplify = [c \in Condition |-> SimplifyBody(simplify, c)]
  BY <1>7, Zenon DEF simplify, SimplifyBody
<1> DEFINE P == {c \in Condition : simplify[c] \in Trees[Height(c)]}
<1>9. ASSUME NEW c \in Condition, \A d \in Condition : Height(d) < Height(c) => d \in P
      PROVE  c \in P
  BY <1>8, <1>9, SimplifyStays
<1> HIDE DEF P
<1>10. Condition \subseteq P
  BY <1>9, Bounds, TreeInduction, Zenon
<1> QED BY <1>8, <1>10 DEF P

-----------------------------------------------------------------------------
(* What each stage does to a condition                                     *)

(* The parts of a condition are conditions, those of an expression         *)
(* expressions.                                                            *)
LEMMA Closed ==
  /\ \A c \in Condition : c.kind = "not" => c.kid \in Condition /\ Height(c.kid) < Height(c)
  /\ \A c \in Condition : c.kind \in Groups =>
       /\ c.kids \in Seq(Condition) /\ c.kids # <<>>
       /\ \A i \in DOMAIN c.kids : c.kids[i] \in Condition /\ Height(c.kids[i]) < Height(c)
  /\ \A c \in Expression : c.kind = "not" => c.kid \in Expression
  /\ \A c \in Expression : c.kind \in Groups =>
       /\ c.kids \in Seq(Expression) /\ c.kids # <<>>
       /\ \A i \in DOMAIN c.kids : c.kids[i] \in Expression
<1>1. ASSUME NEW n \in Nat, NEW c \in Trees[n]
      PROVE  /\ c.kind = "not" => c.kid \in Trees[n] /\ Height(c.kid) < Height(c)
             /\ c.kind \in Groups =>
                  /\ c.kids \in Seq(Trees[n]) /\ c.kids # <<>>
                  /\ \A i \in DOMAIN c.kids : c.kids[i] \in Trees[n] /\ Height(c.kids[i]) < Height(c)
  <2>1. \A d \in Parts(c) : d \in Trees[n] /\ Height(d) < Height(c)
    BY PartsAreLower
  <2>2. c.kind = "not" => c.kid \in Parts(c)
    BY DEF Parts
  <2>3. c.kind \in Groups => c.kids \in Seq(Trees[n]) /\ c.kids # <<>>
    BY KindsOfTrees DEF IsGroup, Groups
  <2>4. c.kind \in Groups => \A i \in DOMAIN c.kids : c.kids[i] \in Parts(c)
    BY DEF Parts, Groups
  <2> QED BY <2>1, <2>2, <2>3, <2>4
<1> QED BY <1>1, Bounds

(* Which children of a group have to hold.                                 *)
Matches(op, f, kids) ==
  IF op = "all" THEN \A i \in DOMAIN kids : f[kids[i]]
  ELSE IF op = "any" THEN \E i \in DOMAIN kids : f[kids[i]]
  ELSE \E i \in DOMAIN kids : \A j \in DOMAIN kids : f[kids[j]] <=> i = j

LEMMA MatchesAlike ==
  ASSUME NEW op \in Groups, NEW f, NEW kids, NEW g, NEW others, DOMAIN kids = DOMAIN others,
         \A i \in DOMAIN kids : f[kids[i]] = g[others[i]]
  PROVE  Matches(op, f, kids) <=> Matches(op, g, others)
<1>1. CASE op = "all"
  BY <1>1 DEF Matches
<1>2. CASE op = "any"
  BY <1>2 DEF Matches
<1>3. CASE op = "one"
  <2>1. \A i \in DOMAIN kids : (\A j \in DOMAIN kids : f[kids[j]] <=> i = j)
                                 <=> (\A j \in DOMAIN kids : g[others[j]] <=> i = j)
    OBVIOUS
  <2> QED BY <1>3, <2>1 DEF Matches
<1> QED BY <1>1, <1>2, <1>3 DEF Groups

(* Evaluating a group, in terms of what is in it.                          *)
LEMMA EvaluateGroups ==
  ASSUME NEW ctx \in Context, NEW c \in Expression, c.kind \in Groups
  PROVE  Evaluate(ctx)[c] <=> Matches(c.kind, Evaluate(ctx), c.kids)
<1> DEFINE f == Evaluate(ctx)
           matched == Quantify(DOMAIN c.kids, LAMBDA i : f[c.kids[i]])
<1>1. f[c] = EvaluateBody(f, ctx, c) /\ f[c] \in BOOLEAN
  BY EvaluateUnfolds
<1>2. c.kids \in Seq(Expression)
  BY Closed
<1> HIDE DEF f
<1>3. Counts(c.kids, f, Cardinality({i \in DOMAIN c.kids : f[c.kids[i]]}))
  BY <1>2, Counting, Zenon
<1>4. matched = Cardinality({i \in DOMAIN c.kids : f[c.kids[i]]})
  BY Zenon DEF Quantify
<1> HIDE DEF matched
<1>5. Counts(c.kids, f, matched)
  BY <1>3, <1>4, Zenon
<1>6. CASE c.kind = "all"
  <2>1. f[c] = (matched = Len(c.kids))
    BY <1>1, <1>6 DEF EvaluateBody, matched
  <2>2. Matches(c.kind, f, c.kids) <=> \A i \in DOMAIN c.kids : f[c.kids[i]]
    BY <1>6 DEF Matches
  <2> QED BY <1>5, <2>1, <2>2, Zenon DEF f, Counts
<1>7. CASE c.kind = "any"
  <2>1. f[c] = (matched > 0)
    BY <1>1, <1>7 DEF EvaluateBody, matched
  <2>2. Matches(c.kind, f, c.kids) <=> \E i \in DOMAIN c.kids : f[c.kids[i]]
    BY <1>7 DEF Matches
  <2> QED BY <1>5, <2>1, <2>2, Zenon DEF f, Counts
<1>8. CASE c.kind = "one"
  <2>1. f[c] = (matched = 1)
    BY <1>1, <1>8 DEF EvaluateBody, matched
  <2>2. Matches(c.kind, f, c.kids)
          <=> \E i \in DOMAIN c.kids : \A j \in DOMAIN c.kids : f[c.kids[j]] <=> i = j
    BY <1>8 DEF Matches
  <2> QED BY <1>5, <2>1, <2>2, Zenon DEF f, Counts
<1> QED BY <1>6, <1>7, <1>8 DEF Groups

LEMMA EvaluateOthers ==
  ASSUME NEW ctx \in Context, NEW c \in Expression
  PROVE  /\ c.kind = "not" => Evaluate(ctx)[c] = ~ Evaluate(ctx)[c.kid]
         /\ c.kind = "const" => Evaluate(ctx)[c] = c.value
         /\ c.kind = "opaque" => Evaluate(ctx)[c] = ctx.holds
         /\ c.kind = "cmp" => Evaluate(ctx)[c] = (ctx.numeric /\ CompareNumbers(ctx.x, c.op, c.lit))
<1>1. Evaluate(ctx)[c] = EvaluateBody(Evaluate(ctx), ctx, c)
  BY EvaluateUnfolds
<1> QED BY <1>1 DEF EvaluateBody

LEMMA MeaningCases ==
  ASSUME NEW ctx \in Context, NEW c \in Condition
  PROVE  /\ Meaning(ctx)[c] \in BOOLEAN
         /\ c.kind = "not" => Meaning(ctx)[c] = ~ Meaning(ctx)[c.kid]
         /\ c.kind = "const" => Meaning(ctx)[c] = c.value
         /\ c.kind \in Groups => (Meaning(ctx)[c] <=> Matches(c.kind, Meaning(ctx), c.kids))
         /\ c.kind \in {"opaque", "cmp"} => Meaning(ctx)[c] = LeafMeans(c, ctx)
<1> DEFINE f == Meaning(ctx)
<1>1. f[c] = MeaningBody(f, ctx, c) /\ f[c] \in BOOLEAN
  BY MeaningUnfolds
<1> HIDE DEF f
<1>2. ASSUME c.kind \in Groups
      PROVE  f[c] <=> Matches(c.kind, f, c.kids)
  <2>1. CASE c.kind = "all"
    BY <1>1, <2>1 DEF MeaningBody, Matches
  <2>2. CASE c.kind = "any"
    BY <1>1, <2>2 DEF MeaningBody, Matches
  <2>3. CASE c.kind = "one"
    <3> DEFINE X == \E i \in DOMAIN c.kids : \A j \in DOMAIN c.kids : f[c.kids[j]] <=> i = j
    <3>1. MeaningBody(f, ctx, c) = X
      BY <2>3 DEF MeaningBody
    <3>2. Matches(c.kind, f, c.kids) = X
      BY <2>3 DEF Matches
    <3> QED BY <1>1, <3>1, <3>2, Zenon
  <2> QED BY <1>2, <2>1, <2>2, <2>3 DEF Groups
<1>3. /\ c.kind = "not" => f[c] = ~ f[c.kid]
      /\ c.kind = "const" => f[c] = c.value
      /\ c.kind \in {"opaque", "cmp"} => f[c] = LeafMeans(c, ctx)
  BY <1>1 DEF MeaningBody, LeafMeans
<1> QED BY <1>1, <1>2, <1>3 DEF f

(* An all holds when all that is flattened into it does, an any when one.  *)
Holds(op, f, S) == IF op = "all" THEN \A x \in S : f[x] ELSE \E x \in S : f[x]

LEMMA FlattenedMeans ==
  ASSUME NEW ctx \in Context, NEW op \in {"all", "any"}, NEW s \in Condition
  PROVE  Holds(op, Meaning(ctx), Range(Flattened(op, s))) <=> Meaning(ctx)[s]
<1> DEFINE f == Meaning(ctx)
<1>1. CASE IsConst(s, op = "all")
  <2>1. Flattened(op, s) = <<>>
    BY <1>1, Zenon DEF Flattened
  <2>2. Range(<<>>) = {}
    BY DEF Range
  <2>3. f[s] = (op = "all")
    BY <1>1, MeaningCases DEF IsConst
  <2> QED BY <2>1, <2>2, <2>3 DEF Holds
<1>2. CASE ~ IsConst(s, op = "all") /\ s.kind = op
  <2>1. Flattened(op, s) = s.kids
    BY <1>2, Zenon DEF Flattened
  <2>2. Range(s.kids) = {s.kids[i] : i \in DOMAIN s.kids}
    BY DEF Range
  <2>3. f[s] <=> Matches(op, f, s.kids)
    BY <1>2, MeaningCases DEF Groups
  <2> HIDE DEF f
  <2> QED BY <1>2, <2>1, <2>2, <2>3 DEF Holds, Matches, f
<1>3. CASE ~ IsConst(s, op = "all") /\ s.kind # op
  <2>1. Flattened(op, s) = <<s>>
    BY <1>3, Zenon DEF Flattened
  <2>2. Range(<<s>>) = {s}
    BY DEF Range
  <2> QED BY <2>1, <2>2, MeaningCases DEF Holds
<1> QED BY <1>1, <1>2, <1>3, Zenon

LEMMA CombinedMeans ==
  ASSUME NEW ctx \in Context, NEW op \in {"all", "any"}, NEW kids \in Seq(Condition),
         Combined(op, kids) \in Condition
  PROVE  Meaning(ctx)[Combined(op, kids)] <=> Holds(op, Meaning(ctx), Range(kids))
<1> DEFINE f == Meaning(ctx)
           flat == Flat(op, kids)
           F(i) == Range(Flattened(op, kids[i]))
<1>0. \A i \in DOMAIN kids : kids[i] \in Condition
  OBVIOUS
<1>1. flat \in Seq(Condition) /\ Range(flat) = UNION {F(i) : i \in DOMAIN kids}
  <2>1. kids \in Seq(Trees[MaxHeight])
    BY Bounds, Zenon
  <2>2. flat \in Seq(Trees[MaxHeight]) /\ Range(flat) = InFlat(op, kids)
    BY <2>1, Bounds, FlatOf
  <2> QED BY <2>2, Bounds, Zenon DEF InFlat
<1>2. \A i \in DOMAIN kids : Holds(op, f, F(i)) <=> f[kids[i]]
  BY <1>0, FlattenedMeans
<1>3. \A b \in BOOLEAN : Const(b) \in Condition /\ f[Const(b)] = b
  <2> TAKE b \in BOOLEAN
  <2>1. Const(b) \in Condition
    BY Bounds, Constructors DEF Leaves, Const
  <2> QED BY <2>1, MeaningCases DEF Const
<1>4. \/ /\ \E i \in DOMAIN kids : IsConst(kids[i], op = "any")
         /\ Combined(op, kids) = Const(op = "any")
      \/ flat = <<>> /\ Combined(op, kids) = Const(op = "all")
      \/ Len(flat) = 1 /\ flat # <<>> /\ Combined(op, kids) = flat[1]
      \/ Len(flat) > 1 /\ flat # <<>> /\ Combined(op, kids) = Group(op, flat)
  BY Bounds, CombinedIs
<1>5. Range(kids) = {kids[i] : i \in DOMAIN kids}
  BY DEF Range
<1> HIDE DEF flat, F, f
<1>6. Holds(op, f, Range(flat)) <=> Holds(op, f, Range(kids))
  <2>1. CASE op = "all"
    BY <1>1, <1>2, <1>5, <2>1 DEF Holds
  <2>2. CASE op = "any"
    BY <1>1, <1>2, <1>5, <2>2 DEF Holds
  <2> QED BY <2>1, <2>2
<1>7. CASE /\ \E i \in DOMAIN kids : IsConst(kids[i], op = "any")
           /\ Combined(op, kids) = Const(op = "any")
  <2>1. PICK i \in DOMAIN kids : IsConst(kids[i], op = "any")
    BY <1>7
  <2>2. f[kids[i]] = (op = "any")
    BY <1>0, <2>1, MeaningCases DEF IsConst, f
  <2>3. f[Combined(op, kids)] = (op = "any")
    BY <1>3, <1>7
  <2>4. Holds(op, f, Range(kids)) = (op = "any")
    BY <1>5, <2>2 DEF Holds
  <2> QED BY <2>3, <2>4 DEF f
<1>8. CASE flat = <<>> /\ Combined(op, kids) = Const(op = "all")
  <2>1. Range(flat) = {}
    BY <1>8 DEF Range
  <2>2. f[Combined(op, kids)] = (op = "all")
    BY <1>3, <1>8
  <2>3. Holds(op, f, {}) = (op = "all")
    BY DEF Holds
  <2> QED BY <1>6, <2>1, <2>2, <2>3 DEF f
<1>9. CASE Len(flat) = 1 /\ flat # <<>> /\ Combined(op, kids) = flat[1]
  <2>1. Range(flat) = {flat[1]}
    BY <1>1, <1>9 DEF Range
  <2>2. Holds(op, f, {flat[1]}) <=> f[flat[1]]
    BY DEF Holds
  <2> QED BY <1>6, <1>9, <2>1, <2>2 DEF f
<1>10. CASE Len(flat) > 1 /\ flat # <<>> /\ Combined(op, kids) = Group(op, flat)
  <2>1. Range(flat) = {flat[i] : i \in DOMAIN flat}
    BY DEF Range
  <2>2. Group(op, flat).kind = op /\ Group(op, flat).kids = flat
    BY DEF Group
  <2>3. f[Group(op, flat)] <=> Holds(op, f, Range(flat))
    <3>1. f[Group(op, flat)] <=> Matches(op, f, flat)
      BY <1>10, <2>2, MeaningCases DEF Groups, f
    <3> QED BY <2>1, <3>1 DEF Holds, Matches
  <2> QED BY <1>6, <1>10, <2>3 DEF f
<1> QED BY <1>4, <1>7, <1>8, <1>9, <1>10

(* simplifyCondition keeps what a condition means.                         *)
THEOREM SimplifyingIsFaithful ==
  ASSUME NEW ctx \in Context
  PROVE  \A c \in Condition : Meaning(ctx)[simplify[c]] = Meaning(ctx)[c]
<1> DEFINE f == Meaning(ctx)
           P == {c \in Condition : f[simplify[c]] = f[c]}
<1>1. ASSUME NEW c \in Condition, \A d \in Condition : Height(d) < Height(c) => d \in P
      PROVE  c \in P
  <2>0. \A d \in Condition : /\ Height(d) \in Nat /\ simplify[d] \in Condition
                             /\ simplify[d] \in Trees[Height(d)] /\ f[d] \in BOOLEAN
    BY SimplifyUnfolds, Levels, MeaningCases
  <2>1. \A d \in Condition : Height(d) < Height(c) => f[simplify[d]] = f[d]
    BY <1>1
  <2>2. simplify[c] = SimplifyBody(simplify, c)
    BY SimplifyUnfolds
  <2>3. CASE c.kind \in {"all", "any"}
    <3> DEFINE kids == [i \in DOMAIN c.kids |-> simplify[c.kids[i]]]
    <3>1. simplify[c] = Combined(c.kind, kids)
      BY <2>2, <2>3 DEF SimplifyBody
    <3>2. \A i \in DOMAIN c.kids : c.kids[i] \in Condition /\ Height(c.kids[i]) < Height(c)
      BY <2>3, Closed DEF Groups
    <3>3. kids \in Seq(Condition)
      <4>1. \A d \in Parts(c) : simplify[d] \in Condition
        BY <2>0, Bounds, PartsAreLower
      <4> QED BY <2>3, <4>1, Bounds, Replaced DEF Groups
    <3>4. \A i \in DOMAIN c.kids : f[kids[i]] = f[c.kids[i]]
      BY <2>1, <3>2
    <3>5. Range(kids) = {kids[i] : i \in DOMAIN c.kids}
      BY DEF Range
    <3> HIDE DEF kids
    <3>6. f[Combined(c.kind, kids)] <=> Holds(c.kind, f, Range(kids))
      BY <2>0, <2>3, <3>1, <3>3, CombinedMeans
    <3>7. f[c] <=> Holds(c.kind, f, Range(kids))
      <4>1. f[c] <=> Matches(c.kind, f, c.kids)
        BY <2>3, MeaningCases DEF Groups
      <4> HIDE DEF f
      <4> QED BY <2>3, <3>4, <3>5, <4>1 DEF Holds, Matches
    <3>8. f[simplify[c]] \in BOOLEAN /\ f[c] \in BOOLEAN
      BY <2>0
    <3> HIDE DEF f
    <3> QED BY <3>1, <3>6, <3>7, <3>8
  <2>4. CASE c.kind = "not"
    <3> DEFINE child == simplify[c.kid]
    <3>1. c.kid \in Condition /\ Height(c.kid) < Height(c) /\ child \in Trees[Height(c.kid)]
      BY <2>0, <2>4, Closed
    <3>2. f[c] = ~ f[c.kid] /\ f[c.kid] = f[child] /\ child \in Condition
      BY <2>0, <2>1, <2>4, <3>1, MeaningCases
    <3>3. simplify[c] = IF child.kind = "const" THEN Const(~ child.value)
                        ELSE IF child.kind = "not" THEN simplify[child.kid] ELSE Not(child)
      BY <2>2, <2>4 DEF SimplifyBody
    <3>4. child.kind = "not" => child.kid \in Condition /\ Height(child.kid) < Height(c)
      <4> HIDE DEF child
      <4> QED BY <2>4, <3>1, UnderNegation
    <3> HIDE DEF child
    <3>5. CASE child.kind = "const"
      <4>1. f[child] = child.value /\ f[child] \in BOOLEAN
        BY <2>0, <3>2, <3>5, MeaningCases
      <4>2. simplify[c] = Const(~ child.value) /\ Const(~ child.value).kind = "const"
            /\ Const(~ child.value).value = ~ child.value
        BY <3>3, <3>5 DEF Const
      <4>3. f[simplify[c]] = ~ child.value
        BY <2>0, <4>2, MeaningCases
      <4> QED BY <3>2, <4>1, <4>3
    <3>6. CASE child.kind = "not"
      <4>1. f[child] = ~ f[child.kid] /\ f[child.kid] \in BOOLEAN
        BY <2>0, <3>2, <3>4, <3>6, MeaningCases
      <4>2. f[simplify[c]] = f[child.kid]
        BY <2>1, <3>3, <3>4, <3>6
      <4> QED BY <3>2, <4>1, <4>2
    <3>7. CASE child.kind \notin {"const", "not"}
      <4>1. simplify[c] = Not(child) /\ Not(child).kind = "not" /\ Not(child).kid = child
        BY <3>3, <3>7 DEF Not
      <4>2. f[simplify[c]] = ~ f[child]
        BY <2>0, <4>1, MeaningCases
      <4> QED BY <3>2, <4>2
    <3> QED BY <3>5, <3>6, <3>7
  <2>5. CASE c.kind \notin {"all", "any", "not"}
    <3>1. simplify[c] = c
      BY <2>2, <2>5 DEF SimplifyBody
    <3> QED BY <3>1
  <2> QED BY <2>3, <2>4, <2>5
<1> HIDE DEF P
<1>2. Condition \subseteq P
  BY <1>1, Bounds, TreeInduction, Zenon
<1> QED BY <1>2 DEF P

LEMMA ExpressionsOf ==
  ASSUME NEW n \in Nat, n <= 3 * MaxHeight
  PROVE  Trees[n] \subseteq Expression
BY Bounds, TreesGrow

(* canonicalCondition keeps what the evaluator returns.                    *)
LEMMA CanonicalMeans ==
  ASSUME NEW ctx \in Context, NEW c \in Expression
  PROVE  Evaluate(ctx)[canonical(c)] = Evaluate(ctx)[c] /\ canonical(c) \in Expression
<1> DEFINE f == Evaluate(ctx)
<1>0. canonical(c) \in Expression
  BY Bounds, CanonicalStays
<1>00. f[c] \in BOOLEAN /\ f[canonical(c)] \in BOOLEAN
  BY <1>0, EvaluateUnfolds
<1>1. CASE c.kind \in Groups /\ Len(c.kids) = 1
  <2>0. canonical(c) = c.kids[1]
    BY <1>1 DEF canonical, Groups
  <2>1. DOMAIN c.kids = {1}
    <3>1. c.kids \in Seq(Expression)
      BY <1>1, Closed
    <3> QED BY <1>1, <3>1
  <2> DEFINE v == f[c.kids[1]]
  <2>2. f[c] <=> v
    <3>1. f[c] <=> Matches(c.kind, f, c.kids)
      BY <1>1, EvaluateGroups
    <3> HIDE DEF f
    <3>2. Matches(c.kind, f, c.kids) <=> v
      <4>1. CASE c.kind \in {"all", "any"}
        BY <2>1, <4>1 DEF Matches
      <4>2. CASE c.kind = "one"
        <5>1. Matches(c.kind, f, c.kids) <=> \E i \in {1} : \A j \in {1} : f[c.kids[j]] <=> i = j
          BY <2>1, <4>2, Zenon DEF Matches
        <5> QED BY <5>1
      <4> QED BY <1>1, <4>1, <4>2 DEF Groups
    <3> QED BY <3>1, <3>2
  <2> HIDE DEF f
  <2> QED BY <1>0, <1>00, <2>0, <2>2 DEF f
<1>2. CASE c.kind = "not" /\ c.kid.kind = "const"
  <2>1. canonical(c) = Const(~ c.kid.value)
    BY <1>2 DEF canonical, Groups
  <2>2. Const(~ c.kid.value).kind = "const" /\ Const(~ c.kid.value).value = ~ c.kid.value
    BY DEF Const
  <2>3. f[canonical(c)] = ~ c.kid.value
    BY <1>0, <2>1, <2>2, EvaluateOthers
  <2>4. f[c] = ~ c.kid.value
    BY <1>2, Closed, EvaluateOthers
  <2> QED BY <1>0, <2>3, <2>4
<1>3. CASE ~ (c.kind \in Groups /\ Len(c.kids) = 1) /\ ~ (c.kind = "not" /\ c.kid.kind = "const")
  <2>1. canonical(c) = c
    BY <1>3, Zenon DEF canonical
  <2> QED BY <1>0, <2>1
<1> QED BY <1>1, <1>2, <1>3

(* Turning a comparison around with its operator changes nothing.          *)
LEMMA MirrorTurns ==
  ASSUME NEW a \in Int, NEW b \in Int, NEW op \in Comparisons
  PROVE  CompareNumbers(a, Mirror(op), b) <=> CompareNumbers(b, op, a)
<1>1. CASE op = "eq"
  BY <1>1 DEF Mirror, CompareNumbers
<1>2. CASE op = "ne"
  BY <1>2 DEF Mirror, CompareNumbers
<1>3. CASE op = "gt"
  BY <1>3 DEF Mirror, CompareNumbers
<1>4. CASE op = "gte"
  BY <1>4 DEF Mirror, CompareNumbers
<1>5. CASE op = "lt"
  BY <1>5 DEF Mirror, CompareNumbers
<1>6. CASE op = "lte"
  BY <1>6 DEF Mirror, CompareNumbers
<1> QED BY <1>1, <1>2, <1>3, <1>4, <1>5, <1>6 DEF Comparisons

(* A lowered condition evaluates to what the author meant.                 *)
THEOREM LoweringIsFaithful ==
  ASSUME NEW ctx \in Context
  PROVE  \A c \in Condition : Evaluate(ctx)[lower[c]] = Meaning(ctx)[c]
<1> DEFINE e == Evaluate(ctx)
           f == Meaning(ctx)
           P == {c \in Condition : e[lower[c]] = f[c]}
<1>1. ASSUME NEW c \in Condition, \A d \in Condition : Height(d) < Height(c) => d \in P
      PROVE  c \in P
  <2>0. \A d \in Condition : /\ lower[d] \in Condition /\ lower[d] \in Expression
                             /\ lower[d] \in Trees[Height(d)]
                             /\ e[lower[d]] \in BOOLEAN /\ f[d] \in BOOLEAN
    BY LowerUnfolds, Levels, MeaningCases, EvaluateUnfolds, Bounds
  <2>1. \A d \in Condition : Height(d) < Height(c) => e[lower[d]] = f[d]
    BY <1>1
  <2>2. lower[c] = canonical(rawCondition(lower, c))
    BY LowerUnfolds
  <2>3. ASSUME rawCondition(lower, c) \in Expression, e[rawCondition(lower, c)] <=> f[c]
        PROVE  c \in P
    <3>1. e[lower[c]] = e[rawCondition(lower, c)]
      BY <2>2, <2>3, CanonicalMeans
    <3> QED BY <2>0, <2>3, <3>1
  <2>4. CASE c.kind \in Groups
    <3> DEFINE kids == [i \in DOMAIN c.kids |-> lower[c.kids[i]]]
               n == Len(kids)
    <3>1. rawCondition(lower, c) = Group(c.kind, kids)
      BY <2>4 DEF rawCondition, Groups
    <3>2. \A i \in DOMAIN c.kids : c.kids[i] \in Condition /\ Height(c.kids[i]) < Height(c)
      BY <2>4, Closed
    <3>3. \A d \in Parts(c) : lower[d] \in Trees[Height(c) - 1] /\ Height(c) # 0
      BY <2>0, Bounds, PartsAreLower, OneLevelBelow
    <3>4. /\ kids \in Seq(Trees[Height(c) - 1]) /\ kids # <<>>
          /\ n \in Nat /\ DOMAIN kids = 1 .. n /\ DOMAIN c.kids = 1 .. n
          /\ Height(c) # 0
      BY <2>4, <3>3, Bounds, Replaced
    <3>5. \A i \in 1 .. n : e[kids[i]] = f[c.kids[i]]
      BY <2>1, <3>2, <3>4
    <3> HIDE DEF kids, n
    <3>6. Group(c.kind, kids) \in Trees[Height(c)]
      BY <2>4, <3>4, Levels, LevelUp
    <3>7. Group(c.kind, kids) \in Expression
      BY <3>6, Levels, Bounds
    <3>8. Group(c.kind, kids).kind = c.kind /\ Group(c.kind, kids).kids = kids
      BY DEF Group
    <3>9. e[Group(c.kind, kids)] <=> Matches(c.kind, e, kids)
      BY <2>4, <3>7, <3>8, EvaluateGroups
    <3>10. f[c] <=> Matches(c.kind, f, c.kids)
      BY <2>4, MeaningCases
    <3> HIDE DEF e, f
    <3>11. Matches(c.kind, e, kids) <=> Matches(c.kind, f, c.kids)
      BY <2>4, <3>4, <3>5, MatchesAlike
    <3>13. e[Group(c.kind, kids)] <=> f[c]
      BY <3>9, <3>10, <3>11
    <3> QED BY <2>3, <3>1, <3>7, <3>13
  <2>5. CASE c.kind = "not"
    <3>1. c.kid \in Condition /\ Height(c.kid) < Height(c)
      BY <2>5, Closed
    <3>2. rawCondition(lower, c) = Not(lower[c.kid])
      BY <2>5 DEF rawCondition, Groups
    <3>3. Height(c) # 0 /\ lower[c.kid] \in Trees[Height(c) - 1]
      BY <2>0, <2>5, <3>1, UnderNegation
    <3>4. Not(lower[c.kid]) \in Expression
      BY <3>3, Levels, LevelUp, Bounds
    <3>5. Not(lower[c.kid]).kind = "not" /\ Not(lower[c.kid]).kid = lower[c.kid]
      BY DEF Not
    <3>6. e[Not(lower[c.kid])] = ~ e[lower[c.kid]]
      BY <3>4, <3>5, EvaluateOthers
    <3>7. f[c] = ~ f[c.kid]
      BY <2>5, MeaningCases
    <3> QED BY <2>0, <2>1, <2>3, <3>1, <3>2, <3>4, <3>6, <3>7
  <2>6. CASE c.kind = "cmp"
    <3>1. /\ c.op \in Comparisons /\ c.lit \in Int /\ c.flipped \in BOOLEAN
          /\ c.operands \in Operands
      BY <2>6, Bounds, KindsOfTrees, LeafKinds DEF Groups
    <3> DEFINE op == IF c.flipped THEN Mirror(c.op) ELSE c.op
    <3>2. rawCondition(lower, c) = Compare(op, c.lit, FALSE, c.operands)
      BY <2>6 DEF rawCondition, Groups
    <3>3. op \in Comparisons
      BY <3>1 DEF Mirror, Comparisons
    <3> HIDE DEF op
    <3>4. Compare(op, c.lit, FALSE, c.operands) \in Leaves
      BY <3>1, <3>3 DEF Compare, Leaves
    <3>5. Compare(op, c.lit, FALSE, c.operands) \in Expression
      BY <3>4, Bounds, Constructors
    <3>6. e[Compare(op, c.lit, FALSE, c.operands)] = (ctx.numeric /\ CompareNumbers(ctx.x, op, c.lit))
      <4>1. Compare(op, c.lit, FALSE, c.operands).kind = "cmp" /\ Compare(op, c.lit, FALSE, c.operands).op = op
            /\ Compare(op, c.lit, FALSE, c.operands).lit = c.lit
        BY DEF Compare
      <4> DEFINE d == Compare(op, c.lit, FALSE, c.operands)
      <4>2. d \in Expression /\ d.kind = "cmp" /\ d.op = op /\ d.lit = c.lit
        BY <3>5, <4>1
      <4> HIDE DEF d
      <4>3. e[d] = (ctx.numeric /\ CompareNumbers(ctx.x, d.op, d.lit))
        BY <4>2, EvaluateOthers
      <4> QED BY <4>2, <4>3, Zenon DEF d
    <3>7. f[c] = LeafMeans(c, ctx)
      BY <2>6, MeaningCases
    <3>8. ctx.x \in Int /\ ctx.numeric \in BOOLEAN
      BY DEF Context
    <3>9. CompareNumbers(ctx.x, op, c.lit) <=>
            IF c.flipped THEN CompareNumbers(c.lit, c.op, ctx.x)
            ELSE CompareNumbers(ctx.x, c.op, c.lit)
      <4>1. CASE c.flipped
        <5>1. op = Mirror(c.op)
          BY <4>1 DEF op
        <5> QED BY <3>1, <3>8, <4>1, <5>1, MirrorTurns
      <4>2. CASE ~ c.flipped
        BY <4>2, Zenon DEF op
      <4> QED BY <4>1, <4>2
    <3>10. LeafMeans(c, ctx) <=> (ctx.numeric /\ CompareNumbers(ctx.x, op, c.lit))
      <4>1. LeafMeans(c, ctx) = (/\ ctx.numeric
                                 /\ IF c.flipped THEN CompareNumbers(c.lit, c.op, ctx.x)
                                    ELSE CompareNumbers(ctx.x, c.op, c.lit))
        BY <2>6 DEF LeafMeans
      <4> QED BY <3>9, <4>1, Zenon
    <3>11. e[Compare(op, c.lit, FALSE, c.operands)] <=> f[c]
      <4> HIDE DEF e, f
      <4> QED BY <3>6, <3>7, <3>10, Zenon
    <3> QED BY <2>3, <3>2, <3>5, <3>11
  <2>7. CASE c.kind \in {"const", "opaque"}
    <3>1. rawCondition(lower, c) = c
      BY <2>7 DEF rawCondition, Groups
    <3>2. e[c] = f[c]
      <4>1. CASE c.kind = "const"
        BY <4>1, Bounds, EvaluateOthers, MeaningCases
      <4>2. CASE c.kind = "opaque"
        <5>1. e[c] = ctx.holds
          BY <4>2, Bounds, EvaluateOthers
        <5>2. f[c] = LeafMeans(c, ctx)
          BY <4>2, MeaningCases
        <5>3. LeafMeans(c, ctx) = ctx.holds
          BY <4>2 DEF LeafMeans
        <5> QED BY <5>1, <5>2, <5>3
      <4> QED BY <2>7, <4>1, <4>2
    <3> QED BY <2>3, <3>1, <3>2, Bounds
  <2> QED BY <2>4, <2>5, <2>6, <2>7, Bounds, KindsOfTrees DEF Groups
<1> HIDE DEF P
<1>2. Condition \subseteq P
  BY <1>1, Bounds, TreeInduction, Zenon
<1> QED BY <1>2 DEF P

(* The clauses compileIRExactlyOne joins hold when just one child does.    *)
LEMMA ExactlyOneMeans ==
  ASSUME NEW ctx \in Context, NEW n \in Nat, n + 3 <= 3 * MaxHeight,
         NEW kids \in Seq(Trees[n]), kids # <<>>
  PROVE  Evaluate(ctx)[ExactlyOne(kids)] <=> Matches("one", Evaluate(ctx), kids)
<1> DEFINE e == Evaluate(ctx)
<1>1. n + 1 \in Nat /\ n + 2 \in Nat /\ n + 3 \in Nat /\ n + 1 <= 3 * MaxHeight
      /\ n + 2 <= 3 * MaxHeight /\ n <= 3 * MaxHeight
  BY Bounds
<1>2. /\ Trees[n] \subseteq Expression /\ Trees[n + 1] \subseteq Expression
      /\ Trees[n + 2] \subseteq Expression /\ Trees[n + 3] \subseteq Expression
  BY <1>1, ExpressionsOf
<1>3. ASSUME NEW i \in DOMAIN kids
      PROVE  e[Clause(kids, i)] <=> e[kids[i]] /\ \A j \in DOMAIN kids \ {i} : ~ e[kids[j]]
  <2> DEFINE clause == Clause(kids, i)
  <2>1. /\ clause \in Trees[n + 2] /\ clause.kind = "all" /\ clause.kids \in Seq(Trees[n + 1])
        /\ Range(clause.kids) = {kids[i]} \cup {Not(kids[j]) : j \in DOMAIN kids \ {i}}
    BY ClauseOf
  <2> HIDE DEF clause
  <2>2. e[clause] <=> Matches("all", e, clause.kids)
    BY <1>2, <2>1, EvaluateGroups DEF Groups
  <2>3. Range(clause.kids) = {clause.kids[j] : j \in DOMAIN clause.kids}
    BY DEF Range
  <2>4. ASSUME NEW j \in DOMAIN kids
        PROVE  e[Not(kids[j])] = ~ e[kids[j]]
    <3>1. kids[j] \in Trees[n]
      OBVIOUS
    <3>2. Not(kids[j]) \in Expression
      BY <1>2, <3>1, Constructors
    <3>3. Not(kids[j]).kind = "not" /\ Not(kids[j]).kid = kids[j]
      BY DEF Not
    <3> QED BY <3>2, <3>3, EvaluateOthers
  <2> HIDE DEF e
  <2>5. Matches("all", e, clause.kids) <=> \A x \in Range(clause.kids) : e[x]
    BY <2>3 DEF Matches
  <2> QED BY <2>1, <2>2, <2>4, <2>5 DEF clause
<1> DEFINE clauses == [i \in DOMAIN kids |-> Clause(kids, i)]
           whole == Group("any", clauses)
<1>4. ExactlyOne(kids) = whole /\ whole \in Expression
  BY <1>2, ExactlyOneOf
<1>5. whole.kind = "any" /\ whole.kids = clauses
  BY DEF Group
<1>6. DOMAIN clauses = DOMAIN kids /\ \A i \in DOMAIN kids : clauses[i] = Clause(kids, i)
  OBVIOUS
<1> HIDE DEF whole, clauses
<1>7. e[whole] <=> Matches("any", e, clauses)
  BY <1>4, <1>5, EvaluateGroups DEF Groups
<1> HIDE DEF e
<1>8. Matches("any", e, clauses) <=> \E i \in DOMAIN kids : e[Clause(kids, i)]
  BY <1>6 DEF Matches
<1>9. Matches("one", e, kids)
        <=> \E i \in DOMAIN kids : e[kids[i]] /\ \A j \in DOMAIN kids \ {i} : ~ e[kids[j]]
  <2>1. \A i \in DOMAIN kids : (\A j \in DOMAIN kids : e[kids[j]] <=> i = j)
          <=> e[kids[i]] /\ \A j \in DOMAIN kids \ {i} : ~ e[kids[j]]
    OBVIOUS
  <2> QED BY <2>1 DEF Matches
<1> QED BY <1>3, <1>4, <1>7, <1>8, <1>9 DEF e

(* The expression of a target evaluates as the condition it is made from.  *)
THEOREM CompilingIsFaithful ==
  ASSUME NEW ctx \in Context
  PROVE  \A c \in Condition : Evaluate(ctx)[Compiled[c]] = Evaluate(ctx)[c]
<1> DEFINE e == Evaluate(ctx)
           P == {c \in Condition : e[Compiled[c]] = e[c]}
<1>1. ASSUME NEW c \in Condition, \A d \in Condition : Height(d) < Height(c) => d \in P
      PROVE  c \in P
  <2>0. \A d \in Condition : /\ d \in Expression /\ Compiled[d] \in Expression
                             /\ Compiled[d] \in Trees[3 * Height(d)]
                             /\ e[Compiled[d]] \in BOOLEAN /\ e[d] \in BOOLEAN
    BY CompiledUnfolds, Levels, EvaluateUnfolds, Bounds
  <2>1. \A d \in Condition : Height(d) < Height(c) => e[Compiled[d]] = e[d]
    BY <1>1
  <2>2. Compiled[c] = CompiledBody(Compiled, c)
    BY CompiledUnfolds
  <2>3. SUFFICES e[Compiled[c]] <=> e[c]
    BY <2>0
  <2>4. CASE c.kind \in Groups
    <3> DEFINE kids == [i \in DOMAIN c.kids |-> Compiled[c.kids[i]]]
               n == 3 * (Height(c) - 1)
    <3>1. \A i \in DOMAIN c.kids : c.kids[i] \in Condition /\ Height(c.kids[i]) < Height(c)
      BY <2>4, Closed
    <3>2. \A d \in Parts(c) : Compiled[d] \in Trees[n] /\ Height(c) # 0
      BY <2>0, Bounds, PartsAreLower, OneLevelBelow
    <3>3. kids \in Seq(Trees[n]) /\ kids # <<>> /\ DOMAIN kids = DOMAIN c.kids /\ Height(c) # 0
      BY <2>4, <3>2, Bounds, Replaced
    <3>4. \A i \in DOMAIN c.kids : e[kids[i]] = e[c.kids[i]]
      BY <2>1, <3>1
    <3>5. n \in Nat /\ n + 3 <= 3 * MaxHeight
      <4>1. Height(c) \in Nat /\ Height(c) <= MaxHeight /\ MaxHeight \in Nat
        BY Bounds, HeightIsLeast
      <4> QED BY <3>3, <4>1
    <3> HIDE DEF kids, n
    <3>6. e[c] <=> Matches(c.kind, e, c.kids)
      BY <2>0, <2>4, EvaluateGroups
    <3>7. Matches(c.kind, e, kids) <=> Matches(c.kind, e, c.kids)
      <4> HIDE DEF e
      <4> QED BY <2>4, <3>3, <3>4, MatchesAlike
    <3>8. CASE c.kind = "one"
      <4>1. Compiled[c] = ExactlyOne(kids)
        BY <2>2, <3>8 DEF CompiledBody, kids
      <4>2. e[ExactlyOne(kids)] <=> Matches("one", e, kids)
        BY <3>3, <3>5, ExactlyOneMeans
      <4> QED BY <3>6, <3>7, <3>8, <4>1, <4>2
    <3>9. CASE c.kind \in {"all", "any"}
      <4>1. Compiled[c] = Group(c.kind, kids)
        BY <2>2, <3>9 DEF CompiledBody, kids
      <4>2. Group(c.kind, kids).kind = c.kind /\ Group(c.kind, kids).kids = kids
        BY DEF Group
      <4>3. e[Group(c.kind, kids)] <=> Matches(c.kind, e, kids)
        BY <2>0, <2>4, <4>1, <4>2, EvaluateGroups
      <4> QED BY <3>6, <3>7, <4>1, <4>3
    <3> QED BY <2>4, <3>8, <3>9 DEF Groups
  <2>5. CASE c.kind = "not"
    <3>1. c.kid \in Condition /\ Height(c.kid) < Height(c)
      BY <2>5, Closed
    <3>2. Compiled[c] = Not(Compiled[c.kid])
      BY <2>2, <2>5 DEF CompiledBody
    <3>3. Not(Compiled[c.kid]).kind = "not" /\ Not(Compiled[c.kid]).kid = Compiled[c.kid]
      BY DEF Not
    <3>4. e[Compiled[c]] = ~ e[Compiled[c.kid]]
      BY <2>0, <3>2, <3>3, EvaluateOthers
    <3>5. e[c] = ~ e[c.kid]
      BY <2>0, <2>5, EvaluateOthers
    <3> QED BY <2>1, <3>1, <3>4, <3>5
  <2>6. CASE c.kind \notin Groups \cup {"not"}
    <3>1. Compiled[c] = c
      BY <2>2, <2>6 DEF CompiledBody, Groups
    <3> QED BY <3>1
  <2> QED BY <2>4, <2>5, <2>6
<1> HIDE DEF P
<1>2. Condition \subseteq P
  BY <1>1, Bounds, TreeInduction, Zenon
<1> QED BY <1>2 DEF P

-----------------------------------------------------------------------------
(* Normal forms                                                            *)

LEMMA FlattenedNormal ==
  ASSUME NEW op \in {"all", "any"}, NEW s \in Condition, Normal[s], ~ IsConst(s, op = "any"),
         NEW x \in Range(Flattened(op, s))
  PROVE  x.kind \notin {op, "const"} /\ Normal[x]
<1>1. CASE IsConst(s, op = "all")
  <2>1. Flattened(op, s) = <<>>
    BY <1>1, Zenon DEF Flattened
  <2> QED BY <2>1 DEF Range
<1>2. CASE ~ IsConst(s, op = "all") /\ s.kind = op
  <2>1. Flattened(op, s) = s.kids
    BY <1>2, Zenon DEF Flattened
  <2>2. NormalBody(Normal, s)
    BY NormalUnfolds
  <2> QED BY <1>2, <2>1, <2>2 DEF NormalBody, Range
<1>3. CASE ~ IsConst(s, op = "all") /\ s.kind # op
  <2>1. Flattened(op, s) = <<s>>
    BY <1>3, Zenon DEF Flattened
  <2>2. x = s
    BY <2>1 DEF Range
  <2>3. s.kind # "const"
    <3>1. SUFFICES ASSUME s.kind = "const" PROVE FALSE
      OBVIOUS
    <3>2. s.value \in BOOLEAN
      BY <3>1, Bounds, KindsOfTrees, LeafKinds DEF Groups
    <3>3. s.value # (op = "all") /\ s.value # (op = "any")
      BY <1>3, <3>1 DEF IsConst
    <3>4. op = "all" \/ op = "any"
      OBVIOUS
    <3> QED BY <3>2, <3>3, <3>4
  <2> QED BY <1>3, <2>2, <2>3
<1> QED BY <1>1, <1>2, <1>3, Zenon

LEMMA CombinedNormal ==
  ASSUME NEW op \in {"all", "any"}, NEW kids \in Seq(Condition), \A i \in DOMAIN kids : Normal[kids[i]],
         Combined(op, kids) \in Condition
  PROVE  Normal[Combined(op, kids)]
<1> DEFINE flat == Flat(op, kids)
<1>0. \A i \in DOMAIN kids : kids[i] \in Condition
  OBVIOUS
<1>1. flat \in Seq(Condition) /\ Range(flat) = InFlat(op, kids)
  BY Bounds, FlatOf
<1>2. \/ Combined(op, kids) \in {Const(op = "any"), Const(op = "all")}
      \/ /\ \A i \in DOMAIN kids : ~ IsConst(kids[i], op = "any")
         /\ \/ Len(flat) = 1 /\ Combined(op, kids) = flat[1]
            \/ Len(flat) > 1 /\ Combined(op, kids) = Group(op, flat)
  BY Bounds, CombinedIs
<1> HIDE DEF flat
<1>3. CASE Combined(op, kids) \in {Const(op = "any"), Const(op = "all")}
  <2>1. Combined(op, kids).kind = "const"
    BY <1>3 DEF Const
  <2> QED BY <2>1, NormalUnfolds DEF NormalBody
<1>4. CASE \A i \in DOMAIN kids : ~ IsConst(kids[i], op = "any")
  <2>1. \A x \in Range(flat) : x.kind \notin {op, "const"} /\ Normal[x]
    <3>1. SUFFICES ASSUME NEW i \in DOMAIN kids, NEW x \in Range(Flattened(op, kids[i]))
                   PROVE  x.kind \notin {op, "const"} /\ Normal[x]
      BY <1>1 DEF InFlat
    <3> QED BY <1>0, <1>4, FlattenedNormal
  <2>2. \A i \in DOMAIN flat : flat[i].kind \notin {op, "const"} /\ Normal[flat[i]]
    BY <2>1 DEF Range
  <2>3. CASE Len(flat) = 1 /\ Combined(op, kids) = flat[1]
    <3>1. 1 \in DOMAIN flat
      BY <1>1, <2>3
    <3> QED BY <2>2, <2>3, <3>1
  <2>4. CASE Len(flat) > 1 /\ Combined(op, kids) = Group(op, flat)
    <3>1. Group(op, flat).kind = op /\ Group(op, flat).kids = flat
      BY DEF Group
    <3>2. NormalBody(Normal, Group(op, flat))
      BY <2>2, <2>4, <3>1 DEF NormalBody
    <3> QED BY <2>4, <3>2, NormalUnfolds
  <2>5. CASE Combined(op, kids) \in {Const(op = "any"), Const(op = "all")}
    BY <1>3, <2>5
  <2> QED BY <1>2, <2>3, <2>4, <2>5
<1> QED BY <1>2, <1>3, <1>4

(* What simplifyCondition returns cannot be simplified further.            *)
THEOREM SimplifiedIsNormal ==
  \A c \in Condition : Normal[simplify[c]]
<1> DEFINE P == {c \in Condition : Normal[simplify[c]]}
<1>1. ASSUME NEW c \in Condition, \A d \in Condition : Height(d) < Height(c) => d \in P
      PROVE  c \in P
  <2>0. \A d \in Condition : /\ simplify[d] \in Condition /\ simplify[d] \in Trees[Height(d)]
    BY SimplifyUnfolds, Levels
  <2>1. \A d \in Condition : Height(d) < Height(c) => Normal[simplify[d]]
    BY <1>1
  <2>2. simplify[c] = SimplifyBody(simplify, c)
    BY SimplifyUnfolds
  <2>3. CASE c.kind \in {"all", "any"}
    <3> DEFINE kids == [i \in DOMAIN c.kids |-> simplify[c.kids[i]]]
    <3>1. simplify[c] = Combined(c.kind, kids)
      BY <2>2, <2>3 DEF SimplifyBody
    <3>2. \A i \in DOMAIN c.kids : c.kids[i] \in Condition /\ Height(c.kids[i]) < Height(c)
      BY <2>3, Closed DEF Groups
    <3>3. kids \in Seq(Condition)
      <4>1. \A d \in Parts(c) : simplify[d] \in Condition
        BY <2>0, Bounds, PartsAreLower
      <4> QED BY <2>3, <4>1, Bounds, Replaced DEF Groups
    <3>4. \A i \in DOMAIN kids : Normal[kids[i]]
      BY <2>1, <3>2
    <3> HIDE DEF kids
    <3> QED BY <2>0, <2>3, <3>1, <3>3, <3>4, CombinedNormal
  <2>4. CASE c.kind = "not"
    <3> DEFINE child == simplify[c.kid]
    <3>1. c.kid \in Condition /\ Height(c.kid) < Height(c) /\ child \in Trees[Height(c.kid)]
      BY <2>0, <2>4, Closed
    <3>2. simplify[c] = IF child.kind = "const" THEN Const(~ child.value)
                        ELSE IF child.kind = "not" THEN simplify[child.kid] ELSE Not(child)
      BY <2>2, <2>4 DEF SimplifyBody
    <3>3. Normal[child]
      BY <2>1, <3>1
    <3>4. child.kind = "not" => child.kid \in Condition /\ Height(child.kid) < Height(c)
      <4> HIDE DEF child
      <4> QED BY <2>4, <3>1, UnderNegation
    <3> HIDE DEF child
    <3>5. CASE child.kind = "const"
      <4>1. simplify[c].kind = "const"
        BY <3>2, <3>5 DEF Const
      <4> QED BY <2>0, <4>1, NormalUnfolds DEF NormalBody
    <3>6. CASE child.kind = "not"
      BY <2>1, <3>2, <3>4, <3>6
    <3>7. CASE child.kind \notin {"const", "not"}
      <4>1. simplify[c].kind = "not" /\ simplify[c].kid = child
        BY <3>2, <3>7 DEF Not
      <4>2. NormalBody(Normal, simplify[c])
        BY <3>3, <3>7, <4>1 DEF NormalBody
      <4> QED BY <2>0, <4>2, NormalUnfolds
    <3> QED BY <3>5, <3>6, <3>7
  <2>5. CASE c.kind \notin {"all", "any", "not"}
    <3>1. simplify[c] = c
      BY <2>2, <2>5 DEF SimplifyBody
    <3>2. NormalBody(Normal, c)
      BY <2>5 DEF NormalBody
    <3> QED BY <3>1, <3>2, NormalUnfolds
  <2> QED BY <2>3, <2>4, <2>5
<1> HIDE DEF P
<1>2. Condition \subseteq P
  BY <1>1, Bounds, TreeInduction, Zenon
<1> QED BY <1>2 DEF P

-----------------------------------------------------------------------------
(* Operands                                                                *)

LEMMA FlattenedOperands ==
  ASSUME NEW op \in {"all", "any"}, NEW s \in Condition, NEW x \in Range(Flattened(op, s))
  PROVE  OperandsOf[x] \subseteq OperandsOf[s]
<1>1. CASE IsConst(s, op = "all")
  <2>1. Flattened(op, s) = <<>>
    BY <1>1, Zenon DEF Flattened
  <2> QED BY <2>1 DEF Range
<1>2. CASE ~ IsConst(s, op = "all") /\ s.kind = op
  <2>1. Flattened(op, s) = s.kids
    BY <1>2, Zenon DEF Flattened
  <2>2. Within(OperandsOf, s.kids, OperandsOf[s])
    BY <1>2, OperandsByShape DEF Groups
  <2> QED BY <2>1, <2>2 DEF Within, Range
<1>3. CASE ~ IsConst(s, op = "all") /\ s.kind # op
  <2>1. Flattened(op, s) = <<s>>
    BY <1>3, Zenon DEF Flattened
  <2> QED BY <2>1 DEF Range
<1> QED BY <1>1, <1>2, <1>3, Zenon

LEMMA ConstHasNone ==
  ASSUME NEW c \in Condition, NEW b, c = Const(b)
  PROVE  OperandsOf[c] = {}
<1>1. c.kind = "const"
  BY DEF Const
<1> QED BY <1>1, OperandsByShape

LEMMA CombinedOperands ==
  ASSUME NEW op \in {"all", "any"}, NEW kids \in Seq(Condition), NEW X,
         Within(OperandsOf, kids, X), Combined(op, kids) \in Condition
  PROVE  OperandsOf[Combined(op, kids)] \subseteq X
<1> DEFINE flat == Flat(op, kids)
<1>0. \A i \in DOMAIN kids : kids[i] \in Condition
  OBVIOUS
<1>1. flat \in Seq(Condition) /\ Range(flat) = InFlat(op, kids)
  BY Bounds, FlatOf
<1>2. \/ \E b : Combined(op, kids) = Const(b)
      \/ Len(flat) = 1 /\ Combined(op, kids) = flat[1]
      \/ Combined(op, kids) = Group(op, flat)
  BY Bounds, CombinedIs
<1> HIDE DEF flat
<1>3. Within(OperandsOf, flat, X)
  <2>1. \A x \in Range(flat) : OperandsOf[x] \subseteq X
    <3>1. SUFFICES ASSUME NEW i \in DOMAIN kids, NEW x \in Range(Flattened(op, kids[i]))
                   PROVE  OperandsOf[x] \subseteq X
      BY <1>1 DEF InFlat
    <3>2. OperandsOf[x] \subseteq OperandsOf[kids[i]]
      BY <1>0, FlattenedOperands
    <3> QED BY <3>2 DEF Within
  <2> QED BY <2>1 DEF Within, Range
<1>4. CASE \E b : Combined(op, kids) = Const(b)
  BY <1>4, ConstHasNone
<1>5. CASE Len(flat) = 1 /\ Combined(op, kids) = flat[1]
  <2>1. 1 \in DOMAIN flat
    BY <1>1, <1>5
  <2> QED BY <1>3, <1>5, <2>1 DEF Within
<1>6. CASE Combined(op, kids) = Group(op, flat)
  <2>1. Group(op, flat).kind = op /\ Group(op, flat).kids = flat /\ op \in Groups
    BY DEF Group, Groups
  <2> QED BY <1>3, <1>6, <2>1, OperandsByShape
<1> QED BY <1>2, <1>4, <1>5, <1>6

(* Simplifying a condition writes no leaf the author did not write.        *)
LEMMA SimplifyingAddsNoOperands ==
  \A c \in Condition : OperandsOf[simplify[c]] \subseteq OperandsOf[c]
<1> DEFINE P == {c \in Condition : OperandsOf[simplify[c]] \subseteq OperandsOf[c]}
<1>1. ASSUME NEW c \in Condition, \A d \in Condition : Height(d) < Height(c) => d \in P
      PROVE  c \in P
  <2>0. \A d \in Condition : /\ simplify[d] \in Condition /\ simplify[d] \in Trees[Height(d)]
    BY SimplifyUnfolds, Levels
  <2>1. \A d \in Condition : Height(d) < Height(c) => OperandsOf[simplify[d]] \subseteq OperandsOf[d]
    BY <1>1
  <2>2. simplify[c] = SimplifyBody(simplify, c)
    BY SimplifyUnfolds
  <2>3. CASE c.kind \in {"all", "any"}
    <3> DEFINE kids == [i \in DOMAIN c.kids |-> simplify[c.kids[i]]]
    <3>1. simplify[c] = Combined(c.kind, kids)
      BY <2>2, <2>3 DEF SimplifyBody
    <3>2. \A i \in DOMAIN c.kids : c.kids[i] \in Condition /\ Height(c.kids[i]) < Height(c)
      BY <2>3, Closed DEF Groups
    <3>3. kids \in Seq(Condition)
      <4>1. \A d \in Parts(c) : simplify[d] \in Condition
        BY <2>0, Bounds, PartsAreLower
      <4> QED BY <2>3, <4>1, Bounds, Replaced DEF Groups
    <3>4. Within(OperandsOf, c.kids, OperandsOf[c])
      BY <2>3, OperandsByShape DEF Groups
    <3>5. Within(OperandsOf, kids, OperandsOf[c])
      <4>1. \A i \in DOMAIN c.kids : OperandsOf[c.kids[i]] \subseteq OperandsOf[c]
        BY <3>4 DEF Within
      <4>2. \A i \in DOMAIN c.kids : OperandsOf[simplify[c.kids[i]]] \subseteq OperandsOf[c.kids[i]]
        BY <2>1, <3>2
      <4>3. \A i \in DOMAIN c.kids : kids[i] = simplify[c.kids[i]]
        OBVIOUS
      <4>4. DOMAIN kids = DOMAIN c.kids
        OBVIOUS
      <4> HIDE DEF kids
      <4> QED BY <4>1, <4>2, <4>3, <4>4 DEF Within
    <3> HIDE DEF kids
    <3>6. OperandsOf[Combined(c.kind, kids)] \subseteq OperandsOf[c]
      BY <2>0, <2>3, <3>1, <3>3, <3>5, CombinedOperands
    <3> QED BY <3>1, <3>6
  <2>4. CASE c.kind = "not"
    <3> DEFINE child == simplify[c.kid]
    <3>1. c.kid \in Condition /\ Height(c.kid) < Height(c) /\ child \in Trees[Height(c.kid)]
          /\ child \in Condition
      BY <2>0, <2>4, Closed
    <3>2. simplify[c] = IF child.kind = "const" THEN Const(~ child.value)
                        ELSE IF child.kind = "not" THEN simplify[child.kid] ELSE Not(child)
      BY <2>2, <2>4 DEF SimplifyBody
    <3>3. OperandsOf[child] \subseteq OperandsOf[c]
      <4>1. OperandsOf[c] = OperandsOf[c.kid]
        BY <2>4, OperandsByShape
      <4> QED BY <2>1, <3>1, <4>1
    <3>4. child.kind = "not" => child.kid \in Condition /\ Height(child.kid) < Height(c)
      <4> HIDE DEF child
      <4> QED BY <2>4, <3>1, UnderNegation
    <3> HIDE DEF child
    <3>5. CASE child.kind = "const"
      BY <2>0, <3>2, <3>5, ConstHasNone
    <3>6. CASE child.kind = "not"
      <4>1. OperandsOf[child] = OperandsOf[child.kid]
        BY <3>1, <3>6, OperandsByShape
      <4>2. OperandsOf[simplify[child.kid]] \subseteq OperandsOf[child.kid]
        BY <2>1, <3>4, <3>6
      <4> QED BY <3>2, <3>3, <3>6, <4>1, <4>2
    <3>7. CASE child.kind \notin {"const", "not"}
      <4>1. simplify[c].kind = "not" /\ simplify[c].kid = child
        BY <3>2, <3>7 DEF Not
      <4> QED BY <2>0, <3>3, <4>1, OperandsByShape
    <3> QED BY <3>5, <3>6, <3>7
  <2>5. CASE c.kind \notin {"all", "any", "not"}
    BY <2>2, <2>5 DEF SimplifyBody
  <2> QED BY <2>3, <2>4, <2>5
<1> HIDE DEF P
<1>2. Condition \subseteq P
  BY <1>1, Bounds, TreeInduction, Zenon
<1> QED BY <1>2 DEF P

(* Neither does lowering it.                                               *)
LEMMA LoweringAddsNoOperands ==
  \A c \in Condition : OperandsOf[lower[c]] \subseteq OperandsOf[c]
<1> DEFINE P == {c \in Condition : OperandsOf[lower[c]] \subseteq OperandsOf[c]}
<1>1. ASSUME NEW c \in Condition, \A d \in Condition : Height(d) < Height(c) => d \in P
      PROVE  c \in P
  <2>1. \A d \in Condition : Height(d) < Height(c) => OperandsOf[lower[d]] \subseteq OperandsOf[d]
    BY <1>1
  <2>2. lower[c] = canonical(rawCondition(lower, c)) /\ lower[c] \in Condition
    BY LowerUnfolds, Levels
  <2>3. CASE c.kind \in Groups
    <3> DEFINE kids == [i \in DOMAIN c.kids |-> lower[c.kids[i]]]
    <3>1. rawCondition(lower, c) = Group(c.kind, kids)
      BY <2>3 DEF rawCondition, Groups
    <3>2. \A i \in DOMAIN c.kids : OperandsOf[lower[c.kids[i]]] \subseteq OperandsOf[c]
      <4>1. \A i \in DOMAIN c.kids : c.kids[i] \in Condition /\ Height(c.kids[i]) < Height(c)
        BY <2>3, Closed
      <4>2. Within(OperandsOf, c.kids, OperandsOf[c])
        BY <2>3, OperandsByShape
      <4> QED BY <2>1, <4>1, <4>2 DEF Within
    <3>3. /\ \A i \in DOMAIN c.kids : kids[i] = lower[c.kids[i]]
          /\ DOMAIN kids = DOMAIN c.kids
      OBVIOUS
    <3>4. 1 \in DOMAIN kids
      <4>1. \A d \in Parts(c) : lower[d] \in Condition
        BY Bounds, PartsAreLower, LowerUnfolds, Levels
      <4>2. Len(kids) \in Nat \ {0} /\ DOMAIN kids = 1 .. Len(kids)
        BY <2>3, <4>1, Bounds, Replaced
      <4> HIDE DEF kids
      <4> QED BY <4>2
    <3> HIDE DEF kids
    <3>5. Within(OperandsOf, kids, OperandsOf[c])
      BY <3>2, <3>3 DEF Within
    <3>6. Group(c.kind, kids).kind = c.kind /\ Group(c.kind, kids).kids = kids
      BY DEF Group
    <3>7. CASE Len(kids) = 1
      <4>1. lower[c] = kids[1]
        BY <2>2, <2>3, <3>1, <3>6, <3>7 DEF canonical, Groups
      <4> QED BY <3>4, <3>5, <4>1 DEF Within
    <3>8. CASE Len(kids) # 1
      <4>1. lower[c] = Group(c.kind, kids)
        BY <2>2, <2>3, <3>1, <3>6, <3>8 DEF canonical, Groups
      <4> QED BY <2>2, <2>3, <3>5, <3>6, <4>1, OperandsByShape
    <3> QED BY <3>7, <3>8
  <2>4. CASE c.kind = "not"
    <3> DEFINE child == lower[c.kid]
    <3>1. lower[c] = canonical(Not(child))
      BY <2>2, <2>4 DEF rawCondition, Groups
    <3>2. OperandsOf[child] \subseteq OperandsOf[c]
      <4>1. c.kid \in Condition /\ Height(c.kid) < Height(c)
        BY <2>4, Closed
      <4>2. OperandsOf[c] = OperandsOf[c.kid]
        BY <2>4, OperandsByShape
      <4> QED BY <2>1, <4>1, <4>2
    <3> HIDE DEF child
    <3>3. Not(child).kind = "not" /\ Not(child).kid = child
      BY DEF Not
    <3>4. CASE child.kind = "const"
      <4>1. lower[c] = Const(~ child.value)
        BY <3>1, <3>3, <3>4 DEF canonical, Groups
      <4> QED BY <2>2, <4>1, ConstHasNone
    <3>5. CASE child.kind # "const"
      <4>1. lower[c] = Not(child)
        BY <3>1, <3>3, <3>5 DEF canonical, Groups
      <4> QED BY <2>2, <3>2, <3>3, <4>1, OperandsByShape
    <3> QED BY <3>4, <3>5
  <2>5. CASE c.kind = "cmp"
    <3>1. PICK op : rawCondition(lower, c) = Compare(op, c.lit, FALSE, c.operands)
      BY <2>5 DEF rawCondition, Groups
    <3>2. /\ Compare(op, c.lit, FALSE, c.operands).kind = "cmp"
          /\ Compare(op, c.lit, FALSE, c.operands).operands = c.operands
      BY DEF Compare
    <3>3. lower[c] = Compare(op, c.lit, FALSE, c.operands)
      BY <2>2, <3>1, <3>2 DEF canonical, Groups
    <3>4. OperandsOf[lower[c]] = {c.operands}
      BY <2>2, <3>2, <3>3, OperandsByShape
    <3> QED BY <2>5, <3>4, OperandsByShape
  <2>6. CASE c.kind \notin Groups \cup {"not", "cmp"}
    <3>1. lower[c] = c
      BY <2>2, <2>6 DEF rawCondition, canonical, Groups
    <3> QED BY <3>1
  <2> QED BY <2>3, <2>4, <2>5, <2>6
<1> HIDE DEF P
<1>2. Condition \subseteq P
  BY <1>1, Bounds, TreeInduction, Zenon
<1> QED BY <1>2 DEF P

-----------------------------------------------------------------------------
(* Verdicts                                                                *)

(* Which leaves a target refuses is what the matrix says of their kind.    *)
LEMMA LeafVerdicts ==
  ASSUME NEW t \in {"flagd", "gofeatureflag"}, NEW c \in Leaves
  PROVE  Refuses(t, c) <=> KindsOfBody(KindsOf, c) \cap MatrixUnsupported(t) # {}
<1>1. CASE c.kind = "const"
  <2>1. KindsOfBody(KindsOf, c) = {"constant"}
    BY <1>1 DEF KindsOfBody, Groups
  <2> QED BY <1>1, <2>1 DEF Refuses, MatrixUnsupported
<1>2. CASE c.kind = "opaque"
  <2>1. KindsOfBody(KindsOf, c) = {c.form} /\ c.form \in LeafForms
    BY <1>2, LeafKinds DEF KindsOfBody, Groups
  <2>2. KindsOfBody(KindsOf, c) \cap MatrixUnsupported(t) # {} <=> c.form \in MatrixUnsupported(t)
    BY <2>1
  <2> QED BY <1>2, <2>1, <2>2 DEF Refuses, MatrixUnsupported, LeafForms
<1>3. CASE c.kind = "cmp"
  <2>1. KindsOfBody(KindsOf, c) = {ComparisonKind(c.op)} /\ c.op \in Comparisons
    BY <1>3, LeafKinds DEF KindsOfBody, Groups
  <2>2. KindsOfBody(KindsOf, c) \cap MatrixUnsupported(t) # {}
          <=> ComparisonKind(c.op) \in MatrixUnsupported(t)
    BY <2>1
  <2> QED BY <1>3, <2>1, <2>2 DEF Refuses, MatrixUnsupported, ComparisonKind, Comparisons
<1> QED BY <1>1, <1>2, <1>3, LeafKinds

(* A target compiles the conditions that hold no kind the matrix declares  *)
(* it not to support.                                                      *)
THEOREM MatrixIsTrue ==
  ASSUME NEW t \in {"flagd", "gofeatureflag"}
  PROVE  \A c \in Condition : Compiles(t)[c] <=> KindsOf[c] \cap MatrixUnsupported(t) = {}
<1> DEFINE U == MatrixUnsupported(t)
           P == {c \in Condition : Compiles(t)[c] <=> KindsOf[c] \cap U = {}}
<1>1. ASSUME NEW c \in Condition, \A d \in Parts(c) : d \in P
      PROVE  c \in P
  <2>1. Compiles(t)[c] = CompilesBody(Compiles(t), t, c) /\ KindsOf[c] = KindsOfBody(KindsOf, c)
    BY CompilesUnfolds, KindsOfUnfolds
  <2>2. "logical" \notin U /\ "negation" \notin U
    BY DEF MatrixUnsupported
  <2>3. CASE c.kind \in Groups
    <3>1. \A i \in DOMAIN c.kids : c.kids[i] \in Parts(c)
      BY <2>3 DEF Parts, Groups
    <3>2. \A i \in DOMAIN c.kids : Compiles(t)[c.kids[i]] <=> KindsOf[c.kids[i]] \cap U = {}
      BY <1>1, <3>1
    <3>3. Compiles(t)[c] <=> \A i \in DOMAIN c.kids : Compiles(t)[c.kids[i]]
      <4> DEFINE X == \A i \in DOMAIN c.kids : Compiles(t)[c.kids[i]]
      <4>1. CompilesBody(Compiles(t), t, c) = X
        BY <2>3 DEF CompilesBody, Groups
      <4> QED BY <2>1, <4>1, Zenon
    <3>4. KindsOf[c] = {"logical"} \cup UNION {KindsOf[c.kids[i]] : i \in DOMAIN c.kids}
      BY <2>1, <2>3 DEF KindsOfBody, Groups
    <3>5. KindsOf[c] \cap U = {} <=> \A i \in DOMAIN c.kids : KindsOf[c.kids[i]] \cap U = {}
      <4> HIDE DEF U
      <4> QED BY <2>2, <3>4
    <3> HIDE DEF U
    <3> QED BY <3>2, <3>3, <3>5
  <2>4. CASE c.kind = "not"
    <3>1. Compiles(t)[c.kid] <=> KindsOf[c.kid] \cap U = {}
      BY <1>1, <2>4 DEF Parts
    <3>2. Compiles(t)[c] = Compiles(t)[c.kid]
      BY <2>1, <2>4 DEF CompilesBody, Groups
    <3>3. KindsOf[c] = {"negation"} \cup KindsOf[c.kid]
      BY <2>1, <2>4 DEF KindsOfBody, Groups
    <3>4. KindsOf[c] \cap U = {} <=> KindsOf[c.kid] \cap U = {}
      <4> HIDE DEF U
      <4> QED BY <2>2, <3>3
    <3> QED BY <3>1, <3>2, <3>4
  <2>5. CASE c \in Leaves
    <3>1. Compiles(t)[c] = ~ Refuses(t, c)
      BY <2>1, <2>5, LeafKinds DEF CompilesBody, Groups
    <3>2. Refuses(t, c) <=> KindsOf[c] \cap U # {}
      BY <2>1, <2>5, LeafVerdicts
    <3> QED BY <3>1, <3>2
  <2> QED BY <2>3, <2>4, <2>5, Bounds, KindsOfTrees DEF Groups
<1> HIDE DEF P
<1>2. Condition \subseteq P
  BY <1>1, Bounds, PartwiseInduction, Zenon
<1> QED BY <1>2 DEF P

(* What is wrong with a tree ir.Validate turns down at depth n.            *)
AtFault(c, n) ==
  n + Depth[c] > MaxDepth \/ Wide[c] \/ "malformed" \in OperandsOf[c]

LEMMA GroupRejected ==
  ASSUME NEW c \in Condition, c.kind \in Groups, Len(c.kids) >= 2, NEW n \in Nat,
         \A i \in DOMAIN c.kids : ~ Valid[c.kids[i]][n + 1] => AtFault(c.kids[i], n + 1),
         ~ Valid[c][n]
  PROVE  AtFault(c, n)
<1>1. Valid[c] = ValidBody(Valid, c)
  BY ValidUnfolds
<1>2. \/ ~ (n <= MaxDepth)
      \/ Len(c.kids) \notin 2 .. MaxChildren
      \/ \E i \in DOMAIN c.kids : ~ Valid[c.kids[i]][n + 1]
  <2>1. Valid[c][n] = (/\ n <= MaxDepth
                       /\ c.kind \in {"cmp", "opaque"} => c.operands # "malformed"
                       /\ c.kind \in Groups => /\ Len(c.kids) \in 2 .. MaxChildren
                                               /\ \A i \in DOMAIN c.kids : Valid[c.kids[i]][n + 1]
                       /\ c.kind = "not" => Valid[c.kid][n + 1])
    BY <1>1 DEF ValidBody
  <2> QED BY <2>1 DEF Groups
<1>3. Depth[c] \in Nat /\ \A i \in DOMAIN c.kids : Depth[c.kids[i]] \in Nat /\ Depth[c.kids[i]] < Depth[c]
  <2>1. \A d \in Parts(c) : d \in Condition
    BY Bounds, PartsAreLower
  <2>2. \A d \in Parts(c) : Depth[d] \in Nat
    BY <2>1, DepthUnfolds
  <2>3. \A d \in Parts(c) : Depth[d] < DepthBody(Depth, c)
    BY <2>2, DepthStays
  <2>4. \A i \in DOMAIN c.kids : c.kids[i] \in Parts(c)
    BY DEF Parts, Groups
  <2> QED BY <2>2, <2>3, <2>4, DepthUnfolds
<1>4. Wide[c] <=> Len(c.kids) > MaxChildren \/ \E i \in DOMAIN c.kids : Wide[c.kids[i]]
  BY WideUnfolds DEF WideBody, Groups
<1>5. MaxDepth \in Nat /\ MaxChildren \in Nat
  BY ConditionAssumption
<1>6. CASE ~ (n <= MaxDepth)
  BY <1>3, <1>5, <1>6 DEF AtFault
<1>7. CASE Len(c.kids) \notin 2 .. MaxChildren
  <2>1. Len(c.kids) \in Nat
    <3>1. c.kids \in Seq(Condition)
      BY Closed
    <3> QED BY <3>1
  <2>2. Len(c.kids) > MaxChildren
    BY <1>5, <1>7, <2>1
  <2> QED BY <1>4, <2>2 DEF AtFault
<1>8. ASSUME NEW i \in DOMAIN c.kids, ~ Valid[c.kids[i]][n + 1]
      PROVE  AtFault(c, n)
  <2>1. AtFault(c.kids[i], n + 1)
    BY <1>8
  <2>2. CASE Wide[c.kids[i]]
    BY <1>4, <2>2 DEF AtFault
  <2>4. CASE "malformed" \in OperandsOf[c.kids[i]]
    <3>1. Within(OperandsOf, c.kids, OperandsOf[c])
      BY OperandsByShape
    <3> QED BY <2>4, <3>1 DEF AtFault, Within
  <2>3. CASE (n + 1) + Depth[c.kids[i]] > MaxDepth
    <3>1. n + Depth[c] > MaxDepth
      BY <1>3, <1>5, <2>3
    <3> QED BY <3>1 DEF AtFault
  <2> QED BY <2>1, <2>2, <2>3, <2>4 DEF AtFault
<1> QED BY <1>2, <1>6, <1>7, <1>8

LEMMA NegationRejected ==
  ASSUME NEW c \in Condition, c.kind = "not", NEW n \in Nat,
         ~ Valid[c.kid][n + 1] => AtFault(c.kid, n + 1),
         ~ Valid[c][n]
  PROVE  AtFault(c, n)
<1>1. ~ (n <= MaxDepth) \/ ~ Valid[c.kid][n + 1]
  <2>1. Valid[c] = ValidBody(Valid, c)
    BY ValidUnfolds
  <2>2. Valid[c][n] = (/\ n <= MaxDepth
                       /\ c.kind \in {"cmp", "opaque"} => c.operands # "malformed"
                       /\ c.kind \in Groups => /\ Len(c.kids) \in 2 .. MaxChildren
                                               /\ \A i \in DOMAIN c.kids : Valid[c.kids[i]][n + 1]
                       /\ c.kind = "not" => Valid[c.kid][n + 1])
    BY <2>1 DEF ValidBody
  <2> QED BY <2>2 DEF Groups
<1>2. c.kid \in Condition /\ Depth[c.kid] \in Nat /\ Depth[c] = 1 + Depth[c.kid]
  <2>1. c.kid \in Condition
    BY Closed
  <2>2. Depth[c] = DepthBody(Depth, c)
    BY DepthUnfolds
  <2> QED BY <2>1, <2>2, DepthUnfolds DEF DepthBody, Groups
<1>3. Wide[c] <=> Wide[c.kid]
  BY WideUnfolds DEF WideBody, Groups
<1>4. MaxDepth \in Nat
  BY ConditionAssumption
<1>5. OperandsOf[c] = OperandsOf[c.kid]
  BY OperandsByShape
<1> QED BY <1>1, <1>2, <1>3, <1>4, <1>5 DEF AtFault

LEMMA LeafRejected ==
  ASSUME NEW c \in Condition, c.kind \notin Groups \cup {"not"}, NEW n \in Nat, ~ Valid[c][n]
  PROVE  AtFault(c, n)
<1>1. ~ (n <= MaxDepth) \/ (c.kind \in {"cmp", "opaque"} /\ c.operands = "malformed")
  <2>1. Valid[c] = ValidBody(Valid, c)
    BY ValidUnfolds
  <2>2. Valid[c][n] = (/\ n <= MaxDepth
                       /\ c.kind \in {"cmp", "opaque"} => c.operands # "malformed"
                       /\ c.kind \in Groups => /\ Len(c.kids) \in 2 .. MaxChildren
                                               /\ \A i \in DOMAIN c.kids : Valid[c.kids[i]][n + 1]
                       /\ c.kind = "not" => Valid[c.kid][n + 1])
    BY <2>1 DEF ValidBody
  <2> QED BY <2>2
<1>2. Depth[c] \in Nat /\ MaxDepth \in Nat
  BY DepthUnfolds, ConditionAssumption
<1>3. c.kind \in {"cmp", "opaque"} => OperandsOf[c] = {c.operands}
  BY OperandsByShape
<1> QED BY <1>1, <1>2, <1>3 DEF AtFault

(* A lowered condition is turned down for its depth, its width or a leaf   *)
(* with a malformed path or literal: lowering leaves no group of fewer     *)
(* than two children.                                                      *)
THEOREM RejectedForCause ==
  \A c \in Condition : \A n \in Nat : ~ Valid[lower[c]][n] => AtFault(lower[c], n)
<1> DEFINE P == {c \in Condition : \A n \in Nat : ~ Valid[lower[c]][n] => AtFault(lower[c], n)}
<1>1. ASSUME NEW c \in Condition, \A d \in Condition : Height(d) < Height(c) => d \in P
      PROVE  c \in P
  <2>1. SUFFICES ASSUME NEW n \in Nat, ~ Valid[lower[c]][n] PROVE AtFault(lower[c], n)
    OBVIOUS
  <2>2. \A d \in Condition : Height(d) < Height(c) =>
          \A m \in Nat : ~ Valid[lower[d]][m] => AtFault(lower[d], m)
    BY <1>1
  <2> HIDE DEF P
  <2>3. lower[c] = canonical(rawCondition(lower, c)) /\ lower[c] \in Condition
    BY LowerUnfolds, Levels
  <2>4. n + 1 \in Nat
    OBVIOUS
  <2>5. CASE c.kind \in Groups
    <3> DEFINE kids == [i \in DOMAIN c.kids |-> lower[c.kids[i]]]
    <3>1. rawCondition(lower, c) = Group(c.kind, kids)
      BY <2>5 DEF rawCondition, Groups
    <3>2. \A i \in DOMAIN c.kids : c.kids[i] \in Condition /\ Height(c.kids[i]) < Height(c)
      BY <2>5, Closed
    <3>3. Len(kids) = Len(c.kids) /\ Len(kids) \in Nat \ {0} /\ DOMAIN kids = DOMAIN c.kids
          /\ DOMAIN kids = 1 .. Len(kids)
      <4>1. \A d \in Parts(c) : lower[d] \in Condition
        BY Bounds, PartsAreLower, LowerUnfolds, Levels
      <4> QED BY <2>5, <4>1, Bounds, Replaced
    <3>4. \A i \in DOMAIN kids : kids[i] = lower[c.kids[i]]
      OBVIOUS
    <3> HIDE DEF kids
    <3>5. Group(c.kind, kids).kind = c.kind /\ Group(c.kind, kids).kids = kids
      BY DEF Group
    <3>6. CASE Len(kids) = 1
      <4>1. lower[c] = kids[1] /\ 1 \in DOMAIN kids
        BY <2>3, <2>5, <3>1, <3>3, <3>5, <3>6 DEF canonical, Groups
      <4> QED BY <2>1, <2>2, <3>2, <3>3, <3>4, <4>1
    <3>7. CASE Len(kids) # 1
      <4>1. lower[c] = Group(c.kind, kids)
        BY <2>3, <2>5, <3>1, <3>5, <3>7 DEF canonical, Groups
      <4>2. Len(kids) >= 2
        BY <3>3, <3>7, MoreThanOne
      <4>3. \A i \in DOMAIN kids : ~ Valid[kids[i]][n + 1] => AtFault(kids[i], n + 1)
        BY <2>2, <2>4, <3>2, <3>3, <3>4
      <4> DEFINE d == Group(c.kind, kids)
      <4>4. /\ d \in Condition /\ d.kind \in Groups /\ Len(d.kids) >= 2 /\ ~ Valid[d][n]
            /\ \A i \in DOMAIN d.kids : ~ Valid[d.kids[i]][n + 1] => AtFault(d.kids[i], n + 1)
        BY <2>1, <2>3, <2>5, <3>5, <4>1, <4>2, <4>3
      <4> HIDE DEF d
      <4>5. AtFault(d, n)
        BY <4>4, GroupRejected
      <4> QED BY <4>1, <4>5 DEF d
    <3> QED BY <3>6, <3>7
  <2>6. CASE c.kind = "not"
    <3> DEFINE child == lower[c.kid]
    <3>1. c.kid \in Condition /\ Height(c.kid) < Height(c)
      BY <2>6, Closed
    <3>2. lower[c] = canonical(Not(child))
      BY <2>3, <2>6 DEF rawCondition, Groups
    <3>3. ~ Valid[child][n + 1] => AtFault(child, n + 1)
      BY <2>2, <2>4, <3>1
    <3> HIDE DEF child
    <3>4. Not(child).kind = "not" /\ Not(child).kid = child
      BY DEF Not
    <3>5. CASE child.kind = "const"
      <4>1. lower[c] = Const(~ child.value)
        BY <3>2, <3>4, <3>5 DEF canonical, Groups
      <4>2. lower[c].kind \notin Groups \cup {"not"}
        BY <4>1 DEF Const, Groups
      <4> QED BY <2>1, <2>3, <4>2, LeafRejected
    <3>6. CASE child.kind # "const"
      <4>1. lower[c] = Not(child)
        BY <3>2, <3>4, <3>6 DEF canonical, Groups
      <4> QED BY <2>1, <2>3, <3>3, <3>4, <4>1, NegationRejected
    <3> QED BY <3>5, <3>6
  <2>7. CASE c.kind \notin Groups \cup {"not"}
    <3>1. rawCondition(lower, c).kind \notin Groups \cup {"not"}
      BY <2>7 DEF rawCondition, Compare, Groups
    <3>2. lower[c] = rawCondition(lower, c)
      BY <2>3, <3>1 DEF canonical
    <3> QED BY <2>1, <2>3, <3>1, <3>2, LeafRejected
  <2> QED BY <2>5, <2>6, <2>7
<1> HIDE DEF P
<1>2. Condition \subseteq P
  BY <1>1, Bounds, TreeInduction, Zenon
<1> QED BY <1>2 DEF P

-----------------------------------------------------------------------------
(* The rule that decides                                                   *)

Matching(list, h) == {i \in DOMAIN list : h[list[i].if]}

LEMMA FirstMatch ==
  ASSUME NEW S, NEW list \in Seq(S), NEW h, Matching(list, h) # {}
  PROVE  /\ Min(Matching(list, h)) \in Matching(list, h)
         /\ \A i \in Matching(list, h) : Min(Matching(list, h)) <= i
<1> DEFINE M == Matching(list, h)
<1>1. M \subseteq Nat
  BY DEF Matching
<1> HIDE DEF M
<1>2. PICK d \in M : \A e \in M : ~ (e < d)
  BY <1>1, LeastNumber DEF M
<1>3. \A e \in M : d <= e
  BY <1>1, <1>2
<1>4. Min(M) \in M /\ \A e \in M : Min(M) <= e
  BY <1>2, <1>3 DEF Min
<1> QED BY <1>4 DEF M

Decides(list, h) == \E i \in DOMAIN list : h[list[i].if]
IsFirst(list, h, i) ==
  i \in DOMAIN list /\ h[list[i].if] /\ \A j \in DOMAIN list : j < i => ~ h[list[j].if]

LEMMA OneIsFirst ==
  ASSUME NEW S, NEW list \in Seq(S), NEW h, Decides(list, h)
  PROVE  \E i : IsFirst(list, h, i)
<1> DEFINE i == Min(Matching(list, h))
<1>1. Matching(list, h) # {}
  BY DEF Decides, Matching
<1>2. i \in Matching(list, h) /\ \A j \in Matching(list, h) : i <= j
  BY <1>1, FirstMatch
<1> HIDE DEF i
<1>3. i \in DOMAIN list /\ h[list[i].if]
  BY <1>2 DEF Matching
<1>4. ASSUME NEW j \in DOMAIN list, j < i PROVE ~ h[list[j].if]
  <2>1. SUFFICES ASSUME h[list[j].if] PROVE FALSE
    OBVIOUS
  <2>2. j \in Matching(list, h)
    BY <2>1 DEF Matching
  <2>3. i \in Nat /\ j \in Nat
    BY <1>3
  <2> QED BY <1>2, <1>4, <2>2, <2>3
<1> QED BY <1>3, <1>4 DEF IsFirst

LEMMA FirstChosen ==
  ASSUME NEW S, NEW list \in Seq(S), NEW h, NEW i, IsFirst(list, h, i)
  PROVE  Chosen(list, h) = list[i].action
<1>1. Matching(list, h) # {} /\ i \in Matching(list, h)
  BY DEF Matching, IsFirst
<1>2. Min(Matching(list, h)) = i
  <2> DEFINE m == Min(Matching(list, h))
  <2>1. m \in Matching(list, h) /\ m <= i
    BY <1>1, FirstMatch
  <2>2. m \in DOMAIN list /\ h[list[m].if]
    BY <2>1 DEF Matching
  <2>3. m \in Nat /\ i \in Nat /\ ~ (m < i)
    BY <2>2 DEF IsFirst
  <2> QED BY <2>1, <2>3
<1> QED BY <1>1, <1>2 DEF Chosen, Matching

LEMMA NoneChosen ==
  ASSUME NEW list, NEW h, \A j \in DOMAIN list : ~ h[list[j].if]
  PROVE  Chosen(list, h) = Default
BY DEF Chosen

(* Lists whose rules match alike and serve the same choose the same.       *)
Alike(other, g, list, h) ==
  /\ DOMAIN other = DOMAIN list
  /\ \A i \in DOMAIN list : /\ other[i].action = list[i].action
                            /\ g[other[i].if] = h[list[i].if]

LEMMA ChosenAlike ==
  ASSUME NEW S, NEW list \in Seq(S), NEW h, NEW other, NEW g, Alike(other, g, list, h)
  PROVE  Chosen(other, g) = Chosen(list, h)
<1>0. /\ DOMAIN other = DOMAIN list
      /\ \A i \in DOMAIN list : other[i].action = list[i].action
      /\ \A i \in DOMAIN list : g[other[i].if] = h[list[i].if]
  BY DEF Alike
<1>1. Matching(list, h) = Matching(other, g)
  BY <1>0 DEF Matching
<1>2. CASE Matching(list, h) = {}
  BY <1>1, <1>2 DEF Chosen, Matching
<1>3. CASE Matching(list, h) # {}
  <2>1. Min(Matching(list, h)) \in DOMAIN list
    BY <1>3, FirstMatch DEF Matching
  <2>2. Chosen(list, h) = list[Min(Matching(list, h))].action
    BY <1>3, Zenon DEF Chosen, Matching
  <2>3. Chosen(other, g) = other[Min(Matching(list, h))].action
    BY <1>1, <1>3, Zenon DEF Chosen, Matching
  <2> QED BY <1>0, <2>1, <2>2, <2>3
<1> QED BY <1>2, <1>3

(* The rules in front decide, when one of them matches.                    *)
Ahead(s, t, h) ==
  /\ Decides(s, h) => Chosen(s \o t, h) = Chosen(s, h)
  /\ ~ Decides(s, h) => Chosen(s \o t, h) = Chosen(t, h)
  /\ Decides(s \o t, h) <=> Decides(s, h) \/ Decides(t, h)

LEMMA ChosenOfBoth ==
  ASSUME NEW S, NEW s \in Seq(S), NEW t \in Seq(S), NEW h
  PROVE  Ahead(s, t, h)
<1>1. /\ s \o t \in Seq(S)
      /\ Len(s) \in Nat /\ Len(t) \in Nat
      /\ DOMAIN s = 1 .. Len(s) /\ DOMAIN t = 1 .. Len(t)
      /\ DOMAIN (s \o t) = 1 .. Len(s) + Len(t)
      /\ \A i \in 1 .. Len(s) : (s \o t)[i] = s[i]
      /\ \A i \in 1 .. Len(t) : (s \o t)[Len(s) + i] = t[i]
      /\ \A i \in 1 .. Len(s) + Len(t) : i \notin 1 .. Len(s) => i - Len(s) \in 1 .. Len(t)
                                               /\ (s \o t)[i] = t[i - Len(s)]
  OBVIOUS
<1> DEFINE st == s \o t
           m == Len(s)
           n == Len(t)
<1> HIDE DEF st, m, n
<1>2. /\ st \in Seq(S) /\ m \in Nat /\ n \in Nat
      /\ DOMAIN s = 1 .. m /\ DOMAIN t = 1 .. n /\ DOMAIN st = 1 .. m + n
      /\ \A i \in 1 .. m : st[i] = s[i]
      /\ \A i \in 1 .. n : st[m + i] = t[i]
      /\ \A i \in 1 .. m + n : i \notin 1 .. m => i - m \in 1 .. n /\ st[i] = t[i - m]
  BY <1>1 DEF st, m, n
<1>3. CASE Decides(s, h)
  <2>1. PICK i : IsFirst(s, h, i)
    BY <1>3, OneIsFirst, Zenon
  <2>11. i \in 1 .. m /\ h[s[i].if] /\ \A j \in 1 .. m : j < i => ~ h[s[j].if]
    BY <1>2, <2>1 DEF IsFirst
  <2>2. Chosen(s, h) = s[i].action
    BY <2>1, FirstChosen, Zenon
  <2>3. i \in DOMAIN st /\ st[i] = s[i] /\ \A j \in DOMAIN st : j < i => j \in 1 .. m
    BY <1>2, <2>11
  <2>4. Chosen(st, h) = s[i].action
    <3>1. \A j \in DOMAIN st : j < i => ~ h[st[j].if]
      BY <1>2, <2>11, <2>3
    <3>2. h[st[i].if]
      BY <2>11, <2>3
    <3>3. IsFirst(st, h, i)
      BY <2>3, <3>1, <3>2 DEF IsFirst
    <3>4. Chosen(st, h) = st[i].action
      BY <1>2, <3>3, FirstChosen, Zenon
    <3> QED BY <2>3, <3>4
  <2>5. Decides(st, h)
    BY <2>11, <2>3 DEF Decides
  <2> QED BY <1>3, <2>2, <2>4, <2>5 DEF st, Ahead
<1>4. CASE ~ Decides(s, h) /\ ~ Decides(t, h)
  <2>1. \A j \in DOMAIN t : ~ h[t[j].if]
    BY <1>4 DEF Decides
  <2>2. \A j \in DOMAIN st : ~ h[st[j].if]
    BY <1>2, <1>4 DEF Decides
  <2>3. Chosen(st, h) = Default /\ Chosen(t, h) = Default
    BY <2>1, <2>2, NoneChosen
  <2>4. ~ Decides(st, h)
    BY <2>2 DEF Decides
  <2> QED BY <1>4, <2>3, <2>4 DEF st, Ahead
<1>5. CASE ~ Decides(s, h) /\ Decides(t, h)
  <2>0. \A j \in 1 .. m : ~ h[s[j].if]
    BY <1>2, <1>5 DEF Decides
  <2>1. PICK i : IsFirst(t, h, i)
    BY <1>5, OneIsFirst, Zenon
  <2>11. i \in 1 .. n /\ h[t[i].if] /\ \A j \in 1 .. n : j < i => ~ h[t[j].if]
    BY <1>2, <2>1 DEF IsFirst
  <2>2. Chosen(t, h) = t[i].action
    BY <2>1, FirstChosen, Zenon
  <2>3. m + i \in DOMAIN st /\ st[m + i] = t[i]
    BY <1>2, <2>11
  <2>4. ASSUME NEW j \in DOMAIN st, j < m + i PROVE ~ h[st[j].if]
    <3>1. CASE j \in 1 .. m
      BY <1>2, <2>0, <3>1
    <3>2. CASE j \notin 1 .. m
      <4>1. j - m \in 1 .. n /\ st[j] = t[j - m] /\ j - m < i
        BY <1>2, <2>11, <2>4, <3>2
      <4> QED BY <2>11, <4>1
    <3> QED BY <3>1, <3>2
  <2>5. Chosen(st, h) = t[i].action
    <3>1. h[st[m + i].if]
      BY <2>11, <2>3
    <3>2. IsFirst(st, h, m + i)
      BY <2>3, <2>4, <3>1 DEF IsFirst
    <3>3. Chosen(st, h) = st[m + i].action
      <4> DEFINE k == m + i
      <4>1. IsFirst(st, h, k)
        BY <3>2
      <4> HIDE DEF k
      <4>2. Chosen(st, h) = st[k].action
        BY <1>2, <4>1, FirstChosen, Zenon
      <4> QED BY <4>2 DEF k
    <3> QED BY <2>3, <3>3
  <2>6. Decides(st, h)
    BY <2>11, <2>3 DEF Decides
  <2> QED BY <1>5, <2>2, <2>5, <2>6 DEF st, Ahead
<1> QED BY <1>3, <1>4, <1>5

LEMMA ChosenOfOne ==
  ASSUME NEW S, NEW r \in S, NEW h
  PROVE  /\ <<r>> \in Seq(S)
         /\ Decides(<<r>>, h) <=> h[r.if]
         /\ h[r.if] => Chosen(<<r>>, h) = r.action
<1>1. <<r>> \in Seq(S) /\ DOMAIN <<r>> = {1} /\ <<r>>[1] = r
  OBVIOUS
<1>2. Decides(<<r>>, h) <=> h[r.if]
  BY <1>1 DEF Decides
<1>3. ASSUME h[r.if] PROVE Chosen(<<r>>, h) = r.action
  <2>1. IsFirst(<<r>>, h, 1)
    BY <1>1, <1>3 DEF IsFirst
  <2>2. Chosen(<<r>>, h) = <<r>>[1].action
    BY <1>1, <2>1, FirstChosen, Zenon
  <2> QED BY <1>1, <2>2
<1> QED BY <1>1, <1>2, <1>3

(* A list with a rule in the place of another, or without it.              *)
InPlaceOf(r, e, h) == r.action = e.action /\ (h[r.if] <=> h[e.if])

LEMMA OneRuleOn ==
  ASSUME NEW S, NEW s \in Seq(S), NEW t \in Seq(S), NEW u \in Seq(S), NEW e \in S, NEW r \in S, NEW h,
         InPlaceOf(r, e, h), h[e.if] \/ u = t
  PROVE  /\ Append(s, r) \in Seq(S)
         /\ Chosen(Append(s, r) \o u, h) = Chosen(s \o (<<e>> \o t), h)
         /\ ~ h[e.if] => Chosen(s \o t, h) = Chosen(s \o (<<e>> \o t), h)
<1>0. r.action = e.action /\ (h[r.if] <=> h[e.if])
  BY DEF InPlaceOf
<1>1. <<e>> \in Seq(S) /\ <<r>> \in Seq(S) /\ <<e>> \o t \in Seq(S)
  OBVIOUS
<1>2. Append(s, r) = s \o <<r>> /\ s \o <<r>> \in Seq(S)
  OBVIOUS
<1>3. /\ h[e.if] => Chosen(<<e>> \o t, h) = e.action
      /\ ~ h[e.if] => Chosen(<<e>> \o t, h) = Chosen(t, h)
  <2>1. Ahead(<<e>>, t, h)
    BY <1>1, ChosenOfBoth, Zenon
  <2>2. Decides(<<e>>, h) <=> h[e.if]
    BY ChosenOfOne, Zenon
  <2>3. h[e.if] => Chosen(<<e>>, h) = e.action
    BY ChosenOfOne, Zenon
  <2> QED BY <2>1, <2>2, <2>3, Zenon DEF Ahead
<1>4. Ahead(s, <<e>> \o t, h) /\ Ahead(s, t, h) /\ Ahead(s, <<r>>, h)
  BY <1>1, ChosenOfBoth, Zenon
<1>7. Decides(s \o <<r>>, h) <=> Decides(s, h) \/ h[r.if]
  <2>1. Decides(<<r>>, h) <=> h[r.if]
    BY ChosenOfOne, Zenon
  <2> QED BY <1>4, <2>1, Zenon DEF Ahead
<1>8. Ahead(s \o <<r>>, u, h)
  BY <1>2, ChosenOfBoth, Zenon
<1>9. h[r.if] => Chosen(<<r>>, h) = r.action
  BY ChosenOfOne, Zenon
<1>10. Append(s, r) \in Seq(S)
  OBVIOUS
<1>11. Chosen((s \o <<r>>) \o u, h) = Chosen(s \o (<<e>> \o t), h)
  BY <1>0, <1>3, <1>4, <1>7, <1>8, <1>9, Zenon DEF Ahead
<1>12. ~ h[e.if] => Chosen(s \o t, h) = Chosen(s \o (<<e>> \o t), h)
  BY <1>3, <1>4, Zenon DEF Ahead
<1> QED BY <1>2, <1>10, <1>11, <1>12

LEMMA RuleKept ==
  ASSUME NEW S, NEW s \in Seq(S), NEW t \in Seq(S), NEW e \in S, NEW r \in S, NEW h,
         InPlaceOf(r, e, h)
  PROVE  Chosen(Append(s, r) \o t, h) = Chosen(s \o (<<e>> \o t), h)
BY OneRuleOn

LEMMA RuleDecides ==
  ASSUME NEW S, NEW s \in Seq(S), NEW t \in Seq(S), NEW u \in Seq(S), NEW e \in S, NEW r \in S, NEW h,
         InPlaceOf(r, e, h), h[e.if]
  PROVE  Chosen(Append(s, r) \o u, h) = Chosen(s \o (<<e>> \o t), h)
BY OneRuleOn

LEMMA RuleDropped ==
  ASSUME NEW S, NEW s \in Seq(S), NEW t \in Seq(S), NEW e \in S, NEW h, ~ h[e.if]
  PROVE  Chosen(s \o t, h) = Chosen(s \o (<<e>> \o t), h)
<1>1. InPlaceOf(e, e, h)
  BY DEF InPlaceOf
<1> QED BY <1>1, OneRuleOn

(* What is left of a list from a rule on.                                  *)
LEMMA RestOf ==
  ASSUME NEW S, NEW s \in Seq(S), NEW k \in 1 .. Len(s) + 1
  PROVE  /\ SubSeq(s, k, Len(s)) \in Seq(S)
         /\ k = Len(s) + 1 => SubSeq(s, k, Len(s)) = <<>>
         /\ SubSeq(s, 1, Len(s)) = s
         /\ k <= Len(s) => /\ s[k] \in S
                           /\ SubSeq(s, k, Len(s)) = <<s[k]>> \o SubSeq(s, k + 1, Len(s))
<1> DEFINE n == Len(s)
<1>0. n \in Nat /\ DOMAIN s = 1 .. n /\ \A i \in 1 .. n : s[i] \in S
  OBVIOUS
<1>1. ASSUME NEW m \in 1 .. n + 1
      PROVE  /\ SubSeq(s, m, n) \in Seq(S)
             /\ Len(SubSeq(s, m, n)) = n + 1 - m
             /\ \A i \in 1 .. n + 1 - m : SubSeq(s, m, n)[i] = s[m + i - 1]
  <2>1. m \in Int /\ n \in Int /\ \A j \in m .. n : s[j] \in S
    BY <1>0
  <2>2. /\ SubSeq(s, m, n) \in Seq(S)
        /\ Len(SubSeq(s, m, n)) = IF m <= n THEN n - m + 1 ELSE 0
        /\ \A i \in 1 .. n - m + 1 : SubSeq(s, m, n)[i] = s[m + i - 1]
    BY <2>1, SubSeqProperties
  <2> HIDE DEF n
  <2>3. n - m + 1 = n + 1 - m /\ (m <= n \/ n + 1 - m = 0)
    BY <1>0
  <2>4. \A i \in 1 .. n + 1 - m : SubSeq(s, m, n)[i] = s[m + i - 1]
    BY <2>2, <2>3
  <2>5. Len(SubSeq(s, m, n)) = n + 1 - m
    BY <2>2, <2>3
  <2> QED BY <2>2, <2>4, <2>5
<1> HIDE DEF n
<1>2. k \in 1 .. n + 1
  BY DEF n
<1>3. SubSeq(s, k, n) \in Seq(S)
  BY <1>1, <1>2
<1>4. k = n + 1 => SubSeq(s, k, n) = <<>>
  <2>1. SUFFICES ASSUME k = n + 1 PROVE SubSeq(s, k, n) = <<>>
    OBVIOUS
  <2>2. Len(SubSeq(s, k, n)) = 0
    BY <1>0, <1>1, <1>2, <2>1
  <2> QED BY <1>3, <2>2
<1>5. SubSeq(s, 1, n) = s
  <2>1. 1 \in 1 .. n + 1 /\ n + 1 - 1 = n
    BY <1>0
  <2>2. /\ SubSeq(s, 1, n) \in Seq(S) /\ Len(SubSeq(s, 1, n)) = n
        /\ \A i \in 1 .. n : SubSeq(s, 1, n)[i] = s[1 + i - 1]
    BY <1>1, <2>1
  <2>3. \A i \in 1 .. n : SubSeq(s, 1, n)[i] = s[i]
    BY <1>0, <2>2
  <2> DEFINE t == SubSeq(s, 1, n)
  <2>4. t \in Seq(S) /\ Len(t) = Len(s) /\ \A i \in 1 .. Len(t) : t[i] = s[i]
    BY <2>2, <2>3 DEF n
  <2> HIDE DEF t
  <2>5. t = s
    BY <2>4, SeqEqual
  <2> QED BY <2>5 DEF t
<1>6. ASSUME k <= n
      PROVE  s[k] \in S /\ SubSeq(s, k, n) = <<s[k]>> \o SubSeq(s, k + 1, n)
  <2>1. k \in 1 .. n /\ k + 1 \in 1 .. n + 1
    BY <1>0, <1>2, <1>6
  <2> DEFINE a == SubSeq(s, k, n)
             b == SubSeq(s, k + 1, n)
             c == <<s[k]>> \o b
  <2>2. /\ a \in Seq(S) /\ Len(a) = n + 1 - k
        /\ \A i \in 1 .. n + 1 - k : a[i] = s[k + i - 1]
    BY <1>1, <1>2
  <2>3. /\ b \in Seq(S) /\ Len(b) = n + 1 - (k + 1)
        /\ \A i \in 1 .. n + 1 - (k + 1) : b[i] = s[(k + 1) + i - 1]
    BY <1>1, <2>1
  <2>4. s[k] \in S
    BY <1>0, <2>1
  <2> HIDE DEF a, b
  <2>5. c \in Seq(S) /\ Len(c) = Len(b) + 1 /\ c[1] = s[k]
        /\ \A i \in 2 .. Len(b) + 1 : c[i] = b[i - 1]
    BY <2>3, <2>4
  <2> HIDE DEF c
  <2>6. Len(c) = n + 1 - k
    BY <1>0, <2>1, <2>3, <2>5
  <2>7. ASSUME NEW i \in 1 .. n + 1 - k PROVE c[i] = a[i]
    <3>1. CASE i = 1
      <4>1. k + i - 1 = k
        BY <2>1, <3>1
      <4> QED BY <2>2, <2>5, <3>1, <4>1
    <3>2. CASE i # 1
      <4>1. i - 1 \in 1 .. n + 1 - (k + 1) /\ (k + 1) + (i - 1) - 1 = k + i - 1
            /\ i \in 2 .. Len(b) + 1
        BY <1>0, <2>1, <2>3, <3>2
      <4>2. b[i - 1] = s[k + i - 1]
        BY <2>3, <4>1
      <4> QED BY <2>2, <2>5, <4>1, <4>2
    <3> QED BY <3>1, <3>2
  <2>8. a = c
    BY <2>2, <2>5, <2>6, <2>7, SeqEqual
  <2> QED BY <2>4, <2>8 DEF a, b, c
<1> QED BY <1>3, <1>4, <1>5, <1>6 DEF n

-----------------------------------------------------------------------------
(* The inductive invariant                                                 *)

RuleOf(S) == [if : S, action : Actions]
Rest == SubSeq(source.rules, at, Len(source.rules))
Asked(ctx) == Chosen(source.rules, Meaning(ctx))
Translation(r) == [r EXCEPT !.if = Compiled[@]]

(* How far the rules of the target lag behind: flagd has the last ones.    *)
Offset == IF target = "flagd" THEN Len(rules) - Len(compiled) ELSE 0

(* The lists hold rules; nothing is compiled before its turn.              *)
WellTyped ==
  /\ rules \in Seq(RuleOf(Condition))
  /\ compiled \in Seq(RuleOf(Expression))
  /\ phase \in {"normalize", "lower", "unlowered", "validate", "invalid"} => compiled = <<>>

(* While the loop goes on over a base list, no rule kept always matches.   *)
StillOpen ==
  phase = "normalize" /\ ~ source.scheduled /\ at <= Len(source.rules) =>
    \A i \in DOMAIN rules : ~ IsConst(rules[i].if, TRUE)

(* The rules in hand, with those still to come, choose what was asked for, *)
(* up to lowering by what they mean and from there as evaluated.           *)
ChoiceKept ==
  \A ctx \in Contexts :
    /\ phase = "normalize" => Chosen(rules \o Rest, Meaning(ctx)) = Asked(ctx)
    /\ phase = "lower" => Chosen(rules, Meaning(ctx)) = Asked(ctx)
    /\ phase \notin {"normalize", "lower", "unlowered"} =>
         Chosen(rules, Evaluate(ctx)) = Asked(ctx)

(* What ir.Validate and the compilers see was made by lowering.            *)
AllLowered ==
  phase \notin {"normalize", "lower", "unlowered"} =>
    \A i \in DOMAIN rules : \E c \in Condition : rules[i].if = lower[c]

(* The leaves of a rule are those of a rule the author wrote.              *)
Comes(if, list) == \E j \in DOMAIN list : OperandsOf[if] \subseteq OperandsOf[list[j].if]
Written == \A i \in DOMAIN rules : Comes(rules[i].if, source.rules)

(* An evaluation was turned down for one of its rules, or their number.    *)
TurnedDown ==
  /\ phase = "unlowered" => \E i \in DOMAIN rules : ~ Lowers(rules[i].if)
  /\ phase = "invalid" =>
       Len(rules) > RulesMax \/ \E i \in DOMAIN rules : ~ Valid[rules[i].if][0]

(* Each rule compiled so far is the translation of the one in its place,   *)
(* which the target supports.                                              *)
InStep ==
  phase \in {"compile", "unsupported", "compiled"} =>
    \A i \in DOMAIN compiled : /\ Offset + i \in DOMAIN rules
                               /\ compiled[i] = Translation(rules[Offset + i])
                               /\ Compiles(target)[rules[Offset + i].if]

(* A target refuses an evaluation for one of its rules, or compiles all.   *)
Settled ==
  /\ phase = "unsupported" => \E i \in DOMAIN rules : ~ Compiles(target)[rules[i].if]
  /\ phase = "compiled" => Len(compiled) = Len(rules)

PipelineInv ==
  /\ TypeOK /\ WellTyped /\ NormalForm /\ StillOpen
  /\ ChoiceKept /\ AllLowered /\ Written /\ TurnedDown /\ InStep /\ Settled

LEMMA SourceTyped ==
  ASSUME TypeOK
  PROVE  /\ source.rules \in Seq(RuleOf(Condition)) /\ source.scheduled \in BOOLEAN
         /\ Len(source.rules) \in Nat /\ DOMAIN source.rules = 1 .. Len(source.rules)
         /\ at \in Nat
         /\ at <= Len(source.rules) =>
              /\ source.rules[at] \in RuleOf(Condition)
              /\ source.rules[at].if \in Condition /\ source.rules[at].action \in Actions
<1>1. source.rules \in Seq(RuleOf(Condition)) /\ source.scheduled \in BOOLEAN
  BY PipelineAssumption DEF TypeOK, RuleOf
<1>2. Len(source.rules) \in Nat /\ DOMAIN source.rules = 1 .. Len(source.rules)
  BY <1>1
<1>3. at \in Nat /\ at >= 1
  BY <1>2 DEF TypeOK
<1>4. ASSUME at <= Len(source.rules) PROVE source.rules[at] \in RuleOf(Condition)
  <2>1. at \in DOMAIN source.rules
    BY <1>2, <1>3, <1>4
  <2> QED BY <1>1, <2>1
<1>5. \A e \in RuleOf(Condition) : e.if \in Condition /\ e.action \in Actions
  BY DEF RuleOf
<1> QED BY <1>1, <1>2, <1>3, <1>4, <1>5

LEMMA ContextTyped ==
  \A ctx \in Contexts : ctx \in Context
BY PipelineAssumption

LEMMA EmptyList ==
  ASSUME NEW S, NEW s \in Seq(S)
  PROVE  <<>> \o s = s /\ s \o <<>> = s /\ Len(s) \in Nat /\ DOMAIN s = 1 .. Len(s)
         /\ <<>> \in Seq(S) /\ Len(<<>>) = 0 /\ DOMAIN <<>> = {}
OBVIOUS

LEMMA OneMore ==
  \A n \in Nat : \A i \in 1 .. n + 1 : i \in 1 .. n \/ i = n + 1
OBVIOUS

LEMMA InitEstablishes ==
  ASSUME Init
  PROVE  PipelineInv
<1>1. TypeOK
  BY PipelineAssumption DEF Init, TypeOK
<1>2. source.rules \in Seq(RuleOf(Condition)) /\ Len(source.rules) \in Nat
  BY <1>1, SourceTyped
<1>3. WellTyped
  BY DEF Init, WellTyped
<1>4. NormalForm /\ StillOpen
  BY DEF Init, NormalForm, StillOpen
<1>5. ChoiceKept
  <2>1. Rest = source.rules
    <3>1. 1 \in 1 .. Len(source.rules) + 1
      BY <1>2
    <3> QED BY <1>2, <3>1, RestOf DEF Rest, Init
  <2>2. rules \o Rest = source.rules
    BY <1>2, <2>1, EmptyList DEF Init
  <2> QED BY <2>2 DEF ChoiceKept, Asked, Init
<1>6. AllLowered /\ Written /\ TurnedDown /\ InStep /\ Settled
  BY DEF Init, AllLowered, Written, TurnedDown, InStep, Settled
<1> QED BY <1>1, <1>3, <1>4, <1>5, <1>6 DEF PipelineInv

(* The entry the loop is at and the rule it may become.                    *)
LEMMA EntryTyped ==
  ASSUME TypeOK, AtEntry
  PROVE  LET e == source.rules[at]
             r == [if |-> Simplified, action |-> e.action]
             next == SubSeq(source.rules, at + 1, Len(source.rules))
         IN /\ e \in RuleOf(Condition) /\ r \in RuleOf(Condition)
            /\ Rest \in Seq(RuleOf(Condition)) /\ next \in Seq(RuleOf(Condition))
            /\ Rest = <<e>> \o next
            /\ Simplified \in Condition /\ Normal[Simplified]
            /\ \A ctx \in Contexts : Meaning(ctx)[Simplified] = Meaning(ctx)[e.if]
<1> DEFINE e == source.rules[at]
           next == SubSeq(source.rules, at + 1, Len(source.rules))
<1>1. /\ source.rules \in Seq(RuleOf(Condition)) /\ Len(source.rules) \in Nat /\ at \in Nat
      /\ e \in RuleOf(Condition) /\ e.if \in Condition /\ e.action \in Actions
  BY SourceTyped DEF AtEntry
<1>2. at \in 1 .. Len(source.rules) + 1 /\ at + 1 \in 1 .. Len(source.rules) + 1 /\ at <= Len(source.rules)
  BY <1>1 DEF AtEntry, TypeOK
<1>3. Rest \in Seq(RuleOf(Condition)) /\ next \in Seq(RuleOf(Condition)) /\ Rest = <<e>> \o next
  <2> DEFINE S == RuleOf(Condition)
  <2> HIDE DEF S
  <2>1. source.rules \in Seq(S)
    BY <1>1 DEF S
  <2>2. Rest \in Seq(S) /\ next \in Seq(S) /\ Rest = <<e>> \o next
    BY <1>2, <2>1, RestOf DEF Rest
  <2> QED BY <2>2 DEF S
<1>4. Simplified = simplify[e.if]
  BY DEF Simplified
<1>5. Simplified \in Condition /\ Normal[Simplified]
  BY <1>1, <1>4, SimplifyUnfolds, Levels, SimplifiedIsNormal
<1>6. \A ctx \in Contexts : Meaning(ctx)[Simplified] = Meaning(ctx)[e.if]
  BY <1>1, <1>4, SimplifyingIsFaithful, ContextTyped
<1>7. [if |-> Simplified, action |-> e.action] \in RuleOf(Condition)
  BY <1>1, <1>5 DEF RuleOf
<1> QED BY <1>1, <1>3, <1>5, <1>6, <1>7

LEMMA DropEntryKeeps ==
  ASSUME PipelineInv, DropEntry
  PROVE  PipelineInv'
<1> DEFINE e == source.rules[at]
           next == SubSeq(source.rules, at + 1, Len(source.rules))
<1>0. TypeOK /\ AtEntry /\ IsConst(Simplified, FALSE) /\ at' = at + 1
      /\ UNCHANGED <<source, target, phase, rules, compiled>>
  BY DEF PipelineInv, DropEntry
<1>1. TypeOK'
  BY <1>0, SourceTyped DEF TypeOK, AtEntry
<1>2. WellTyped' /\ NormalForm'
  BY <1>0 DEF PipelineInv, WellTyped, NormalForm
<1>3. StillOpen'
  BY <1>0, SourceTyped DEF PipelineInv, StillOpen, AtEntry
<1>4. ChoiceKept'
  <2>1. SUFFICES ASSUME NEW ctx \in Contexts
                 PROVE  Chosen(rules \o next, Meaning(ctx)) = Asked(ctx)
    BY <1>0 DEF ChoiceKept, AtEntry, Rest, Asked
  <2>2. Chosen(rules \o Rest, Meaning(ctx)) = Asked(ctx)
    BY <1>0 DEF PipelineInv, ChoiceKept, AtEntry
  <2>3. /\ e \in RuleOf(Condition) /\ next \in Seq(RuleOf(Condition)) /\ Rest = <<e>> \o next
        /\ Simplified \in Condition /\ Meaning(ctx)[Simplified] = Meaning(ctx)[e.if]
    BY <1>0, EntryTyped
  <2>4. ~ Meaning(ctx)[e.if]
    <3>1. Meaning(ctx)[Simplified] = FALSE
      BY <1>0, <2>3, ContextTyped, MeaningCases DEF IsConst
    <3> QED BY <2>3, <3>1
  <2>5. rules \in Seq(RuleOf(Condition))
    BY DEF PipelineInv, WellTyped
  <2> DEFINE h == Meaning(ctx)
             S == RuleOf(Condition)
  <2>6. e \in S /\ next \in Seq(S) /\ rules \in Seq(S) /\ ~ h[e.if]
    BY <2>3, <2>4, <2>5
  <2> HIDE DEF e, next, h, S
  <2>7. Chosen(rules \o next, h) = Chosen(rules \o (<<e>> \o next), h)
    BY <2>6, RuleDropped
  <2> QED BY <2>2, <2>3, <2>7 DEF h
<1>5. AllLowered' /\ Written' /\ TurnedDown' /\ InStep' /\ Settled'
  BY <1>0 DEF PipelineInv, AllLowered, Written, TurnedDown, InStep, Settled, Offset, AtEntry
<1> QED BY <1>1, <1>2, <1>3, <1>4, <1>5 DEF PipelineInv

LEMMA KeepEntryKeeps ==
  ASSUME PipelineInv, KeepEntry
  PROVE  PipelineInv'
<1> DEFINE e == source.rules[at]
           r == [if |-> Simplified, action |-> e.action]
           next == SubSeq(source.rules, at + 1, Len(source.rules))
           always == IsConst(Simplified, TRUE) /\ ~ source.scheduled
<1>0. /\ TypeOK /\ AtEntry /\ ~ IsConst(Simplified, FALSE)
      /\ rules' = Append(rules, r)
      /\ at' = IF always THEN Len(source.rules) + 1 ELSE at + 1
      /\ UNCHANGED <<source, target, phase, compiled>>
  BY DEF PipelineInv, KeepEntry
<1>1. /\ e \in RuleOf(Condition) /\ r \in RuleOf(Condition)
      /\ Rest \in Seq(RuleOf(Condition)) /\ next \in Seq(RuleOf(Condition)) /\ Rest = <<e>> \o next
      /\ Simplified \in Condition /\ Normal[Simplified]
      /\ \A ctx \in Contexts : Meaning(ctx)[Simplified] = Meaning(ctx)[e.if]
  BY <1>0, EntryTyped
<1>2. /\ source.rules \in Seq(RuleOf(Condition)) /\ source.scheduled \in BOOLEAN
      /\ Len(source.rules) \in Nat /\ at \in Nat /\ at <= Len(source.rules) /\ at >= 1
  BY <1>0, SourceTyped DEF AtEntry, TypeOK
<1>3. rules \in Seq(RuleOf(Condition)) /\ compiled = <<>> /\ phase = "normalize"
  BY <1>0 DEF PipelineInv, WellTyped, AtEntry
<1>8. r.if = Simplified /\ r.action = e.action
  OBVIOUS
<1> HIDE DEF e, next, always, r
<1>4. /\ rules' \in Seq(RuleOf(Condition)) /\ Len(rules') = Len(rules) + 1 /\ Len(rules) \in Nat
      /\ DOMAIN rules = 1 .. Len(rules) /\ DOMAIN rules' = 1 .. Len(rules) + 1
      /\ \A i \in 1 .. Len(rules) : rules'[i] = rules[i]
      /\ rules'[Len(rules) + 1] = r
  <2> DEFINE S == RuleOf(Condition)
  <2>1. rules \in Seq(S) /\ r \in S
    BY <1>1, <1>3
  <2> HIDE DEF S
  <2> QED BY <1>0, <2>1 DEF S
<1>14. \A i \in DOMAIN rules' : i \in 1 .. Len(rules) \/ i = Len(rules) + 1
  BY <1>4, OneMore
<1>5. /\ at' \in 1 .. Len(source.rules) + 1 /\ at + 1 <= at'
      /\ (~ always => at' = at + 1) /\ (always => at' = Len(source.rules) + 1)
  BY <1>0, <1>2
<1>6. TypeOK'
  <2>1. Len(rules) < at /\ Len(compiled) = 0
    BY <1>0, <1>3 DEF TypeOK
  <2>2. Len(rules') < at'
    BY <1>2, <1>4, <1>5, <2>1
  <2>3. Len(compiled') <= Len(rules')
    BY <1>0, <1>4, <2>1
  <2> QED BY <1>0, <1>5, <2>2, <2>3 DEF TypeOK
<1>7. WellTyped'
  BY <1>0, <1>3, <1>4 DEF WellTyped, PipelineInv
<1>9. StillOpen
  BY DEF PipelineInv
<1>10. NormalForm'
  <2>1. \A i \in 1 .. Len(rules) : Normal[rules[i].if] /\ ~ IsConst(rules[i].if, FALSE)
    BY <1>3, <1>4 DEF PipelineInv, NormalForm
  <2>2. ASSUME NEW i \in DOMAIN rules' PROVE Normal[rules'[i].if] /\ ~ IsConst(rules'[i].if, FALSE)
    <3>1. CASE i \in 1 .. Len(rules)
      BY <1>4, <2>1, <3>1
    <3>2. CASE i = Len(rules) + 1
      BY <1>0, <1>1, <1>4, <1>8, <3>2
    <3> QED BY <1>14, <3>1, <3>2
  <2>3. ASSUME ~ source.scheduled, NEW i \in 1 .. Len(rules') - 1
        PROVE  ~ IsConst(rules'[i].if, TRUE)
    <3>1. i \in 1 .. Len(rules)
      BY <1>4
    <3>2. ~ IsConst(rules[i].if, TRUE)
      BY <1>2, <1>3, <1>4, <1>9, <2>3, <3>1 DEF StillOpen
    <3> QED BY <1>4, <3>1, <3>2
  <2> QED BY <1>0, <2>2, <2>3 DEF NormalForm
<1>11. StillOpen'
  <2>1. SUFFICES ASSUME ~ source.scheduled, at' <= Len(source.rules), NEW i \in DOMAIN rules'
                 PROVE  ~ IsConst(rules'[i].if, TRUE)
    BY <1>0 DEF StillOpen
  <2>2. ~ always
    BY <1>2, <1>5, <2>1
  <2>3. CASE i \in 1 .. Len(rules)
    <3>1. ~ IsConst(rules[i].if, TRUE)
      BY <1>2, <1>3, <1>4, <1>9, <2>1, <2>3 DEF StillOpen
    <3> QED BY <1>4, <2>3, <3>1
  <2>4. CASE i = Len(rules) + 1
    BY <1>4, <1>8, <2>1, <2>2, <2>4 DEF always
  <2> QED BY <1>14, <2>1, <2>3, <2>4
<1>12. ChoiceKept'
  <2>1. SUFFICES ASSUME NEW ctx \in Contexts
                 PROVE  Chosen(rules' \o Rest', Meaning(ctx)) = Asked(ctx)
    BY <1>0, <1>3 DEF ChoiceKept, Asked
  <2>2. Chosen(rules \o Rest, Meaning(ctx)) = Asked(ctx)
    BY <1>3 DEF PipelineInv, ChoiceKept
  <2> DEFINE h == Meaning(ctx)
             S == RuleOf(Condition)
             u == Rest'
  <2>3. u = SubSeq(source.rules, at', Len(source.rules))
    BY <1>0 DEF Rest
  <2>4. u \in Seq(S)
    <3>1. \A k \in 1 .. Len(source.rules) + 1 : SubSeq(source.rules, k, Len(source.rules)) \in Seq(S)
      <4> HIDE DEF S
      <4>1. source.rules \in Seq(S)
        BY <1>2 DEF S
      <4> QED BY <4>1, RestOf
    <3> QED BY <1>5, <2>3, <3>1
  <2>5. h[e.if] \/ u = next
    <3>1. CASE always
      <4>1. Meaning(ctx)[Simplified] = TRUE
        BY <1>1, <3>1, ContextTyped, MeaningCases DEF IsConst, always
      <4> QED BY <1>1, <4>1
    <3>2. CASE ~ always
      BY <1>5, <2>3, <3>2 DEF next
    <3> QED BY <3>1, <3>2
  <2>6. h[r.if] <=> h[e.if]
    BY <1>1, <1>8
  <2>7. rules \in Seq(S) /\ next \in Seq(S) /\ e \in S /\ r \in S
    BY <1>1, <1>3
  <2> HIDE DEF h, S, u
  <2>8. InPlaceOf(r, e, h)
    BY <1>8, <2>6 DEF InPlaceOf
  <2>9. Chosen(Append(rules, r) \o u, h) = Chosen(rules \o (<<e>> \o next), h)
    <3>1. CASE h[e.if]
      BY <2>4, <2>7, <2>8, <3>1, RuleDecides
    <3>2. CASE u = next
      <4>1. Chosen(Append(rules, r) \o next, h) = Chosen(rules \o (<<e>> \o next), h)
        BY <2>7, <2>8, RuleKept
      <4> QED BY <3>2, <4>1
    <3> QED BY <2>5, <3>1, <3>2
  <2> QED BY <1>0, <1>1, <2>2, <2>9 DEF h, u
<1>13. AllLowered' /\ TurnedDown' /\ InStep' /\ Settled'
  BY <1>0, <1>3 DEF AllLowered, TurnedDown, InStep, Settled
<1>15. Written'
  <2>1. OperandsOf[Simplified] \subseteq OperandsOf[source.rules[at].if] /\ at \in DOMAIN source.rules
    BY <1>0, <1>2, SourceTyped, SimplifyingAddsNoOperands DEF Simplified
  <2>2. \A i \in 1 .. Len(rules) : Comes(rules[i].if, source.rules)
    BY <1>4 DEF PipelineInv, Written
  <2>3. Comes(r.if, source.rules)
    BY <1>8, <2>1 DEF Comes
  <2>4. \A i \in DOMAIN rules' : Comes(rules'[i].if, source.rules)
    BY <1>4, <1>14, <2>2, <2>3
  <2> QED BY <1>0, <2>4 DEF Written
<1> QED BY <1>6, <1>7, <1>10, <1>11, <1>12, <1>13, <1>15 DEF PipelineInv

LEMMA EndNormalizeKeeps ==
  ASSUME PipelineInv, EndNormalize
  PROVE  PipelineInv'
<1>0. /\ TypeOK /\ phase = "normalize" /\ at > Len(source.rules) /\ phase' = "lower"
      /\ UNCHANGED <<source, target, at, rules, compiled>>
  BY DEF PipelineInv, EndNormalize
<1>1. TypeOK' /\ WellTyped' /\ NormalForm' /\ StillOpen'
  BY <1>0 DEF PipelineInv, TypeOK, WellTyped, NormalForm, StillOpen
<1>2. ChoiceKept'
  <2>1. SUFFICES ASSUME NEW ctx \in Contexts
                 PROVE  Chosen(rules, Meaning(ctx)) = Asked(ctx)
    BY <1>0 DEF ChoiceKept, Asked
  <2>2. Chosen(rules \o Rest, Meaning(ctx)) = Asked(ctx)
    BY <1>0 DEF PipelineInv, ChoiceKept
  <2>3. at \in 1 .. Len(source.rules) + 1 /\ at = Len(source.rules) + 1
        /\ source.rules \in Seq(RuleOf(Condition))
    BY <1>0, SourceTyped DEF TypeOK
  <2>4. Rest = <<>>
    BY <2>3, RestOf DEF Rest
  <2>5. rules \in Seq(RuleOf(Condition))
    BY DEF PipelineInv, WellTyped
  <2>6. rules \o Rest = rules
    BY <2>4, <2>5, EmptyList
  <2> QED BY <2>2, <2>6
<1>3. AllLowered' /\ Written' /\ TurnedDown' /\ InStep' /\ Settled'
  BY <1>0 DEF PipelineInv, AllLowered, Written, TurnedDown, InStep, Settled
<1> QED BY <1>1, <1>2, <1>3 DEF PipelineInv

LEMMA FailToLowerKeeps ==
  ASSUME PipelineInv, FailToLower
  PROVE  PipelineInv'
<1>0. /\ TypeOK /\ phase = "lower" /\ phase' = "unlowered"
      /\ \E i \in DOMAIN rules : ~ Lowers(rules[i].if)
      /\ UNCHANGED <<source, target, at, rules, compiled>>
  BY DEF PipelineInv, FailToLower
<1>1. TypeOK' /\ WellTyped' /\ NormalForm' /\ StillOpen'
  BY <1>0 DEF PipelineInv, TypeOK, WellTyped, NormalForm, StillOpen
<1>2. ChoiceKept' /\ AllLowered' /\ Written' /\ TurnedDown' /\ InStep' /\ Settled'
  BY <1>0 DEF PipelineInv, ChoiceKept, AllLowered, Written, TurnedDown, InStep, Settled
<1> QED BY <1>1, <1>2 DEF PipelineInv

LEMMA LowerKeeps ==
  ASSUME PipelineInv, Lower
  PROVE  PipelineInv'
<1>0. /\ TypeOK /\ phase = "lower" /\ phase' = "validate"
      /\ rules' = [i \in DOMAIN rules |-> [rules[i] EXCEPT !.if = lower[@]]]
      /\ UNCHANGED <<source, target, at, compiled>>
  BY DEF PipelineInv, Lower
<1>1. rules \in Seq(RuleOf(Condition)) /\ compiled \in Seq(RuleOf(Expression)) /\ compiled = <<>>
  BY <1>0 DEF PipelineInv, WellTyped
<1>2. /\ Len(rules) \in Nat /\ DOMAIN rules = 1 .. Len(rules)
      /\ \A i \in DOMAIN rules : rules[i] \in RuleOf(Condition)
  BY <1>1
<1>3. ASSUME NEW i \in DOMAIN rules
      PROVE  /\ rules[i].if \in Condition /\ rules[i].action \in Actions
             /\ rules'[i] \in RuleOf(Condition)
             /\ rules'[i].if = lower[rules[i].if] /\ rules'[i].action = rules[i].action
  <2>1. rules[i] \in RuleOf(Condition) /\ rules[i].if \in Condition /\ rules[i].action \in Actions
    BY <1>2 DEF RuleOf
  <2>2. rules'[i] = [rules[i] EXCEPT !.if = lower[@]]
    BY <1>0
  <2>3. lower[rules[i].if] \in Condition
    BY <2>1, LowerUnfolds, Levels
  <2> QED BY <2>1, <2>2, <2>3 DEF RuleOf
<1>4. rules' \in Seq(RuleOf(Condition)) /\ Len(rules') = Len(rules) /\ DOMAIN rules' = DOMAIN rules
  <2> DEFINE S == RuleOf(Condition)
             n == Len(rules)
             f == rules'
  <2>1. n \in Nat /\ f = [i \in 1 .. n |-> f[i]] /\ \A i \in 1 .. n : f[i] \in S
    BY <1>0, <1>2, <1>3
  <2> HIDE DEF S, n, f
  <2>2. f \in [1 .. n -> S]
    BY <2>1, Zenon
  <2>3. f \in Seq(S)
    BY <2>1, <2>2, SeqDef
  <2>4. Len(f) = n
    BY <2>1, <2>2, <2>3
  <2>5. f \in Seq(S) /\ DOMAIN f = 1 .. n
    BY <2>2, <2>3
  <2> QED BY <1>2, <2>4, <2>5 DEF S, n, f
<1>5. TypeOK'
  BY <1>0, <1>4 DEF TypeOK
<1>6. WellTyped' /\ NormalForm' /\ StillOpen'
  BY <1>0, <1>1, <1>4 DEF WellTyped, NormalForm, StillOpen
<1>7. ChoiceKept'
  <2>1. SUFFICES ASSUME NEW ctx \in Contexts
                 PROVE  Chosen(rules', Evaluate(ctx)) = Asked(ctx)
    BY <1>0 DEF ChoiceKept, Asked
  <2>2. Chosen(rules, Meaning(ctx)) = Asked(ctx)
    BY <1>0 DEF PipelineInv, ChoiceKept
  <2>3. \A i \in DOMAIN rules : Evaluate(ctx)[rules'[i].if] = Meaning(ctx)[rules[i].if]
    BY <1>3, LoweringIsFaithful, ContextTyped
  <2> DEFINE g == Evaluate(ctx)
             h == Meaning(ctx)
             other == rules'
             S == RuleOf(Condition)
  <2>4. Alike(other, g, rules, h)
    BY <1>3, <1>4, <2>3 DEF Alike
  <2>5. rules \in Seq(S)
    BY <1>1
  <2> HIDE DEF g, h, other, S
  <2>6. Chosen(other, g) = Chosen(rules, h)
    BY <2>4, <2>5, ChosenAlike
  <2> QED BY <2>2, <2>6 DEF g, h, other
<1>8. AllLowered'
  <2>1. \A i \in DOMAIN rules' : \E c \in Condition : rules'[i].if = lower[c]
    BY <1>3, <1>4
  <2> QED BY <2>1 DEF AllLowered
<1>9. TurnedDown' /\ InStep' /\ Settled'
  BY <1>0 DEF TurnedDown, InStep, Settled
<1>10. Written'
  <2>1. ASSUME NEW i \in DOMAIN rules PROVE Comes(rules'[i].if, source.rules)
    <3>1. OperandsOf[rules'[i].if] \subseteq OperandsOf[rules[i].if]
      BY <1>3, LoweringAddsNoOperands
    <3>2. Comes(rules[i].if, source.rules)
      BY DEF PipelineInv, Written
    <3> QED BY <3>1, <3>2 DEF Comes
  <2> QED BY <1>0, <1>4, <2>1 DEF Written
<1> QED BY <1>5, <1>6, <1>7, <1>8, <1>9, <1>10 DEF PipelineInv

LEMMA ValidateKeeps ==
  ASSUME PipelineInv, Validate
  PROVE  PipelineInv'
<1>0. /\ TypeOK /\ phase = "validate" /\ phase' \in {"compile", "invalid"}
      /\ phase' = "invalid" =>
           ~ (Len(rules) <= RulesMax) \/ \E i \in DOMAIN rules : ~ Valid[rules[i].if][0]
      /\ UNCHANGED <<source, target, at, rules, compiled>>
  BY DEF PipelineInv, Validate
<1>1. Len(rules) \in Nat /\ RulesMax \in Nat
  BY PipelineAssumption DEF PipelineInv, WellTyped
<1>2. TypeOK' /\ WellTyped' /\ NormalForm' /\ StillOpen'
  BY <1>0 DEF PipelineInv, TypeOK, WellTyped, NormalForm, StillOpen
<1>3. ChoiceKept' /\ AllLowered' /\ Written' /\ Settled'
  BY <1>0 DEF PipelineInv, ChoiceKept, AllLowered, Written, Settled, Asked
<1>4. TurnedDown'
  BY <1>0, <1>1 DEF TurnedDown
<1>5. InStep'
  <2>1. DOMAIN compiled = {}
    BY <1>0 DEF PipelineInv, WellTyped
  <2> QED BY <1>0, <2>1 DEF InStep
<1> QED BY <1>2, <1>3, <1>4, <1>5 DEF PipelineInv

(* The rule in turn, and where it goes in the target's list.               *)
LEMMA CompileRuleKeeps ==
  ASSUME PipelineInv, CompileRule
  PROVE  PipelineInv'
<1> DEFINE k == Len(compiled)
           n == Len(rules)
           r == Translation(rules[Upcoming])
           S == RuleOf(Expression)
<1>0. /\ TypeOK /\ phase = "compile" /\ k < n
      /\ Compiles(target)[rules[Upcoming].if]
      /\ compiled' = IF target = "flagd" THEN <<r>> \o compiled ELSE Append(compiled, r)
      /\ UNCHANGED <<source, target, phase, at, rules>>
  BY DEF PipelineInv, CompileRule, Translation
<1>2. rules \in Seq(RuleOf(Condition)) /\ compiled \in Seq(S)
  BY DEF PipelineInv, WellTyped
<1>3. k \in Nat /\ n \in Nat /\ DOMAIN rules = 1 .. n /\ DOMAIN compiled = 1 .. k
  BY <1>2
<1>4. Upcoming \in 1 .. n /\ (target = "flagd" => Upcoming = n - k)
      /\ (target # "flagd" => Upcoming = k + 1)
  <2>1. Upcoming = IF target = "flagd" THEN n - k ELSE k + 1
    BY DEF Upcoming
  <2> HIDE DEF n, k
  <2>2. n - k \in 1 .. n /\ k + 1 \in 1 .. n
    BY <1>0, <1>3
  <2> QED BY <2>1, <2>2
<1>5. r \in S
  <2>0. \A i \in 1 .. n : rules[i] \in RuleOf(Condition)
    BY <1>2
  <2>1. rules[Upcoming] \in RuleOf(Condition)
    BY <1>4, <2>0, Zenon
  <2>2. Compiled[rules[Upcoming].if] \in Expression
    BY <2>1, CompiledUnfolds, Levels DEF RuleOf
  <2> QED BY <2>1, <2>2 DEF RuleOf, Translation
<1>6. \A i \in 1 .. k : /\ Offset + i \in 1 .. n
                        /\ compiled[i] = Translation(rules[Offset + i])
                        /\ Compiles(target)[rules[Offset + i].if]
  BY <1>0, <1>3 DEF PipelineInv, InStep
<1> HIDE DEF k, n, r, S
<1>7. Offset = IF target = "flagd" THEN n - k ELSE 0
  BY DEF Offset, n, k
<1>8. /\ compiled' \in Seq(S) /\ Len(compiled') = k + 1 /\ DOMAIN compiled' = 1 .. k + 1
      /\ target = "flagd" => /\ compiled'[1] = r
                             /\ \A i \in 2 .. k + 1 : compiled'[i] = compiled[i - 1]
      /\ target # "flagd" => /\ compiled'[k + 1] = r
                             /\ \A i \in 1 .. k : compiled'[i] = compiled[i]
  <2>1. CASE target = "flagd"
    <3>1. compiled' = <<r>> \o compiled
      BY <1>0, <2>1
    <3>2. /\ <<r>> \o compiled \in Seq(S) /\ Len(<<r>> \o compiled) = Len(compiled) + 1
          /\ (<<r>> \o compiled)[1] = r
          /\ \A i \in 2 .. Len(compiled) + 1 : (<<r>> \o compiled)[i] = compiled[i - 1]
      BY <1>2, <1>5
    <3>3. DOMAIN (<<r>> \o compiled) = 1 .. Len(compiled) + 1
      BY <3>2
    <3> QED BY <2>1, <3>1, <3>2, <3>3 DEF k
  <2>2. CASE target # "flagd"
    <3>1. compiled' = Append(compiled, r)
      BY <1>0, <2>2
    <3>2. /\ Append(compiled, r) \in Seq(S) /\ Len(Append(compiled, r)) = Len(compiled) + 1
          /\ Append(compiled, r)[Len(compiled) + 1] = r
          /\ \A i \in 1 .. Len(compiled) : Append(compiled, r)[i] = compiled[i]
          /\ DOMAIN Append(compiled, r) = 1 .. Len(compiled) + 1
      BY <1>2, <1>5
    <3> QED BY <2>2, <3>1, <3>2 DEF k
  <2> QED BY <2>1, <2>2
<1>9. TypeOK'
  <2>1. Len(compiled') <= n /\ n < at
    BY <1>0, <1>3, <1>8 DEF TypeOK, n
  <2> QED BY <1>0, <2>1 DEF TypeOK, n
<1>10. WellTyped' /\ NormalForm' /\ StillOpen'
  BY <1>0, <1>2, <1>8 DEF PipelineInv, WellTyped, NormalForm, StillOpen, S
<1>11. ChoiceKept' /\ AllLowered' /\ Written' /\ TurnedDown' /\ Settled'
  BY <1>0 DEF PipelineInv, ChoiceKept, AllLowered, Written, TurnedDown, Settled, Asked
<1>12. InStep'
  <2>1. Offset' = IF target = "flagd" THEN n - (k + 1) ELSE 0
    BY <1>0, <1>8 DEF Offset, n
  <2>2. r = Translation(rules[Upcoming])
    BY DEF r
  <2>3. ASSUME NEW i \in 1 .. k + 1
        PROVE  /\ Offset' + i \in 1 .. n
               /\ compiled'[i] = Translation(rules[Offset' + i])
               /\ Compiles(target)[rules[Offset' + i].if]
    <3>1. CASE target = "flagd" /\ i = 1
      <4>1. Offset' + i = Upcoming
        BY <1>3, <1>4, <2>1, <3>1
      <4> QED BY <1>0, <1>4, <1>8, <2>2, <3>1, <4>1
    <3>2. CASE target = "flagd" /\ i # 1
      <4>1. i - 1 \in 1 .. k /\ Offset' + i = Offset + (i - 1) /\ i \in 2 .. k + 1
        BY <1>3, <1>7, <2>1, <3>2
      <4> QED BY <1>6, <1>8, <3>2, <4>1
    <3>3. CASE target # "flagd" /\ i = k + 1
      <4>1. Offset' + i = Upcoming
        BY <1>3, <1>4, <2>1, <3>3
      <4> QED BY <1>0, <1>4, <1>8, <2>2, <3>3, <4>1
    <3>4. CASE target # "flagd" /\ i # k + 1
      <4>1. i \in 1 .. k /\ Offset' + i = Offset + i
        BY <1>3, <1>7, <2>1, <3>4
      <4> QED BY <1>6, <1>8, <3>4, <4>1
    <3> QED BY <3>1, <3>2, <3>3, <3>4
  <2> QED BY <1>0, <1>3, <1>8, <2>3 DEF InStep
<1> QED BY <1>9, <1>10, <1>11, <1>12 DEF PipelineInv

LEMMA RefuseRuleKeeps ==
  ASSUME PipelineInv, RefuseRule
  PROVE  PipelineInv'
<1>0. /\ TypeOK /\ phase = "compile" /\ Len(compiled) < Len(rules) /\ phase' = "unsupported"
      /\ ~ Compiles(target)[rules[Upcoming].if]
      /\ UNCHANGED <<source, target, at, rules, compiled>>
  BY DEF PipelineInv, RefuseRule
<1>1. TypeOK' /\ WellTyped' /\ NormalForm' /\ StillOpen'
  BY <1>0 DEF PipelineInv, TypeOK, WellTyped, NormalForm, StillOpen
<1>2. ChoiceKept' /\ AllLowered' /\ Written' /\ TurnedDown'
  BY <1>0 DEF PipelineInv, ChoiceKept, AllLowered, Written, TurnedDown, Asked
<1>3. InStep'
  BY <1>0 DEF PipelineInv, InStep, Offset
<1>4. Settled'
  <2>1. Len(compiled) \in Nat /\ Len(rules) \in Nat /\ DOMAIN rules = 1 .. Len(rules)
    <3>1. rules \in Seq(RuleOf(Condition)) /\ compiled \in Seq(RuleOf(Expression))
      BY DEF PipelineInv, WellTyped
    <3> QED BY <3>1, EmptyList
  <2>2. Upcoming \in DOMAIN rules
    BY <1>0, <2>1 DEF Upcoming
  <2> QED BY <1>0, <2>2 DEF Settled
<1> QED BY <1>1, <1>2, <1>3, <1>4 DEF PipelineInv

LEMMA EndCompileKeeps ==
  ASSUME PipelineInv, EndCompile
  PROVE  PipelineInv'
<1>0. /\ TypeOK /\ phase = "compile" /\ Len(compiled) = Len(rules) /\ phase' = "compiled"
      /\ UNCHANGED <<source, target, at, rules, compiled>>
  BY DEF PipelineInv, EndCompile
<1>1. TypeOK' /\ WellTyped' /\ NormalForm' /\ StillOpen'
  BY <1>0 DEF PipelineInv, TypeOK, WellTyped, NormalForm, StillOpen
<1>2. ChoiceKept' /\ AllLowered' /\ Written' /\ TurnedDown' /\ Settled'
  BY <1>0 DEF PipelineInv, ChoiceKept, AllLowered, Written, TurnedDown, Settled, Asked
<1>3. InStep'
  BY <1>0 DEF PipelineInv, InStep, Offset
<1> QED BY <1>1, <1>2, <1>3 DEF PipelineInv

LEMMA StutterKeeps ==
  ASSUME PipelineInv, UNCHANGED vars
  PROVE  PipelineInv'
<1>0. /\ source' = source /\ target' = target /\ phase' = phase /\ at' = at
      /\ rules' = rules /\ compiled' = compiled
  BY DEF vars
<1>1. TypeOK' /\ WellTyped' /\ NormalForm' /\ StillOpen'
  BY <1>0 DEF PipelineInv, TypeOK, WellTyped, NormalForm, StillOpen
<1>2. ChoiceKept'
  BY <1>0 DEF PipelineInv, ChoiceKept, Asked, Rest
<1>3. AllLowered' /\ Written' /\ TurnedDown' /\ InStep' /\ Settled'
  BY <1>0 DEF PipelineInv, AllLowered, Written, TurnedDown, InStep, Settled, Offset
<1> QED BY <1>1, <1>2, <1>3 DEF PipelineInv

(* The conjuncts hold together in every state of the pipeline.             *)
THEOREM PipelineInvariance == Spec => []PipelineInv
<1>1. Init => PipelineInv
  BY InitEstablishes
<1>2. PipelineInv /\ [Next]_vars => PipelineInv'
  <2> SUFFICES ASSUME PipelineInv, [Next]_vars PROVE PipelineInv'
    OBVIOUS
  <2>1. CASE DropEntry
    BY <2>1, DropEntryKeeps
  <2>2. CASE KeepEntry
    BY <2>2, KeepEntryKeeps
  <2>3. CASE EndNormalize
    BY <2>3, EndNormalizeKeeps
  <2>4. CASE Lower
    BY <2>4, LowerKeeps
  <2>5. CASE Validate
    BY <2>5, ValidateKeeps
  <2>6. CASE CompileRule
    BY <2>6, CompileRuleKeeps
  <2>7. CASE RefuseRule
    BY <2>7, RefuseRuleKeeps
  <2>8. CASE EndCompile
    BY <2>8, EndCompileKeeps
  <2>9. CASE FailToLower
    BY <2>9, FailToLowerKeeps
  <2>10. CASE UNCHANGED vars
    BY <2>10, StutterKeeps
  <2> QED BY <2>1, <2>2, <2>3, <2>4, <2>5, <2>6, <2>7, <2>8, <2>9, <2>10 DEF Next
<1> QED BY <1>1, <1>2, PTL DEF Spec

(* Every variable stays within its type: the loop never leaves the list,   *)
(* it keeps at most the rules it has seen, and no more are compiled.       *)
THEOREM PipelineTypeCorrect == Spec => []TypeOK
<1>1. PipelineInv => TypeOK
  BY DEF PipelineInv
<1> QED BY <1>1, PipelineInvariance, PTL

(* Outside one_of the rules that are kept cannot be simplified further, in *)
(* the middle of the list too.                                             *)
THEOREM RulesAreNormal == Spec => []NormalForm
<1>1. PipelineInv => NormalForm
  BY DEF PipelineInv
<1> QED BY <1>1, PipelineInvariance, PTL

(* In every context every stage selects the action the author asked for,   *)
(* also half-way through a list, for conditions of any height.             *)
THEOREM PipelineKeepsMeaning == Spec => []MeaningKept
<1>1. ASSUME PipelineInv PROVE MeaningKept
  <2>1. SUFFICES ASSUME NEW ctx \in Contexts
                 PROVE  /\ phase = "normalize" => Chosen(rules \o Rest, Meaning(ctx)) = Asked(ctx)
                        /\ phase \in {"validate", "compile"} => Chosen(rules, Evaluate(ctx)) = Asked(ctx)
                        /\ phase = "compiled" => Chosen(compiled, Evaluate(ctx)) = Asked(ctx)
    BY DEF MeaningKept, Rest, Asked
  <2>2. /\ phase = "normalize" => Chosen(rules \o Rest, Meaning(ctx)) = Asked(ctx)
        /\ phase \in {"validate", "compile", "compiled"} =>
             Chosen(rules, Evaluate(ctx)) = Asked(ctx)
    BY <1>1 DEF PipelineInv, ChoiceKept
  <2>3. ASSUME phase = "compiled"
        PROVE  Chosen(compiled, Evaluate(ctx)) = Asked(ctx)
    <3>1. /\ rules \in Seq(RuleOf(Condition)) /\ compiled \in Seq(RuleOf(Expression))
          /\ Len(compiled) = Len(rules)
      BY <1>1, <2>3 DEF PipelineInv, WellTyped, Settled
    <3>2. /\ DOMAIN compiled = DOMAIN rules /\ DOMAIN rules = 1 .. Len(rules) /\ Len(rules) \in Nat
          /\ \A i \in DOMAIN rules : rules[i] \in RuleOf(Condition)
      BY <3>1
    <3>3. Offset = 0
      BY <3>1, <3>2 DEF Offset
    <3>4. \A i \in DOMAIN compiled : compiled[i] = Translation(rules[Offset + i])
      BY <1>1, <2>3 DEF PipelineInv, InStep
    <3>5. ASSUME NEW i \in DOMAIN rules
          PROVE  /\ compiled[i].action = rules[i].action
                 /\ Evaluate(ctx)[compiled[i].if] = Evaluate(ctx)[rules[i].if]
      <4>1. Offset + i = i
        BY <3>2, <3>3
      <4>2. compiled[i] = [rules[i] EXCEPT !.if = Compiled[@]]
        BY <3>2, <3>4, <4>1 DEF Translation
      <4>3. rules[i].if \in Condition /\ rules[i] \in RuleOf(Condition)
        BY <3>2 DEF RuleOf
      <4>4. compiled[i].action = rules[i].action /\ compiled[i].if = Compiled[rules[i].if]
        BY <4>2, <4>3 DEF RuleOf
      <4> QED BY <4>3, <4>4, CompilingIsFaithful, ContextTyped
    <3> DEFINE g == Evaluate(ctx)
               S == RuleOf(Condition)
    <3>6. Alike(compiled, g, rules, g) /\ rules \in Seq(S)
      BY <3>1, <3>2, <3>5 DEF Alike
    <3> HIDE DEF g, S
    <3>7. Chosen(compiled, g) = Chosen(rules, g)
      BY <3>6, ChosenAlike
    <3> QED BY <2>2, <2>3, <3>7 DEF g
  <2> QED BY <2>2, <2>3
<1> QED BY <1>1, PipelineInvariance, PTL

(* A rejection has a cause the author can find.  The lowering fails only   *)
(* on a leaf written with operands its operator does not take; ir.Validate *)
(* turns an evaluation down only for too many rules, a condition too deep  *)
(* or too wide once lowered, or a leaf written with a malformed path or    *)
(* literal, never for a group the lowering left with too few children.     *)
THEOREM RejectionsHaveCause == Spec => []RejectionHasCause
<1>1. ASSUME PipelineInv PROVE RejectionHasCause
  <2> DEFINE written == UNION {OperandsOf[source.rules[i].if] : i \in DOMAIN source.rules}
  <2>1. \A i \in DOMAIN rules : OperandsOf[rules[i].if] \subseteq written
    BY <1>1 DEF PipelineInv, Written, Comes
  <2>2. ASSUME phase = "unlowered" PROVE "unfit" \in written
    <3>1. PICK i \in DOMAIN rules : "unfit" \in OperandsOf[rules[i].if]
      BY <1>1, <2>2 DEF PipelineInv, TurnedDown, Lowers
    <3> HIDE DEF written
    <3> QED BY <2>1, <3>1
  <2>3. ASSUME phase = "invalid"
        PROVE  \/ Len(rules) > RulesMax
               \/ \E i \in DOMAIN rules : Depth[rules[i].if] > MaxDepth \/ Wide[rules[i].if]
               \/ "malformed" \in written
    <3> SUFFICES ASSUME ~ (Len(rules) > RulesMax)
                 PROVE  \/ \E i \in DOMAIN rules : Depth[rules[i].if] > MaxDepth \/ Wide[rules[i].if]
                        \/ "malformed" \in written
      OBVIOUS
    <3>1. PICK i \in DOMAIN rules : ~ Valid[rules[i].if][0]
      BY <1>1, <2>3 DEF PipelineInv, TurnedDown
    <3>2. PICK c \in Condition : rules[i].if = lower[c]
      BY <1>1, <2>3, <3>1 DEF PipelineInv, AllLowered
    <3>3. 0 \in Nat
      OBVIOUS
    <3>4. AtFault(lower[c], 0)
      BY <3>1, <3>2, <3>3, RejectedForCause
    <3>5. Depth[lower[c]] \in Nat
      BY <3>2, LowerUnfolds, Levels, DepthUnfolds
    <3>6. 0 + Depth[lower[c]] = Depth[lower[c]]
      BY <3>5
    <3> HIDE DEF written
    <3> QED BY <2>1, <3>2, <3>4, <3>6 DEF AtFault
  <2> QED BY <2>2, <2>3 DEF RejectionHasCause
<1> QED BY <1>1, PipelineInvariance, PTL

(* A target compiles an evaluation or refuses it as the matrix says, for   *)
(* what is left in it after normalization, wherever it is nested.          *)
THEOREM VerdictsMatchMatrix == Spec => []VerdictMatchesMatrix
<1>1. ASSUME PipelineInv PROVE VerdictMatchesMatrix
  <2>1. /\ rules \in Seq(RuleOf(Condition)) /\ compiled \in Seq(RuleOf(Expression))
        /\ target \in {"flagd", "gofeatureflag"}
    BY <1>1 DEF PipelineInv, WellTyped, TypeOK
  <2>2. /\ DOMAIN rules = 1 .. Len(rules) /\ DOMAIN compiled = 1 .. Len(compiled) /\ Len(rules) \in Nat
        /\ \A i \in DOMAIN rules : rules[i] \in RuleOf(Condition)
    BY <2>1
  <2>3. \A i \in DOMAIN rules : rules[i].if \in Condition
    BY <2>2 DEF RuleOf
  <2>4. \A i \in DOMAIN rules :
          Compiles(target)[rules[i].if] <=> KindsOf[rules[i].if] \cap MatrixUnsupported(target) = {}
    BY <2>1, <2>3, MatrixIsTrue
  <2>5. ASSUME phase = "compiled" PROVE Kinds \cap MatrixUnsupported(target) = {}
    <3>1. Len(compiled) = Len(rules) /\ Offset = 0
      BY <1>1, <2>2, <2>5 DEF PipelineInv, Settled, Offset
    <3>2. \A i \in DOMAIN compiled : Compiles(target)[rules[Offset + i].if]
      BY <1>1, <2>5 DEF PipelineInv, InStep
    <3>3. ASSUME NEW i \in DOMAIN rules PROVE Compiles(target)[rules[i].if]
      <4>1. Offset + i = i /\ i \in DOMAIN compiled
        BY <2>2, <3>1
      <4> QED BY <3>2, <4>1
    <3>4. \A i \in DOMAIN rules : KindsOf[rules[i].if] \cap MatrixUnsupported(target) = {}
      BY <2>4, <3>3
    <3> QED BY <3>4 DEF Kinds
  <2>6. ASSUME phase = "unsupported" PROVE Kinds \cap MatrixUnsupported(target) # {}
    <3>1. PICK i \in DOMAIN rules : ~ Compiles(target)[rules[i].if]
      BY <1>1, <2>6 DEF PipelineInv, Settled
    <3>2. KindsOf[rules[i].if] \cap MatrixUnsupported(target) # {}
      BY <2>4, <3>1
    <3> QED BY <3>2 DEF Kinds
  <2> QED BY <2>5, <2>6 DEF VerdictMatchesMatrix
<1> QED BY <1>1, PipelineInvariance, PTL
=============================================================================
