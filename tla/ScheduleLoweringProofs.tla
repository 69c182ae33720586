------------------------ MODULE ScheduleLoweringProofs ------------------------
(***************************************************************************)
(* Proofs about ScheduleLowering and Rollout, for every environment and    *)
(* every number of stages and steps.  First the arithmetic of the stages:  *)
(* what Euclid's loop returns, what division by it leaves of the weights,  *)
(* and that the dates of stages come in order.  Then the invariants, each  *)
(* resting on those before it:                                             *)
(*   IInv     types, and the order of what is kept;                        *)
(*   LaidOut  what stands where in the schedule before it is sorted;       *)
(*   Pruned   what was kept shows, at the date of every entry taken, what  *)
(*            that entry says;                                             *)
(*   Covered  every enabled step is in force at its date in the schedule;  *)
(*   Failed   a failure has its cause.                                     *)
(***************************************************************************)
EXTENDS ScheduleLowering, SequenceTheorems, FiniteSetTheorems, WellFoundedInduction,
        NaturalsInduction, TLAPS

-----------------------------------------------------------------------------
(* Numbers                                                                 *)

(* A set of numbers has a least one.                                       *)
LEMMA LeastNumber ==
  ASSUME NEW D, D \subseteq Nat, D # {}
  PROVE  \E d \in D : \A e \in D : ~ (e < d)
<1>1. \E d \in D : \A e \in D : <<e, d>> \notin OpToRel(<, Nat)
  BY NatLessThanWellFounded, WFMin
<1> QED
  BY <1>1 DEF OpToRel

-----------------------------------------------------------------------------
(* Euclid's loop                                                           *)

(* d divides a.                                                            *)
Divides(d, a) == \E q \in Nat : a = d * q
CommonDivisor(d, a, b) == Divides(d, a) /\ Divides(d, b)
IsGcd(g, a, b) ==
  /\ CommonDivisor(g, a, b)
  /\ \A d \in Nat \ {0} : CommonDivisor(d, a, b) => d <= g

(* A common divisor divides the sum.                                       *)
LEMMA DividesSum ==
  ASSUME NEW d \in Nat, NEW a \in Nat, NEW b \in Nat, Divides(d, a), Divides(d, b)
  PROVE  Divides(d, a + b)
<1>1. PICK p \in Nat, q \in Nat : a = d * p /\ b = d * q
  BY DEF Divides
<1>2. a + b = d * (p + q) /\ p + q \in Nat
  BY <1>1
<1> QED BY <1>2 DEF Divides

(* It divides every multiple.                                              *)
LEMMA DividesMultiple ==
  ASSUME NEW d \in Nat, NEW a \in Nat, NEW n \in Nat, Divides(d, a)
  PROVE  Divides(d, a * n)
<1>1. PICK p \in Nat : a = d * p
  BY DEF Divides
<1>2. p * n \in Nat
  BY <1>1
<1>3. a * n = d * (p * n)
  BY <1>1
<1> QED BY <1>2, <1>3 DEF Divides

(* A larger factor adds at least one whole n.                              *)
LEMMA ProductIsMonotone ==
  ASSUME NEW a \in Nat, NEW b \in Nat, NEW n \in Nat, a + 1 <= b
  PROVE  a * n + n <= b * n
<1>1. PICK c \in Nat : b = a + 1 + c
  <2>1. b - (a + 1) \in Nat /\ b = a + 1 + (b - (a + 1))
    OBVIOUS
  <2> QED BY <2>1
<1>2. b * n = a * n + n + c * n
  BY <1>1
<1>3. c * n \in Nat /\ a * n \in Nat
  OBVIOUS
<1> QED BY <1>2, <1>3

(* What divides the sum and one summand divides the other.                 *)
LEMMA DividesDifference ==
  ASSUME NEW d \in Nat, NEW a \in Nat, NEW b \in Nat, Divides(d, a + b), Divides(d, a)
  PROVE  Divides(d, b)
<1>1. PICK p \in Nat, q \in Nat : a + b = d * p /\ a = d * q
  BY DEF Divides
<1>2. CASE p < q
  <2>1. p + 1 <= q
    BY <1>2
  <2>2. p * d + d <= q * d
    BY <2>1, ProductIsMonotone
  <2>3. p * d = d * p /\ q * d = d * q
    OBVIOUS
  <2>4. d = 0
    BY <1>1, <2>2, <2>3
  <2>5. b = 0 /\ d * 0 = 0
    BY <1>1, <2>4
  <2> QED BY <2>5 DEF Divides
<1>3. CASE q <= p
  <2>1. PICK r \in Nat : p = q + r
    <3>1. p - q \in Nat /\ p = q + (p - q)
      BY <1>3
    <3> QED BY <3>1
  <2>2. d * p = d * q + d * r
    BY <2>1
  <2>3. b = d * r
    BY <1>1, <2>2
  <2> QED BY <2>3 DEF Divides
<1> QED BY <1>2, <1>3

(* A turn of the loop keeps the common divisors.                           *)
LEMMA EuclidStep ==
  ASSUME NEW a \in Nat, NEW b \in Nat \ {0}, NEW d \in Nat
  PROVE  CommonDivisor(d, a, b) <=> CommonDivisor(d, b, a % b)
<1>1. /\ a % b \in Nat /\ a \div b \in Nat
      /\ a = b * (a \div b) + (a % b)
  OBVIOUS
<1> DEFINE m == b * (a \div b)
<1>2. m \in Nat /\ a = m + (a % b)
  BY <1>1
<1>3. Divides(d, b) => Divides(d, m)
  BY <1>1, DividesMultiple
<1> HIDE DEF m
<1>4. Divides(d, a) /\ Divides(d, m) => Divides(d, a % b)
  BY <1>1, <1>2, DividesDifference
<1>5. Divides(d, m) /\ Divides(d, a % b) => Divides(d, a)
  BY <1>1, <1>2, DividesSum
<1> QED BY <1>3, <1>4, <1>5 DEF CommonDivisor

Divisors(a, b) == {d \in Nat \ {0} : CommonDivisor(d, a, b)}
Greatest(S) == CHOOSE g \in S : \A d \in S : d <= g

(* A divisor of a positive number is at most that number.                  *)
LEMMA DivisorIsSmaller ==
  ASSUME NEW d \in Nat, NEW a \in Nat \ {0}, Divides(d, a)
  PROVE  d <= a /\ d # 0
<1>1. PICK p \in Nat : a = d * p
  BY DEF Divides
<1>2. p # 0
  BY <1>1
<1>3. PICK q \in Nat : p = q + 1
  <2>1. p - 1 \in Nat /\ p = (p - 1) + 1
    BY <1>2
  <2> QED BY <2>1
<1>4. a = d * q + d
  BY <1>1, <1>3
<1>5. d * q \in Nat
  BY <1>3
<1>6. d # 0
  <2>1. 0 * p = 0
    OBVIOUS
  <2> QED BY <1>1, <2>1
<1> QED BY <1>4, <1>5, <1>6

(* Every number divides itself.                                            *)
LEMMA DividesItself ==
  ASSUME NEW a \in Nat
  PROVE  Divides(a, a) /\ Divides(a, 0) /\ Divides(1, a)
<1>1. a = a * 1 /\ 0 = a * 0 /\ a = 1 * a
  OBVIOUS
<1> QED BY <1>1 DEF Divides

(* Where the loop stops: the second number is zero.                        *)
LEMMA GcdOfZero ==
  ASSUME NEW a \in Nat \ {0}
  PROVE  IsGcd(a, a, 0)
<1>1. CommonDivisor(a, a, 0)
  BY DividesItself DEF CommonDivisor
<1>2. \A d \in Nat \ {0} : CommonDivisor(d, a, 0) => d <= a
  BY DivisorIsSmaller DEF CommonDivisor
<1> QED BY <1>1, <1>2 DEF IsGcd

(* gcd is a function that does as its definition says: there is one.       *)
LEMMA GcdUnfolds ==
  gcd = [p \in Nat \X Nat |-> IF p[2] = 0 THEN p[1] ELSE gcd[<<p[2], p[1] % p[2]>>]]
<1> DEFINE f == [p \in Nat \X Nat |->
                   IF p[1] = 0 /\ p[2] = 0 THEN 0 ELSE Greatest(Divisors(p[1], p[2]))]
<1>1. ASSUME NEW a \in Nat, NEW b \in Nat
      PROVE  f[<<a, b>>] = IF b = 0 THEN a ELSE f[<<b, a % b>>]
  <2>1. CASE a = 0 /\ b = 0
    BY <2>1
  <2>2. CASE a # 0 /\ b = 0
    <3>1. IsGcd(a, a, 0)
      BY <2>2, GcdOfZero
    <3>2. a \in Divisors(a, 0) /\ \A d \in Divisors(a, 0) : d <= a
      BY <2>2, <3>1 DEF IsGcd, Divisors
    <3>3. PICK g \in Divisors(a, 0) : /\ g = Greatest(Divisors(a, 0))
                                      /\ \A d \in Divisors(a, 0) : d <= g
      BY <3>2 DEF Greatest
    <3>4. g = a
      BY <3>2, <3>3 DEF Divisors
    <3> QED BY <2>2, <3>3, <3>4
  <2>3. CASE b # 0
    <3>1. a % b \in Nat
      BY <2>3
    <3>2. \A d \in Nat \ {0} : CommonDivisor(d, a, b) <=> CommonDivisor(d, b, a % b)
      BY <2>3, EuclidStep
    <3>3. Divisors(a, b) = Divisors(b, a % b)
      BY <3>2 DEF Divisors
    <3>4. f[<<a, b>>] = Greatest(Divisors(a, b)) /\ f[<<b, a % b>>] = Greatest(Divisors(b, a % b))
      BY <2>3, <3>1
    <3> QED BY <2>3, <3>3, <3>4
  <2> QED BY <2>1, <2>2, <2>3
<1>2. f = [p \in Nat \X Nat |-> IF p[2] = 0 THEN p[1] ELSE f[<<p[2], p[1] % p[2]>>]]
  <2>1. \A p \in Nat \X Nat : /\ p = <<p[1], p[2]>> /\ p[1] \in Nat /\ p[2] \in Nat
                              /\ f[p] = IF p[2] = 0 THEN p[1] ELSE f[<<p[2], p[1] % p[2]>>]
    <3> HIDE DEF f
    <3> QED BY <1>1
  <2>2. f = [p \in Nat \X Nat |-> f[p]]
    OBVIOUS
  <2> HIDE DEF f
  <2> QED BY <2>1, <2>2
<1>3. \E g : g = [p \in Nat \X Nat |-> IF p[2] = 0 THEN p[1] ELSE g[<<p[2], p[1] % p[2]>>]]
  <2> HIDE DEF f
  <2> QED BY <1>2
<1> QED BY <1>3, Zenon DEF gcd

(* Euclid's loop ends with the greatest common divisor.                    *)
THEOREM GcdIsGreatest ==
  ASSUME NEW a \in Nat, NEW b \in Nat, a # 0 \/ b # 0
  PROVE  gcd[<<a, b>>] \in Nat \ {0} /\ IsGcd(gcd[<<a, b>>], a, b)
<1> DEFINE Good(x, y) == gcd[<<x, y>>] \in Nat \ {0} /\ IsGcd(gcd[<<x, y>>], x, y)
           bad == {y \in Nat : \E x \in Nat : (x # 0 \/ y # 0) /\ ~ Good(x, y)}
<1> SUFFICES bad = {}
  OBVIOUS
<1> SUFFICES ASSUME bad # {} PROVE FALSE
  OBVIOUS
<1>1. PICK y \in bad : \A z \in bad : ~ (z < y)
  <2>1. bad \subseteq Nat
    OBVIOUS
  <2> HIDE DEF bad
  <2> QED BY <2>1, LeastNumber
<1>2. PICK x \in Nat : (x # 0 \/ y # 0) /\ ~ Good(x, y)
  OBVIOUS
<1>3. y \in Nat
  OBVIOUS
<1>4. gcd[<<x, y>>] = IF y = 0 THEN x ELSE gcd[<<y, x % y>>]
  BY <1>3, GcdUnfolds
<1>5. CASE y = 0
  <2>1. Good(x, y)
    BY <1>2, <1>4, <1>5, GcdOfZero
  <2> QED BY <1>2, <2>1
<1>6. CASE y # 0
  <2>1. x % y \in Nat /\ x % y < y
    BY <1>3, <1>6
  <2>2. x % y \notin bad
    BY <1>1, <2>1
  <2>3. Good(y, x % y)
    BY <1>3, <1>6, <2>1, <2>2
  <2>4. \A d \in Nat : CommonDivisor(d, x, y) <=> CommonDivisor(d, y, x % y)
    BY <1>3, <1>6, EuclidStep
  <2>5. Good(x, y)
    BY <1>4, <1>6, <2>3, <2>4 DEF IsGcd
  <2> QED BY <1>2, <2>5
<1> QED BY <1>5, <1>6

(* Where Divisor starts from: the first number is zero.                    *)
LEMMA GcdFromZero ==
  ASSUME NEW b \in Nat \ {0}
  PROVE  gcd[<<0, b>>] = b
<1>1. 0 % b = 0
  OBVIOUS
<1>2. gcd[<<0, b>>] = gcd[<<b, 0>>] /\ gcd[<<b, 0>>] = b
  BY <1>1, GcdUnfolds
<1> QED BY <1>2

(* The divisor of the weights of two variants, in whatever order the fold  *)
(* takes them.                                                             *)
LEMMA DivisorOfTwo ==
  ASSUME NEW x, NEW y, x # y, NEW w, DOMAIN w = {x, y},
         w[x] \in Nat \ {0}, w[y] \in Nat \ {0}
  PROVE  Divisor(w) \in Nat \ {0} /\ IsGcd(Divisor(w), w[x], w[y])
<1> DEFINE S == {x, y}
           First(s) == CHOOSE v \in s : TRUE
           a == First(S)
           Step(f, s) == IF s = {} THEN 0 ELSE gcd[<<f[s \ {First(s)}], w[First(s)]>>]
<1>1. PICK b \in S : b # a /\ S = {a, b} /\ S \ {a} = {b} /\ a \in S
  <2>1. a = x \/ a = y
    OBVIOUS
  <2> HIDE DEF a
  <2>2. CASE a = x
    <3>1. y # a /\ S = {a, y} /\ S \ {a} = {y} /\ a \in S
      BY <2>2
    <3> QED BY <3>1
  <2>3. CASE a = y
    <3>1. x # a /\ S = {a, x} /\ S \ {a} = {x} /\ a \in S
      BY <2>3
    <3> QED BY <3>1
  <2> QED BY <2>1, <2>2, <2>3
<1> DEFINE h == [s \in SUBSET S |->
                   IF s = {} THEN 0
                   ELSE IF s = S THEN gcd[<<gcd[<<0, w[b]>>], w[a]>>]
                   ELSE gcd[<<0, w[First(s)]>>]]
<1>2. ASSUME NEW s \in SUBSET S PROVE h[s] = Step(h, s)
  <2>1. CASE s = {}
    BY <2>1
  <2>2. CASE s = S
    <3>1. h[s] = gcd[<<gcd[<<0, w[b]>>], w[a]>>]
      BY <2>2
    <3>2. First({b}) = b /\ {b} # S /\ {b} \in SUBSET S /\ {b} # {}
      BY <1>1
    <3>3. h[{b}] = gcd[<<0, w[b]>>]
      BY <3>2
    <3> QED BY <1>1, <2>2, <3>1, <3>3
  <2>3. CASE s # {} /\ s # S
    <3>1. s = {x} \/ s = {y}
      BY <2>3
    <3>2. s \ {First(s)} = {}
      BY <3>1
    <3>3. h[{}] = 0
      OBVIOUS
    <3>4. h[s] = gcd[<<0, w[First(s)]>>]
      BY <2>3
    <3> HIDE DEF h
    <3> QED BY <2>3, <3>2, <3>3, <3>4
  <2> QED BY <2>1, <2>2, <2>3
<1>3. h = [s \in SUBSET S |-> Step(h, s)]
  <2>1. h = [s \in SUBSET S |-> h[s]]
    OBVIOUS
  <2> HIDE DEF h, Step
  <2> QED BY <1>2, <2>1
<1> DEFINE iter == CHOOSE f : f = [s \in SUBSET S |-> Step(f, s)]
<1>4. iter = [s \in SUBSET S |-> Step(iter, s)]
  <2> HIDE DEF h, Step
  <2>1. \E f : f = [s \in SUBSET S |-> Step(f, s)]
    BY <1>3
  <2> QED BY <2>1, Zenon
<1>5. Divisor(w) = iter[S]
  BY DEF Divisor, FoldFunction, FoldFunctionOnSet, MapThenFoldSet
<1> HIDE DEF iter
<1>6. iter[{}] = 0
  BY <1>4
<1>7. iter[{b}] = gcd[<<0, w[b]>>]
  <2>1. {b} \in SUBSET S /\ First({b}) = b /\ {b} \ {b} = {} /\ {b} # {}
    OBVIOUS
  <2>2. iter[{b}] = Step(iter, {b})
    BY <1>4, <2>1
  <2> QED BY <1>6, <2>1, <2>2
<1>8. iter[S] = gcd[<<gcd[<<0, w[b]>>], w[a]>>]
  <2>1. S \in SUBSET S /\ S # {}
    OBVIOUS
  <2>2. iter[S] = Step(iter, S)
    BY <1>4, <2>1
  <2> QED BY <1>1, <1>7, <2>1, <2>2
<1>9. w[a] \in Nat \ {0} /\ w[b] \in Nat \ {0}
  BY <1>1
<1>10. Divisor(w) = gcd[<<w[b], w[a]>>]
  BY <1>5, <1>8, <1>9, GcdFromZero
<1>11. Divisor(w) \in Nat \ {0} /\ IsGcd(Divisor(w), w[b], w[a])
  BY <1>9, <1>10, GcdIsGreatest
<1>12. (a = x /\ b = y) \/ (a = y /\ b = x)
  BY <1>1
<1> QED BY <1>11, <1>12 DEF IsGcd, CommonDivisor

(* Division by a divisor leaves nothing.                                   *)
LEMMA ExactQuotient ==
  ASSUME NEW d \in Nat \ {0}, NEW a \in Nat \ {0}, Divides(d, a)
  PROVE  a = d * (a \div d) /\ a \div d \in Nat \ {0}
<1>1. PICK q \in Nat : a = d * q
  BY DEF Divides
<1> DEFINE p == a \div d
           r == a % d
<1>2. p \in Nat /\ r \in Nat /\ r < d /\ a = d * p + r
  OBVIOUS
<1> HIDE DEF p, r
<1>3. d * p = p * d /\ d * q = q * d
  BY <1>2
<1>4. d * p \in Nat /\ d * q \in Nat
  BY <1>2
<1>5. CASE p < q
  <2>1. p * d + d <= q * d
    BY <1>2, <1>5, ProductIsMonotone
  <2> QED BY <1>1, <1>2, <1>3, <1>4, <2>1
<1>6. CASE q < p
  <2>1. q * d + d <= p * d
    BY <1>2, <1>6, ProductIsMonotone
  <2> QED BY <1>1, <1>2, <1>3, <1>4, <2>1
<1>7. CASE p = q
  <2>1. a = d * p
    BY <1>1, <1>7
  <2>2. p # 0
    <3>1. d * 0 = 0
      OBVIOUS
    <3> QED BY <2>1, <3>1
  <2> QED BY <1>2, <2>1, <2>2 DEF p
<1> QED BY <1>2, <1>5, <1>6, <1>7

(* What is left of two numbers divided by their greatest common divisor    *)
(* has no common divisor but one.                                          *)
LEMMA QuotientsAreCoprime ==
  ASSUME NEW a \in Nat \ {0}, NEW b \in Nat \ {0}, NEW g \in Nat \ {0}, IsGcd(g, a, b),
         NEW d \in Nat \ {0}, CommonDivisor(d, a \div g, b \div g)
  PROVE  d = 1
<1>1. /\ a = g * (a \div g) /\ a \div g \in Nat \ {0}
      /\ b = g * (b \div g) /\ b \div g \in Nat \ {0}
  BY ExactQuotient DEF IsGcd, CommonDivisor
<1>2. PICK p \in Nat, q \in Nat : a \div g = d * p /\ b \div g = d * q
  BY DEF CommonDivisor, Divides
<1>3. a = (g * d) * p /\ b = (g * d) * q
  BY <1>1, <1>2
<1>4. g * d \in Nat \ {0}
  OBVIOUS
<1>5. CommonDivisor(g * d, a, b)
  BY <1>3, <1>4 DEF CommonDivisor, Divides
<1>6. g * d <= g
  BY <1>4, <1>5 DEF IsGcd
<1> SUFFICES ASSUME d # 1 PROVE FALSE
  OBVIOUS
<1>7. 1 + 1 <= d /\ 1 \in Nat /\ d \in Nat
  OBVIOUS
<1>8. 1 * g + g <= d * g
  BY <1>7, ProductIsMonotone
<1>9. d * g = g * d /\ 1 * g = g
  OBVIOUS
<1> QED BY <1>4, <1>6, <1>8, <1>9

(* Weights of two variants, and weights that stand in the same proportion. *)
IsSplit(w, x, y) == DOMAIN w = {x, y} /\ w[x] \in Nat \ {0} /\ w[y] \in Nat \ {0}
Scales(w, c, x, y) == \E g \in Nat \ {0} : w[x] = g * c[x] /\ w[y] = g * c[y]

(* Canonical weights of two variants are positive, have the divisor one    *)
(* and stand to each other as the weights they come from.                  *)
LEMMA CanonicalSplit ==
  ASSUME NEW x, NEW y, x # y, NEW w, IsSplit(w, x, y)
  PROVE  /\ IsSplit(canonicalWeights(w), x, y)
         /\ Divisor(canonicalWeights(w)) = 1
         /\ Scales(w, canonicalWeights(w), x, y)
<1> DEFINE c == canonicalWeights(w)
           g == Divisor(w)
<1>0. DOMAIN w = {x, y} /\ w[x] \in Nat \ {0} /\ w[y] \in Nat \ {0}
  BY DEF IsSplit
<1>1. g \in Nat \ {0} /\ IsGcd(g, w[x], w[y])
  BY <1>0, DivisorOfTwo
<1>2. DOMAIN c = {x, y} /\ c[x] = w[x] \div g /\ c[y] = w[y] \div g
  BY <1>0 DEF canonicalWeights
<1> HIDE DEF g, c
<1>3. /\ w[x] = g * c[x] /\ c[x] \in Nat \ {0}
      /\ w[y] = g * c[y] /\ c[y] \in Nat \ {0}
  BY <1>0, <1>1, <1>2, ExactQuotient DEF IsGcd, CommonDivisor
<1>4. Divisor(c) \in Nat \ {0} /\ IsGcd(Divisor(c), c[x], c[y])
  BY <1>2, <1>3, DivisorOfTwo
<1>5. CommonDivisor(Divisor(c), w[x] \div g, w[y] \div g)
  BY <1>2, <1>4 DEF IsGcd
<1>6. Divisor(c) = 1
  BY <1>0, <1>1, <1>4, <1>5, QuotientsAreCoprime
<1>7. IsSplit(c, x, y) /\ Scales(w, c, x, y)
  BY <1>1, <1>2, <1>3 DEF IsSplit, Scales
<1> QED BY <1>6, <1>7 DEF c

(* What integer division returns.                                          *)
LEMMA QuotientBounds ==
  ASSUME NEW a \in Nat, NEW d \in Nat \ {0}
  PROVE  /\ a \div d \in Nat /\ (a \div d) * d \in Nat
         /\ (a \div d) * d <= a
         /\ a < (a \div d) * d + d
<1> DEFINE p == a \div d
           r == a % d
<1>1. p \in Nat /\ r \in Nat /\ r < d /\ a = d * p + r
  OBVIOUS
<1> HIDE DEF p, r
<1>2. d * p = p * d /\ p * d \in Nat
  BY <1>1
<1>3. p * d <= a /\ a < p * d + d
  BY <1>1, <1>2
<1> QED BY <1>1, <1>2, <1>3 DEF p

(* Integer division keeps the order.                                       *)
LEMMA QuotientIsMonotone ==
  ASSUME NEW a \in Nat, NEW b \in Nat, NEW d \in Nat \ {0}, a <= b
  PROVE  a \div d <= b \div d
<1> DEFINE p == a \div d
           q == b \div d
<1>1. /\ p \in Nat /\ p * d \in Nat /\ p * d <= a
      /\ q \in Nat /\ q * d \in Nat /\ b < q * d + d
  BY QuotientBounds
<1> HIDE DEF p, q
<1> SUFFICES ASSUME ~ (p <= q) PROVE FALSE
  BY DEF p, q
<1>2. q * d + d <= p * d
  BY <1>1, ProductIsMonotone
<1> QED BY <1>1, <1>2

(* A number below c * d has a quotient by d below c.                       *)
LEMMA QuotientIsBelow ==
  ASSUME NEW a \in Nat, NEW d \in Nat \ {0}, NEW c \in Nat, a < c * d
  PROVE  a \div d < c
<1> DEFINE p == a \div d
<1>1. p \in Nat /\ p * d \in Nat /\ p * d <= a
  BY QuotientBounds
<1> HIDE DEF p
<1> SUFFICES ASSUME ~ (p < c) PROVE FALSE
  BY DEF p
<1>2. c * d \in Nat
  OBVIOUS
<1>3. CASE p = c
  BY <1>1, <1>2, <1>3
<1>4. CASE p # c
  <2>1. c * d + d <= p * d
    BY <1>1, <1>4, ProductIsMonotone
  <2> QED BY <1>1, <1>2, <2>1
<1> QED BY <1>3, <1>4

(* The stages come one after the other, all before the last, at the end.   *)
LEMMA StagesComeInOrder ==
  ASSUME NEW start \in Nat, NEW end \in Nat, start < end,
         NEW n \in Nat \ {0}, NEW j \in 1 .. n, NEW k \in 1 .. n, j <= k
  PROVE  /\ StageInstant(start, end, j, n) \in Nat
         /\ StageInstant(start, end, k, n) \in Nat
         /\ StageInstant(start, end, n, n) = end
         /\ StageInstant(start, end, j, n) <= StageInstant(start, end, k, n)
         /\ j # n => StageInstant(start, end, j, n) < end
<1> DEFINE l == end - start
           Part(i) == (l * (i - 1)) \div (n - 1)
<1>1. l \in Nat \ {0} /\ end = start + l
  OBVIOUS
<1> HIDE DEF l
<1>2. ASSUME NEW i \in 1 .. n, i # n
      PROVE  /\ n - 1 \in Nat \ {0} /\ l * (i - 1) \in Nat
             /\ Part(i) \in Nat /\ Part(i) < l
  <2>1. n - 1 \in Nat \ {0} /\ i - 1 \in Nat /\ (i - 1) + 1 <= n - 1
    BY <1>2
  <2>2. (i - 1) * l + l <= (n - 1) * l
    BY <1>1, <2>1, ProductIsMonotone
  <2>3. \A p \in Nat : p * l = l * p /\ l * p \in Nat
    BY <1>1
  <2>4. l * (i - 1) + l <= l * (n - 1) /\ l * (i - 1) \in Nat /\ l * (n - 1) \in Nat
    BY <2>1, <2>2, <2>3
  <2>5. l * (i - 1) < l * (n - 1)
    BY <1>1, <2>4
  <2>6. Part(i) < l
    BY <1>1, <2>1, <2>4, <2>5, QuotientIsBelow
  <2>7. Part(i) \in Nat
    BY <2>1, <2>4, QuotientBounds
  <2> QED BY <2>1, <2>4, <2>6, <2>7
<1>3. /\ StageInstant(start, end, n, n) = end
      /\ \A i \in 1 .. n : i # n => StageInstant(start, end, i, n) = start + Part(i)
  BY DEF StageInstant, l
<1>4. ASSUME j # n, k # n PROVE Part(j) <= Part(k)
  <2>1. /\ n - 1 \in Nat \ {0} /\ l * (j - 1) \in Nat /\ l * (k - 1) \in Nat
    BY <1>2, <1>4
  <2>2. l * (j - 1) <= l * (k - 1)
    <3>1. CASE j = k
      BY <2>1, <3>1
    <3>2. CASE j # k
      <4>1. (j - 1) + 1 <= k - 1 /\ j - 1 \in Nat /\ k - 1 \in Nat
        BY <3>2
      <4>2. (j - 1) * l + l <= (k - 1) * l
        BY <1>1, <4>1, ProductIsMonotone
      <4>3. \A p \in Nat : p * l = l * p
        BY <1>1
      <4> QED BY <1>1, <2>1, <4>1, <4>2, <4>3
    <3> QED BY <3>1, <3>2
  <2> QED BY <2>1, <2>2, QuotientIsMonotone
<1> HIDE DEF Part
<1>5. CASE j = n
  BY <1>3, <1>5
<1>6. CASE j # n /\ k = n
  BY <1>1, <1>2, <1>3, <1>6
<1>7. CASE j # n /\ k # n
  BY <1>1, <1>2, <1>3, <1>4, <1>7
<1> QED BY <1>5, <1>6, <1>7

-----------------------------------------------------------------------------
(* The stages of a rollout, for every number of stages                     *)

(* The products of ordered factors are ordered.                            *)
LEMMA ProductsAreOrdered ==
  ASSUME NEW a \in Nat, NEW b \in Nat, NEW c \in Nat, NEW d \in Nat, a <= b, c <= d
  PROVE  a * c <= b * d
<1>1. PICK e \in Nat : b = a + e
  <2>1. b - a \in Nat /\ b = a + (b - a)
    OBVIOUS
  <2> QED BY <2>1
<1>2. PICK f \in Nat : d = c + f
  <2>1. d - c \in Nat /\ d = c + (d - c)
    OBVIOUS
  <2> QED BY <2>1
<1>3. b * d = a * c + a * f + e * c + e * f
  BY <1>1, <1>2
<1>4. a * c \in Nat /\ a * f \in Nat /\ e * c \in Nat /\ e * f \in Nat
  OBVIOUS
<1> QED BY <1>3, <1>4

(* Rounding to the nearest integer, with ties decided either way, does not *)
(* turn the order of two different quotients around.                       *)
LEMMA RoundedIsMonotone ==
  ASSUME NEW n \in Nat \ {0}, NEW j \in Nat, NEW k \in Nat, j < k,
         NEW p \in Rounded(j, n), NEW q \in Rounded(k, n)
  PROVE  p <= q
<1>1. /\ p \in Nat /\ q \in Nat
      /\ 200 * j - n <= 2 * p * n /\ 2 * p * n <= 200 * j + n
      /\ 200 * k - n <= 2 * q * n /\ 2 * q * n <= 200 * k + n
  BY DEF Rounded
<1> SUFFICES ASSUME ~ (p <= q) PROVE FALSE
  OBVIOUS
<1>2. q + 1 <= p
  BY <1>1
<1>3. q * n + n <= p * n
  BY <1>1, <1>2, ProductIsMonotone
<1>4. p * n \in Nat /\ q * n \in Nat /\ 2 * p * n = 2 * (p * n) /\ 2 * q * n = 2 * (q * n)
  BY <1>1
<1>5. 2 * (p * n) <= 200 * j + n /\ 200 * k - n <= 2 * (q * n)
  BY <1>1, <1>4
<1>6. 200 * j + 200 <= 200 * k
  OBVIOUS
<1> QED BY <1>3, <1>4, <1>5, <1>6

(* From one stage to the next the target variant's weight does not go down *)
(* and the default variant's does not go up, so the target's share of the  *)
(* whole does not go down: a rollout never takes the variant back from     *)
(* part of its audience.  For every number of stages, before the weights   *)
(* are divided by their greatest common divisor.                           *)
THEOREM StagesNeverShrink ==
  ASSUME NEW default, NEW target, default # target,
         NEW n \in Nat \ {0}, NEW k \in 1 .. n - 2,
         NEW v \in StageWeights(default, target, k, n),
         NEW w \in StageWeights(default, target, k + 1, n)
  PROVE  /\ v[target] <= w[target]
         /\ w[default] <= v[default]
         /\ v[target] * (w[target] + w[default]) <= w[target] * (v[target] + v[default])
<1>1. PICK p \in Rounded(k, n), q \in Rounded(n - k, n) :
        v = [x \in {default, target} |-> AtLeastOne(IF x = target THEN p ELSE q)]
  BY DEF StageWeights
<1>2. PICK r \in Rounded(k + 1, n), s \in Rounded(n - (k + 1), n) :
        w = [x \in {default, target} |-> AtLeastOne(IF x = target THEN r ELSE s)]
  BY DEF StageWeights
<1>3. /\ k \in Nat /\ k + 1 \in Nat /\ k < k + 1
      /\ n - k \in Nat /\ n - (k + 1) \in Nat /\ n - (k + 1) < n - k
  OBVIOUS
<1>4. p <= r /\ s <= q
  BY <1>3, RoundedIsMonotone
<1>5. p \in Nat /\ q \in Nat /\ r \in Nat /\ s \in Nat
  BY DEF Rounded
<1>6. /\ v[target] = AtLeastOne(p) /\ v[default] = AtLeastOne(q)
      /\ w[target] = AtLeastOne(r) /\ w[default] = AtLeastOne(s)
  BY <1>1, <1>2
<1>7. /\ v[target] \in Nat /\ v[default] \in Nat /\ w[target] \in Nat /\ w[default] \in Nat
      /\ v[target] <= w[target] /\ w[default] <= v[default]
  BY <1>4, <1>5, <1>6 DEF AtLeastOne
<1>8. v[target] * w[default] <= w[target] * v[default]
  BY <1>7, ProductsAreOrdered
<1>9. /\ v[target] * (w[target] + w[default]) = v[target] * w[target] + v[target] * w[default]
      /\ w[target] * (v[target] + v[default]) = v[target] * w[target] + w[target] * v[default]
  BY <1>7
<1>10. \A a, b, c \in Nat : b <= c => a + b <= a + c
  OBVIOUS
<1>11. /\ v[target] * w[target] \in Nat /\ v[target] * w[default] \in Nat
       /\ w[target] * v[default] \in Nat
  BY <1>7
<1> QED BY <1>7, <1>8, <1>9, <1>10, <1>11

-----------------------------------------------------------------------------
(* Types, and the order of what is kept                                    *)

(* The evaluations a schedule may hold: authored ones, and those of the    *)
(* stages of the rollout.                                                  *)
StageEvaluations ==
  IF HasStages
  THEN {[Base EXCEPT !.action = a] :
          a \in UNION {StageActions(env.rollout, k) : k \in 1 .. env.rollout.stages}}
  ELSE {}
Entry == [at : Nat, evaluation : Evaluations \cup StageEvaluations]

SequencesOK ==
  /\ schedule \in Seq(Entry)
  /\ kept \in Seq(Entry)
  /\ phase = "stages" => HasStages
  /\ phase \in {"begin", "stages", "steps"} => kept = <<>> /\ pending = {}

(* What the pruning has still to take is not older than what it kept.      *)
PendingIsLater ==
  kept # <<>> => \A i \in pending : Last(kept).at <= schedule[i].at

IInv == TypeOK /\ SequencesOK /\ PendingIsLater /\ KeptIsCanonical

(* The last element of a list that is not empty.                           *)
LEMMA LastOf ==
  ASSUME NEW S, NEW s \in Seq(S), s # <<>>
  PROVE  Len(s) \in Nat \ {0} /\ Last(s) \in S /\ Last(s) = s[Len(s)]
  BY EmptySeq, ElementOfSeq DEF Last

(* The initial states satisfy the invariant.                               *)
LEMMA InitIInv == Init => IInv
<1> SUFFICES ASSUME Init PROVE IInv
  OBVIOUS
<1>1. schedule = <<>> /\ kept = <<>> /\ Len(kept) = 0 /\ pending = {}
  BY EmptySeq DEF Init
<1>2. TypeOK
  BY <1>1 DEF Init, TypeOK
<1>3. SequencesOK
  BY <1>1, EmptySeq DEF Init, SequencesOK
<1> QED BY <1>1, <1>2, <1>3 DEF IInv, PendingIsLater, KeptIsCanonical

(* No step changes the environment, nor what is derived from it.           *)
LEMMA EnvironmentFixed ==
  ASSUME env' = env
  PROVE  Entry' = Entry /\ (HasStages' <=> HasStages) /\ Base' = Base
<1>1. (HasStages' <=> HasStages) /\ Base' = Base
  BY DEF HasStages, Base
<1>2. StageEvaluations' = StageEvaluations
  BY <1>1 DEF StageEvaluations
<1> QED BY <1>1, <1>2 DEF Entry

(* Steps that leave the sequences alone.                                   *)
LEMMA QuietSteps ==
  ASSUME IInv,
         UNCHANGED <<env, schedule, kept>>,
         pending' \subseteq pending,
         at' \in Nat \ {0},
         phase' \in {"begin", "stages", "steps", "prune", "validate", "lowered", "failed"},
         failure' \in {"none", "stages", "duplicate", "tie", "limit", "invalid"},
         phase' = "stages" => HasStages,
         phase' \in {"begin", "stages", "steps"} => phase \in {"begin", "stages", "steps"}
  PROVE  IInv'
<1>1. TypeOK'
  BY DEF IInv, TypeOK
<1>2. Entry' = Entry /\ (HasStages' <=> HasStages)
  BY EnvironmentFixed
<1>3. SequencesOK'
  BY <1>2 DEF IInv, SequencesOK
<1>4. PendingIsLater'
  BY DEF IInv, PendingIsLater, Last
<1>5. KeptIsCanonical'
  BY DEF IInv, KeptIsCanonical, Base
<1> QED BY <1>1, <1>3, <1>4, <1>5 DEF IInv

(* A failure changes the phase and its reason only.                        *)
LEMMA FailStep ==
  ASSUME IInv, NEW why \in {"stages", "duplicate", "tie", "limit", "invalid"}, Fail(why)
  PROVE  IInv'
<1>1. at' \in Nat \ {0}
  BY DEF Fail, IInv, TypeOK
<1> QED BY <1>1, QuietSteps DEF Fail

(* The schedule grows by one entry, before any pruning.                    *)
LEMMA GrowStep ==
  ASSUME IInv, phase \in {"stages", "steps"}, NEW e \in Entry,
         schedule' = Append(schedule, e),
         at' = at + 1,
         UNCHANGED <<env, phase, pending, kept, failure>>
  PROVE  IInv'
<1>1. kept = <<>> /\ pending = {} /\ Len(kept) = 0
  BY EmptySeq DEF IInv, SequencesOK
<1>2. schedule \in Seq(Entry)
  BY DEF IInv, SequencesOK
<1>3. /\ schedule' \in Seq(Entry)
      /\ Len(schedule') = Len(schedule) + 1
      /\ \A i \in 1 .. Len(schedule) : schedule'[i] = schedule[i]
      /\ schedule'[Len(schedule) + 1] = e
  BY <1>2, AppendProperties
<1>4. Entry' = Entry /\ (HasStages' <=> HasStages) /\ Base' = Base
  BY EnvironmentFixed
<1>5. \A i \in DOMAIN schedule' : schedule'[i].at \in Nat
  <2>1. \A i \in 1 .. Len(schedule') : schedule'[i] \in Entry
    BY <1>3, ElementOfSeq
  <2>2. DOMAIN schedule' = 1 .. Len(schedule')
    BY <1>3, LenProperties
  <2> QED BY <2>1, <2>2 DEF Entry
<1>6. TypeOK'
  <2>1. at' \in Nat \ {0}
    BY DEF IInv, TypeOK
  <2>2. DOMAIN kept = {}
    BY <1>1
  <2>3. env' \in Environments
    BY DEF IInv, TypeOK
  <2>4. /\ phase' \in {"begin", "stages", "steps", "prune", "validate", "lowered", "failed"}
        /\ failure' \in {"none", "stages", "duplicate", "tie", "limit", "invalid"}
    BY DEF IInv, TypeOK
  <2>5. pending' = {} /\ DOMAIN kept' = {}
    BY <1>1, <2>2
  <2> QED BY <1>5, <2>1, <2>3, <2>4, <2>5 DEF TypeOK
<1>7. SequencesOK'
  BY <1>1, <1>3, <1>4 DEF IInv, SequencesOK
<1>8. PendingIsLater' /\ KeptIsCanonical'
  BY <1>1 DEF PendingIsLater, KeptIsCanonical
<1> QED BY <1>6, <1>7, <1>8 DEF IInv

(* Each stage appended is an entry with a date and an evaluation of a      *)
(* stage.                                                                  *)
LEMMA AppendStageStep == ASSUME IInv, AppendStage PROVE IInv'
<1>1. HasStages /\ env \in Environments /\ at \in Nat \ {0}
  BY DEF IInv, TypeOK, SequencesOK, AppendStage
<1> DEFINE r == env.rollout
<1>2. /\ r.start \in Nat /\ r.end \in Nat /\ r.start < r.end
      /\ r.stages \in Nat \ {0} /\ at \in 1 .. r.stages
  BY <1>1, LoweringAssumption DEF HasStages, WellFormed, AppendStage
<1>3. StageInstant(r.start, r.end, at, r.stages) \in Nat
  <2>1. at <= at
    BY <1>2
  <2> QED BY <1>2, <2>1, StagesComeInOrder
<1>4. PICK a \in StageActions(r, at) :
        schedule' = Append(schedule, Snapshot(StageInstant(r.start, r.end, at, r.stages),
                                              [Base EXCEPT !.action = a]))
  BY DEF AppendStage
<1>5. [Base EXCEPT !.action = a] \in StageEvaluations
  BY <1>1, <1>2, <1>4, Zenon DEF StageEvaluations
<1>6. Snapshot(StageInstant(r.start, r.end, at, r.stages), [Base EXCEPT !.action = a]) \in Entry
  BY <1>3, <1>5 DEF Entry, Snapshot
<1> QED BY <1>4, <1>6, GrowStep DEF AppendStage

(* Each step appended is an entry with its date and its evaluation.        *)
LEMMA AppendStepStep == ASSUME IInv, AppendStep PROVE IInv'
<1>1. env \in Environments /\ at \in Nat \ {0}
  BY DEF IInv, TypeOK
<1>2. env.steps \in Seq([at : Nat, evaluation : Evaluations, disabled : BOOLEAN])
  BY <1>1, LoweringAssumption DEF WellFormed
<1>3. at \in 1 .. Len(env.steps)
  BY <1>1, <1>2, LenProperties DEF AppendStep, AtStep
<1>4. env.steps[at] \in [at : Nat, evaluation : Evaluations, disabled : BOOLEAN]
  BY <1>2, <1>3, ElementOfSeq
<1>5. Snapshot(env.steps[at].at, env.steps[at].evaluation) \in Entry
  BY <1>4 DEF Snapshot, Entry
<1>6. CASE SameEvaluation(schedule, env.steps[at].evaluation)
  <2>1. at' \in Nat \ {0} /\ schedule' = schedule
    BY <1>1, <1>6 DEF AppendStep
  <2>2. phase = "steps" /\ phase' = "steps" /\ failure' = failure
    BY DEF AppendStep, AtStep
  <2>3. failure' \in {"none", "stages", "duplicate", "tie", "limit", "invalid"}
    BY <2>2 DEF IInv, TypeOK
  <2> QED BY <2>1, <2>2, <2>3, QuietSteps DEF AppendStep
<1>7. CASE ~ SameEvaluation(schedule, env.steps[at].evaluation)
  <2>1. schedule' = Append(schedule, Snapshot(env.steps[at].at, env.steps[at].evaluation))
    BY <1>7 DEF AppendStep
  <2> QED BY <1>5, <2>1, GrowStep DEF AppendStep, AtStep
<1> QED BY <1>6, <1>7

(* Pruning begins with all the entries to take and none kept.              *)
LEMMA EndStepsStep == ASSUME IInv, EndSteps PROVE IInv'
<1>1. kept = <<>> /\ Len(kept) = 0 /\ DOMAIN kept = {}
  BY EmptySeq DEF IInv, SequencesOK, EndSteps
<1>2. Entry' = Entry /\ (HasStages' <=> HasStages)
  BY EnvironmentFixed DEF EndSteps, GoTo
<1>3. TypeOK'
  BY <1>1 DEF IInv, TypeOK, EndSteps, GoTo
<1>4. SequencesOK'
  BY <1>1, <1>2 DEF IInv, SequencesOK, EndSteps, GoTo
<1> QED BY <1>1, <1>3, <1>4 DEF IInv, PendingIsLater, KeptIsCanonical, EndSteps

(* A dropped entry leaves what is kept alone.                              *)
LEMMA DropStep == ASSUME IInv, NEW i \in pending, Drop(i) PROVE IInv'
<1>1. /\ phase = "prune" /\ phase' = "prune" /\ at' \in Nat \ {0}
      /\ failure' \in {"none", "stages", "duplicate", "tie", "limit", "invalid"}
  BY DEF Drop, Takes, IInv, TypeOK
<1> QED BY <1>1, QuietSteps DEF Drop

(* A kept entry is newer than those kept before, and changes something.    *)
LEMMA KeepStep == ASSUME IInv, NEW i \in pending, Keep(i) PROVE IInv'
<1> DEFINE e == schedule[i]
<1>1. /\ kept \in Seq(Entry) /\ schedule \in Seq(Entry)
      /\ i \in DOMAIN schedule
  BY DEF IInv, SequencesOK, TypeOK
<1>2. DOMAIN schedule = 1 .. Len(schedule) /\ Len(kept) \in Nat
  BY <1>1, LenProperties
<1>3. e \in Entry /\ e.at \in Nat
  <2>1. schedule[i] \in Entry
    BY <1>1, <1>2, ElementOfSeq
  <2> QED BY <2>1 DEF Entry
<1>4. /\ kept' \in Seq(Entry)
      /\ Len(kept') = Len(kept) + 1
      /\ \A j \in 1 .. Len(kept) : kept'[j] = kept[j]
      /\ kept'[Len(kept) + 1] = e
  BY <1>1, <1>3, AppendProperties DEF Keep
<1>5. kept' # <<>> /\ Last(kept') = e
  BY <1>2, <1>4, EmptySeq DEF Last
<1>6. Entry' = Entry /\ (HasStages' <=> HasStages) /\ Base' = Base
  BY EnvironmentFixed DEF Keep
<1>7. TypeOK'
  <2>1. DOMAIN kept = 1 .. Len(kept) /\ DOMAIN kept' = 1 .. Len(kept) + 1
    BY <1>1, <1>4, LenProperties
  <2>2. \A j \in DOMAIN kept' : \E k \in DOMAIN schedule : kept'[j] = schedule[k]
    BY <1>1, <1>2, <1>4, <2>1 DEF IInv, TypeOK
  <2> QED BY <2>2 DEF IInv, TypeOK, Keep
<1>8. SequencesOK'
  BY <1>4, <1>6 DEF IInv, SequencesOK, Keep, Takes
<1>9. PendingIsLater'
  <2>1. \A j \in pending' : e.at <= schedule[j].at
    BY DEF Keep, Takes
  <2> QED BY <1>5, <2>1 DEF PendingIsLater, Keep
<1>10. KeptIsCanonical'
  <2>1. CASE kept = <<>>
    <3>1. Len(kept) = 0
      BY <2>1, EmptySeq
    <3>2. 2 .. Len(kept') = {} /\ kept'[1] = e
      BY <1>4, <3>1
    <3>3. e.evaluation # Base
      BY <2>1 DEF Keep, ChangesNothing
    <3> QED BY <1>6, <3>2, <3>3 DEF KeptIsCanonical
  <2>2. CASE kept # <<>>
    <3>1. /\ Len(kept) \in Nat \ {0} /\ Last(kept) = kept[Len(kept)]
          /\ Last(kept) \in Entry
      BY <1>1, <2>2, LastOf
    <3>2. Last(kept).at <= e.at /\ Last(kept).at # e.at
      BY <2>2 DEF IInv, PendingIsLater, Keep, SameInstant
    <3>3. Last(kept).at < e.at /\ Last(kept).evaluation # e.evaluation
      BY <1>3, <2>2, <3>1, <3>2 DEF Keep, ChangesNothing, Entry
    <3>4. ASSUME NEW j \in 2 .. Len(kept')
          PROVE  /\ kept'[j - 1].at < kept'[j].at
                 /\ kept'[j - 1].evaluation # kept'[j].evaluation
      <4>1. CASE j = Len(kept')
        <5>1. kept'[j] = e /\ kept'[j - 1] = Last(kept)
          BY <1>4, <3>1, <4>1
        <5> QED BY <3>3, <5>1
      <4>2. CASE j # Len(kept')
        <5>1. j \in 2 .. Len(kept) /\ j \in 1 .. Len(kept) /\ j - 1 \in 1 .. Len(kept)
          BY <1>4, <3>1, <4>2
        <5>2. kept'[j] = kept[j] /\ kept'[j - 1] = kept[j - 1]
          BY <1>4, <5>1
        <5> QED BY <5>1, <5>2 DEF IInv, KeptIsCanonical
      <4> QED BY <4>1, <4>2
    <3>5. kept'[1] = kept[1] /\ kept[1].evaluation # Base
      BY <1>4, <2>2, <3>1 DEF IInv, KeptIsCanonical
    <3> QED BY <1>6, <3>4, <3>5 DEF KeptIsCanonical
  <2> QED BY <2>1, <2>2
<1> QED BY <1>7, <1>8, <1>9, <1>10 DEF IInv

(* Every step preserves the invariant.                                     *)
LEMMA NextIInv == IInv /\ [Next]_vars => IInv'
<1> SUFFICES ASSUME IInv, [Next]_vars PROVE IInv'
  OBVIOUS
<1>0. /\ at \in Nat \ {0} /\ at + 1 \in Nat \ {0}
      /\ failure \in {"none", "stages", "duplicate", "tie", "limit", "invalid"}
  BY DEF IInv, TypeOK
<1>1. CASE TooManyStages
  BY <1>1, FailStep DEF TooManyStages
<1>2. CASE NoStages
  BY <1>0, <1>2, QuietSteps DEF NoStages, GoTo
<1>3. CASE BeginStages
  BY <1>0, <1>3, QuietSteps DEF BeginStages, GoTo
<1>4. CASE AppendStage
  BY <1>4, AppendStageStep
<1>5. CASE EndStages
  BY <1>0, <1>5, QuietSteps DEF EndStages, GoTo
<1>6. CASE SkipDisabled
  BY <1>0, <1>6, QuietSteps DEF SkipDisabled, AtStep
<1>7. CASE RejectDuplicate
  BY <1>7, FailStep DEF RejectDuplicate
<1>8. CASE AppendStep
  BY <1>8, AppendStepStep
<1>9. CASE EndSteps
  BY <1>9, EndStepsStep
<1>10. CASE EndPrune
  BY <1>0, <1>10, QuietSteps DEF EndPrune, GoTo
<1>11. ASSUME NEW i \in pending, RejectTie(i) \/ Drop(i) \/ Keep(i) PROVE IInv'
  <2>1. CASE RejectTie(i)
    BY <2>1, FailStep DEF RejectTie
  <2> QED BY <1>11, <2>1, DropStep, KeepStep
<1>12. CASE Accept
  BY <1>0, <1>12, QuietSteps DEF Accept, GoTo
<1>13. CASE Reject
  <2>1. PICK why \in {"limit", "invalid"} : Fail(why)
    BY <1>13 DEF Reject
  <2> QED BY <2>1, FailStep
<1>14. CASE UNCHANGED vars
  <2>1. /\ phase' = phase /\ at' = at /\ failure' = failure /\ pending' = pending
        /\ UNCHANGED <<env, schedule, kept>>
    BY <1>14 DEF vars
  <2>2. phase \in {"begin", "stages", "steps", "prune", "validate", "lowered", "failed"}
        /\ (phase = "stages" => HasStages)
    BY DEF IInv, TypeOK, SequencesOK
  <2> QED BY <1>0, <2>1, <2>2, QuietSteps
<1> QED
  BY <1>1, <1>2, <1>3, <1>4, <1>5, <1>6, <1>7, <1>8, <1>9, <1>10, <1>11, <1>12, <1>13, <1>14
  DEF Next, LowerRollout, LowerSteps, Prune, Check

(* The invariant of types and order holds in every state.                 *)
THEOREM Invariance == Spec => []IInv
  BY InitIInv, NextIInv, PTL DEF Spec

(* The lowering keeps its types: every date it computes for a stage is a   *)
(* natural number, and what is kept is in the schedule.                    *)
THEOREM LoweringTypeCorrect == Spec => []TypeOK
<1>1. IInv => TypeOK
  BY DEF IInv
<1> QED BY <1>1, Invariance, PTL

(* Whatever the rollout and the steps, the snapshots kept are in strictly  *)
(* ascending order of date, no two neighbours are equal and the first one  *)
(* is not the base: what normalized.proto asks of a schedule.              *)
THEOREM ScheduleIsCanonical == Spec => []KeptIsCanonical
<1>1. IInv => KeptIsCanonical
  BY DEF IInv
<1> QED BY <1>1, Invariance, PTL

-----------------------------------------------------------------------------
(* The distributions of the stages                                         *)

(* The weights of a stage before the last one.                             *)
LEMMA StageWeightsFacts ==
  ASSUME NEW default, NEW target, default # target,
         NEW n \in Nat \ {0}, NEW k \in 1 .. n, k # n,
         NEW w \in StageWeights(default, target, k, n)
  PROVE  IsSplit(w, default, target)
<1>1. PICK p \in Rounded(k, n), q \in Rounded(n - k, n) :
        w = [x \in {default, target} |-> AtLeastOne(IF x = target THEN p ELSE q)]
  BY DEF StageWeights
<1>2. p \in Nat /\ q \in Nat
  BY DEF Rounded
<1>3. w[target] = AtLeastOne(p) /\ w[default] = AtLeastOne(q)
  BY <1>1
<1> QED BY <1>1, <1>2, <1>3 DEF AtLeastOne, IsSplit

(* What validateAction asks of a distribution, a stage's has.              *)
LEMMA StageActionsAreValid ==
  ASSUME HasStages, env \in Environments,
         NEW k \in 1 .. env.rollout.stages, NEW a \in StageActions(env.rollout, k)
  PROVE  ValidAction(a)
<1> DEFINE r == env.rollout
<1>1. r.stages \in Nat \ {0} /\ Off # r.target
  BY LoweringAssumption DEF HasStages, WellFormed
<1>2. CASE k = r.stages
  <2>1. a = Serve(r.target)
    BY <1>2 DEF StageActions
  <2>2. DOMAIN a = {r.target} /\ Cardinality({r.target}) = 1
    BY <2>1, FS_Singleton DEF Serve
  <2>3. Cardinality(DOMAIN a) = 1
    BY <2>2
  <2> QED BY <2>3 DEF ValidAction
<1>3. CASE k # r.stages
  <2>1. PICK w \in StageWeights(Off, r.target, k, r.stages) : a = canonicalWeights(w)
    BY <1>3 DEF StageActions
  <2>2. IsSplit(w, Off, r.target)
    BY <1>1, <1>3, <2>1, StageWeightsFacts
  <2>3. IsSplit(a, Off, r.target) /\ Divisor(a) = 1
    BY <1>1, <2>1, <2>2, CanonicalSplit
  <2> QED BY <2>3 DEF ValidAction, IsSplit
<1> QED BY <1>2, <1>3

(* A positive factor cancels.                                              *)
LEMMA CancelFactor ==
  ASSUME NEW f \in Nat \ {0}, NEW a \in Nat, NEW b \in Nat, a * f <= b * f
  PROVE  a <= b
<1> SUFFICES ASSUME ~ (a <= b) PROVE FALSE
  OBVIOUS
<1>1. b * f + f <= a * f
  BY ProductIsMonotone
<1>2. a * f \in Nat /\ b * f \in Nat
  OBVIOUS
<1> QED BY <1>1, <1>2

(* Dividing the weights of each stage by their divisor leaves the target's *)
(* share as it was.                                                        *)
LEMMA CanonicalStagesNeverShrink ==
  ASSUME NEW default, NEW target, default # target,
         NEW n \in Nat \ {0}, NEW k \in 1 .. n - 2,
         NEW v \in StageWeights(default, target, k, n),
         NEW w \in StageWeights(default, target, k + 1, n)
  PROVE  LET a == canonicalWeights(v)
             b == canonicalWeights(w)
         IN  a[target] * (b[default] + b[target]) <= b[target] * (a[default] + a[target])
<1> DEFINE a == canonicalWeights(v)
           b == canonicalWeights(w)
<1>1. k \in 1 .. n /\ k # n /\ k + 1 \in 1 .. n /\ k + 1 # n
  OBVIOUS
<1>2. IsSplit(v, default, target) /\ IsSplit(w, default, target)
  BY <1>1, StageWeightsFacts
<1>3. IsSplit(a, default, target) /\ Scales(v, a, default, target)
  BY <1>2, CanonicalSplit
<1>4. IsSplit(b, default, target) /\ Scales(w, b, default, target)
  BY <1>2, CanonicalSplit
<1> HIDE DEF a, b
<1> PICK g \in Nat \ {0} : v[default] = g * a[default] /\ v[target] = g * a[target]
  BY <1>3 DEF Scales
<1> PICK h \in Nat \ {0} : w[default] = h * b[default] /\ w[target] = h * b[target]
  BY <1>4 DEF Scales
<1>5. v[target] <= w[target] /\ w[default] <= v[default]
  BY StagesNeverShrink
<1>6. v[target] * w[default] <= w[target] * v[default]
  BY <1>2, <1>5, ProductsAreOrdered DEF IsSplit
<1>7. /\ v[target] * w[default] = (a[target] * b[default]) * (g * h)
      /\ w[target] * v[default] = (b[target] * a[default]) * (g * h)
  <2>1. \A p, q, x, y \in Nat : (p * x) * (q * y) = (x * y) * (p * q)
    OBVIOUS
  <2>2. \A p, q, x, y \in Nat : (q * y) * (p * x) = (y * x) * (p * q)
    OBVIOUS
  <2> QED BY <1>3, <1>4, <2>1, <2>2 DEF IsSplit
<1>8. g * h \in Nat \ {0} /\ a[target] * b[default] \in Nat /\ b[target] * a[default] \in Nat
  BY <1>3, <1>4 DEF IsSplit
<1>9. a[target] * b[default] <= b[target] * a[default]
  BY <1>6, <1>7, <1>8, CancelFactor
<1>10. /\ a[target] * (b[default] + b[target]) = a[target] * b[default] + a[target] * b[target]
       /\ b[target] * (a[default] + a[target]) = b[target] * a[default] + a[target] * b[target]
  BY <1>3, <1>4 DEF IsSplit
<1>11. a[target] * b[target] \in Nat
  BY <1>3, <1>4 DEF IsSplit
<1>12. a[target] * (b[default] + b[target]) <= b[target] * (a[default] + a[target])
  <2>1. \A p, q, r \in Nat : p <= q => p + r <= q + r
    OBVIOUS
  <2> QED BY <1>8, <1>9, <1>10, <1>11, <2>1
<1> QED BY <1>12 DEF a, b

(* A list of dates each of which is later than the one before is ascending.*)
LEMMA NeighboursAscend ==
  ASSUME NEW n \in Nat, NEW date, \A i \in 1 .. n : date[i] \in Nat,
         \A i \in 2 .. n : date[i - 1] < date[i],
         NEW i \in 1 .. n, NEW j \in 1 .. n, i < j
  PROVE  date[i] < date[j]
<1> DEFINE bad == {k \in 1 .. n : i < k /\ ~ (date[i] < date[k])}
<1> SUFFICES ASSUME bad # {} PROVE FALSE
  OBVIOUS
<1>1. PICK k \in bad : \A l \in bad : ~ (l < k)
  <2>1. bad \subseteq Nat
    OBVIOUS
  <2> HIDE DEF bad
  <2> QED BY <2>1, LeastNumber
<1>2. k \in 2 .. n /\ k - 1 \in 1 .. n /\ i <= k - 1 /\ date[k - 1] < date[k]
  OBVIOUS
<1>3. i = k - 1 \/ date[i] < date[k - 1]
  BY <1>1, <1>2
<1>4. date[i] < date[k]
  <2>1. date[i] \in Nat /\ date[k - 1] \in Nat /\ date[k] \in Nat
    BY <1>2
  <2> QED BY <1>2, <1>3, <2>1
<1> QED BY <1>4

Steps == [at : Nat, evaluation : Evaluations, disabled : BOOLEAN]

(* What authoring validation has established about the steps.              *)
LEMMA StepFacts ==
  ASSUME env \in Environments
  PROVE  /\ env.steps \in Seq(Steps)
         /\ Len(env.steps) \in Nat /\ DOMAIN env.steps = 1 .. Len(env.steps)
         /\ \A i \in 1 .. Len(env.steps) :
              env.steps[i] \in Steps /\ env.steps[i].at \in Nat
         /\ \A i, j \in 1 .. Len(env.steps) : i < j => env.steps[i].at < env.steps[j].at
<1>1. /\ env.steps \in Seq(Steps)
      /\ \A i \in 2 .. Len(env.steps) : env.steps[i - 1].at < env.steps[i].at
  BY LoweringAssumption DEF WellFormed, Steps
<1>2. Len(env.steps) \in Nat /\ DOMAIN env.steps = 1 .. Len(env.steps)
  BY <1>1, LenProperties
<1>3. ASSUME NEW i \in 1 .. Len(env.steps)
      PROVE  env.steps[i] \in Steps /\ env.steps[i].at \in Nat
  <2>1. env.steps[i] \in Steps
    BY <1>1, ElementOfSeq
  <2> QED BY <2>1 DEF Steps
<1>4. ASSUME NEW i \in 1 .. Len(env.steps), NEW j \in 1 .. Len(env.steps), i < j
      PROVE  env.steps[i].at < env.steps[j].at
  <2> DEFINE n == Len(env.steps)
             date == [k \in 1 .. n |-> env.steps[k].at]
  <2>1. \A k \in 1 .. n : date[k] \in Nat
    BY <1>3
  <2>2. \A k \in 2 .. n : date[k - 1] < date[k]
    <3>1. \A k \in 2 .. n : k \in 1 .. n /\ k - 1 \in 1 .. n
      BY <1>2
    <3> QED BY <1>1, <3>1
  <2>3. n \in Nat
    BY <1>2
  <2>4. date[i] = env.steps[i].at /\ date[j] = env.steps[j].at
    OBVIOUS
  <2> HIDE DEF date, n
  <2>5. i \in 1 .. n /\ j \in 1 .. n
    BY DEF n
  <2>6. date[i] < date[j]
    BY <1>4, <2>1, <2>2, <2>3, <2>5, NeighboursAscend
  <2> QED BY <2>4, <2>6
<1> QED BY <1>1, <1>2, <1>3, <1>4

(* What it has established about a rollout.                                *)
LEMMA RolloutFacts ==
  ASSUME env \in Environments, HasStages
  PROVE  /\ env.rollout.start \in Nat /\ env.rollout.end \in Nat
         /\ env.rollout.start < env.rollout.end
         /\ env.rollout.stages \in Nat \ {0} /\ Off # env.rollout.target
BY LoweringAssumption DEF HasStages, WellFormed

(* An evaluation is rules and an action, and only its action is replaced.  *)
LEMMA BaseFacts ==
  ASSUME env \in Environments
  PROVE  /\ DOMAIN Base = {"rules", "action"}
         /\ \A a : [Base EXCEPT !.action = a].action = a
<1>1. DOMAIN env.base = {"rules", "action"}
  BY LoweringAssumption DEF WellFormed, WellFormedEvaluation
<1>2. DOMAIN Base = {"rules", "action"}
  BY <1>1 DEF Base
<1>3. \A a : [Base EXCEPT !.action = a].action = a
  BY <1>2
<1> QED BY <1>2, <1>3

-----------------------------------------------------------------------------
(* What the schedule holds: the stages in their order, then enabled steps. *)

StageCount == IF HasStages THEN env.rollout.stages ELSE 0

IsStage(s, k) ==
  LET r == env.rollout
  IN \E a \in StageActions(r, k) :
       s = Snapshot(StageInstant(r.start, r.end, k, r.stages), [Base EXCEPT !.action = a])

IsStep(s, i) ==
  ~ env.steps[i].disabled /\ s = Snapshot(env.steps[i].at, env.steps[i].evaluation)

Past == {"prune", "validate", "lowered"}

LaidOut ==
  /\ phase = "begin" => schedule = <<>> /\ at = 1
  /\ phase = "stages" => Len(schedule) = at - 1
  /\ phase = "stages" => Len(schedule) <= StageCount
  /\ phase \in {"steps"} \cup Past => StageCount <= Len(schedule)
  /\ phase \in Past => at > Len(env.steps)
  /\ \A k \in 1 .. Len(schedule) : k <= StageCount => IsStage(schedule[k], k)
  /\ \A k \in 1 .. Len(schedule) : StageCount < k =>
       \E i \in 1 .. Len(env.steps) : IsStep(schedule[k], i) /\ (phase = "steps" => i < at)
  /\ \A j, k \in 1 .. Len(schedule) : StageCount < j /\ j < k => schedule[j].at < schedule[k].at

(* The types of the sequences, and those of their entries.                 *)
LEMMA ScheduleFacts ==
  ASSUME IInv
  PROVE  /\ env \in Environments /\ at \in Nat \ {0}
         /\ schedule \in Seq(Entry) /\ Len(schedule) \in Nat
         /\ DOMAIN schedule = 1 .. Len(schedule)
         /\ \A i \in 1 .. Len(schedule) : schedule[i] \in Entry /\ schedule[i].at \in Nat
         /\ kept \in Seq(Entry) /\ Len(kept) \in Nat /\ DOMAIN kept = 1 .. Len(kept)
         /\ \A i \in 1 .. Len(kept) : kept[i] \in Entry /\ kept[i].at \in Nat
<1>1. /\ env \in Environments /\ at \in Nat \ {0}
      /\ schedule \in Seq(Entry) /\ kept \in Seq(Entry)
  BY DEF IInv, TypeOK, SequencesOK
<1>2. /\ Len(schedule) \in Nat /\ DOMAIN schedule = 1 .. Len(schedule)
      /\ Len(kept) \in Nat /\ DOMAIN kept = 1 .. Len(kept)
  BY <1>1, LenProperties
<1>3. /\ \A i \in 1 .. Len(schedule) : schedule[i] \in Entry
      /\ \A i \in 1 .. Len(kept) : kept[i] \in Entry
  BY <1>1, ElementOfSeq
<1>4. \A s \in Entry : s.at \in Nat
  BY DEF Entry
<1> QED BY <1>1, <1>2, <1>3, <1>4

(* Without stages the count is zero.                                       *)
LEMMA StageCountType ==
  ASSUME env \in Environments
  PROVE  StageCount \in Nat /\ (HasStages <=> StageCount # 0)
BY RolloutFacts DEF StageCount

(* The stages and steps of an environment are those of every later state.  *)
LEMMA LayoutFixed ==
  ASSUME env' = env
  PROVE  /\ StageCount' = StageCount /\ (HasStages' <=> HasStages) /\ Base' = Base
         /\ env.steps' = env.steps
         /\ \A s, k : IsStage(s, k)' <=> IsStage(s, k)
         /\ \A s, i : IsStep(s, i)' <=> IsStep(s, i)
BY DEF StageCount, HasStages, Base, IsStage, IsStep

(* Where the steps of the loops leave what is laid out alone.              *)
LEMMA LayoutKept ==
  ASSUME IInv, LaidOut, UNCHANGED <<env, schedule>>,
         phase' # "begin" \/ (phase = "begin" /\ at' = at),
         phase' = "stages" => at' - 1 = Len(schedule) /\ Len(schedule) <= StageCount,
         phase' \in {"steps"} \cup Past => StageCount <= Len(schedule),
         phase' \in Past => at' > Len(env.steps),
         phase' = "steps" =>
           \A k \in 1 .. Len(schedule) : StageCount < k =>
             \E i \in 1 .. Len(env.steps) : IsStep(schedule[k], i) /\ i < at'
  PROVE  LaidOut'
<1>1. /\ StageCount' = StageCount /\ (HasStages' <=> HasStages) /\ Base' = Base
  BY LayoutFixed
<1>2. phase' = "begin" => schedule' = <<>> /\ at' = 1
  BY DEF LaidOut
<1>3. phase' = "stages" => Len(schedule') = at' - 1 /\ Len(schedule') <= StageCount'
  BY <1>1
<1>4. /\ phase' \in {"steps"} \cup Past => StageCount' <= Len(schedule')
      /\ phase' \in Past => at' > Len(env'.steps)
  BY <1>1
<1>5. \A k \in 1 .. Len(schedule) : k <= StageCount => IsStage(schedule[k], k)'
  BY <1>1 DEF LaidOut, IsStage
<1>6. \A k \in 1 .. Len(schedule) : StageCount < k =>
        \E i \in 1 .. Len(env.steps) : IsStep(schedule[k], i)' /\ (phase' = "steps" => i < at')
  BY DEF LaidOut, IsStep
<1>7. \A j, k \in 1 .. Len(schedule') :
        StageCount' < j /\ j < k => schedule'[j].at < schedule'[k].at
  BY <1>1 DEF LaidOut
<1> QED BY <1>1, <1>2, <1>3, <1>4, <1>5, <1>6, <1>7 DEF LaidOut

(* The stage appended is the one the loop is at.                           *)
LEMMA LayoutAppendStage ==
  ASSUME IInv, LaidOut, AppendStage
  PROVE  LaidOut'
<1>1. /\ phase = "stages" /\ phase' = "stages" /\ HasStages /\ env' = env
      /\ Len(schedule) = at - 1 /\ at <= StageCount /\ at' = at + 1
      /\ Len(schedule) \in Nat /\ at \in Nat \ {0} /\ StageCount \in Nat
  BY ScheduleFacts, StageCountType DEF LaidOut, AppendStage, IInv, SequencesOK, StageCount
<1>2. PICK s : schedule' = Append(schedule, s) /\ IsStage(s, at)
  BY DEF AppendStage, IsStage
<1>3. /\ Len(schedule') = at
      /\ \A i \in 1 .. Len(schedule) : schedule'[i] = schedule[i]
      /\ schedule'[at] = s
  <2>1. schedule \in Seq(Entry \cup {s})
    BY ScheduleFacts, SeqMonotonic
  <2> QED BY <1>1, <1>2, <2>1, AppendProperties
<1>4. StageCount' = StageCount /\ (HasStages' <=> HasStages) /\ Base' = Base
  BY <1>1, LayoutFixed
<1>5. \A k \in 1 .. Len(schedule') : IsStage(schedule'[k], k)
  BY <1>1, <1>2, <1>3 DEF LaidOut
<1>6. \A k \in 1 .. Len(schedule') : IsStage(schedule[k], k)'
  BY <1>1, <1>4, <1>5 DEF IsStage
<1> QED BY <1>1, <1>3, <1>4, <1>6 DEF LaidOut, Past

(* The step appended is newer than the steps before it.                    *)
LEMMA LayoutAppendStep ==
  ASSUME IInv, LaidOut, AppendStep
  PROVE  LaidOut'
<1>0. /\ phase = "steps" /\ phase' = "steps" /\ env' = env /\ at' = at + 1
      /\ at \in 1 .. Len(env.steps) /\ ~ env.steps[at].disabled
      /\ StageCount \in Nat /\ Len(schedule) \in Nat /\ StageCount <= Len(schedule)
      /\ env \in Environments /\ at \in Nat /\ Len(env.steps) \in Nat
  BY ScheduleFacts, StageCountType, StepFacts DEF LaidOut, AppendStep, AtStep
<1> DEFINE s == Snapshot(env.steps[at].at, env.steps[at].evaluation)
<1>1. CASE schedule' = schedule
  <2>1. \A k \in 1 .. Len(schedule) : StageCount < k =>
          \E i \in 1 .. Len(env.steps) : IsStep(schedule[k], i) /\ i < at'
    <3>1. \A i \in Nat : i < at => i < at'
      BY <1>0
    <3> QED BY <1>0, <3>1 DEF LaidOut
  <2> QED BY <1>0, <1>1, <2>1, LayoutKept DEF Past
<1>2. CASE schedule' = Append(schedule, s)
  <2>1. /\ Len(schedule') = Len(schedule) + 1
        /\ \A i \in 1 .. Len(schedule) : schedule'[i] = schedule[i]
        /\ schedule'[Len(schedule) + 1] = s
    <3>1. schedule \in Seq(Entry \cup {s})
      BY ScheduleFacts, SeqMonotonic
    <3> QED BY <1>2, <3>1, AppendProperties
  <2>2. StageCount' = StageCount /\ (HasStages' <=> HasStages) /\ Base' = Base
    BY <1>0, LayoutFixed
  <2>3. \A k \in 1 .. Len(schedule') : k <= StageCount => IsStage(schedule[k], k)'
    <3>1. \A k \in 1 .. Len(schedule') : k <= StageCount => k \in 1 .. Len(schedule)
      BY <1>0, <2>1
    <3>2. \A k \in 1 .. Len(schedule') : k <= StageCount => IsStage(schedule'[k], k)
      BY <2>1, <3>1 DEF LaidOut
    <3> QED BY <1>0, <2>2, <3>2 DEF IsStage
  <2>4. \A k \in 1 .. Len(schedule') : StageCount < k =>
          \E i \in 1 .. Len(env.steps) : IsStep(schedule[k], i)' /\ i < at'
    <3> SUFFICES ASSUME NEW k \in 1 .. Len(schedule'), StageCount < k
                 PROVE  \E i \in 1 .. Len(env.steps) : IsStep(schedule[k], i)' /\ i < at'
      OBVIOUS
    <3>1. CASE k = Len(schedule) + 1
      <4>1. PICK i \in 1 .. Len(env.steps) : i = at
        BY <1>0
      <4>2. IsStep(schedule[k], i)' /\ i < at'
        BY <1>0, <2>1, <3>1, <4>1 DEF IsStep
      <4> QED BY <4>2
    <3>2. CASE k # Len(schedule) + 1
      <4>1. k \in 1 .. Len(schedule)
        BY <1>0, <2>1, <3>2
      <4>2. PICK i \in 1 .. Len(env.steps) : IsStep(schedule[k], i) /\ i < at
        BY <1>0, <4>1 DEF LaidOut
      <4>3. IsStep(schedule[k], i)' /\ i < at'
        BY <1>0, <2>1, <4>1, <4>2 DEF IsStep
      <4> QED BY <4>3
    <3> QED BY <3>1, <3>2
  <2>5. \A j, k \in 1 .. Len(schedule') :
          StageCount < j /\ j < k => schedule'[j].at < schedule'[k].at
    <3> SUFFICES ASSUME NEW j \in 1 .. Len(schedule'), NEW k \in 1 .. Len(schedule'),
                        StageCount < j, j < k
                 PROVE  schedule'[j].at < schedule'[k].at
      OBVIOUS
    <3>1. j \in 1 .. Len(schedule)
      BY <1>0, <2>1
    <3>2. CASE k = Len(schedule) + 1
      <4>1. PICK i \in 1 .. Len(env.steps) : IsStep(schedule[j], i) /\ i < at
        BY <1>0, <3>1 DEF LaidOut
      <4>2. env.steps[i].at < env.steps[at].at
        BY <1>0, <4>1, StepFacts
      <4> QED BY <2>1, <3>1, <3>2, <4>1, <4>2 DEF IsStep, Snapshot
    <3>3. CASE k # Len(schedule) + 1
      <4>1. k \in 1 .. Len(schedule)
        BY <1>0, <2>1, <3>3
      <4> QED BY <2>1, <3>1, <4>1 DEF LaidOut
    <3> QED BY <3>2, <3>3
  <2>6. StageCount' <= Len(schedule')
    BY <1>0, <2>1, <2>2
  <2> QED BY <1>0, <2>2, <2>3, <2>4, <2>5, <2>6 DEF LaidOut, Past
<1> QED BY <1>1, <1>2 DEF AppendStep

(* Nothing is laid out to begin with.                                      *)
LEMMA InitLayout == Init => LaidOut
<1> SUFFICES ASSUME Init PROVE LaidOut
  OBVIOUS
<1>1. schedule = <<>> /\ Len(schedule) = 0 /\ phase = "begin" /\ at = 1
  BY EmptySeq DEF Init
<1> QED BY <1>1 DEF LaidOut, Past

(* Every step preserves the layout.                                        *)
LEMMA NextLayout == IInv /\ LaidOut /\ [Next]_vars => LaidOut'
<1> SUFFICES ASSUME IInv, LaidOut, [Next]_vars PROVE LaidOut'
  OBVIOUS
<1>0. /\ env \in Environments /\ at \in Nat \ {0} /\ Len(schedule) \in Nat
      /\ StageCount \in Nat /\ (HasStages <=> StageCount # 0) /\ Len(env.steps) \in Nat
  BY ScheduleFacts, StageCountType, StepFacts
<1>1. ASSUME NEW why, Fail(why) PROVE LaidOut'
  BY <1>1, LayoutKept DEF Fail, Past
<1>2. CASE TooManyStages
  BY <1>1, <1>2 DEF TooManyStages
<1>3. CASE NoStages
  <2>1. schedule = <<>> /\ Len(schedule) = 0
    BY <1>3, EmptySeq DEF NoStages, LaidOut
  <2> QED BY <1>0, <1>3, <2>1, LayoutKept DEF NoStages, GoTo, Past
<1>4. CASE BeginStages
  <2>1. schedule = <<>> /\ Len(schedule) = 0 /\ at = 1
    BY <1>4, EmptySeq DEF BeginStages, LaidOut
  <2> QED BY <1>0, <1>4, <2>1, LayoutKept DEF BeginStages, GoTo, Past
<1>5. CASE AppendStage
  BY <1>5, LayoutAppendStage
<1>6. CASE EndStages
  <2>1. Len(schedule) = StageCount
    BY <1>0, <1>6 DEF EndStages, LaidOut, StageCount
  <2> QED BY <1>0, <1>6, <2>1, LayoutKept DEF EndStages, GoTo, Past
<1>7. CASE SkipDisabled
  <2>1. /\ phase = "steps" /\ phase' = "steps" /\ at' = at + 1 /\ UNCHANGED <<env, schedule>>
        /\ StageCount <= Len(schedule)
    BY <1>7 DEF SkipDisabled, AtStep, LaidOut
  <2>2. \A k \in 1 .. Len(schedule) : StageCount < k =>
          \E i \in 1 .. Len(env.steps) : IsStep(schedule[k], i) /\ i < at'
    <3>1. \A i \in Nat : i < at => i < at'
      BY <1>0, <2>1
    <3> QED BY <1>0, <2>1, <3>1 DEF LaidOut
  <2> QED BY <2>1, <2>2, LayoutKept DEF Past
<1>8. CASE RejectDuplicate
  BY <1>1, <1>8 DEF RejectDuplicate
<1>9. CASE AppendStep
  BY <1>9, LayoutAppendStep
<1>10. CASE EndSteps
  <2>1. StageCount <= Len(schedule)
    BY <1>10 DEF EndSteps, LaidOut
  <2> QED BY <1>10, <2>1, LayoutKept DEF EndSteps, GoTo, Past
<1>11. CASE /\ phase \in Past /\ phase' \in Past /\ UNCHANGED <<env, at, schedule>>
  BY <1>11, LayoutKept DEF LaidOut, Past
<1>12. CASE Prune
  BY <1>1, <1>11, <1>12 DEF Prune, EndPrune, RejectTie, Drop, Keep, Takes, GoTo, Past
<1>13. CASE Check
  BY <1>1, <1>11, <1>13 DEF Check, Accept, Reject, GoTo, Past
<1>14. CASE UNCHANGED vars
  BY <1>14, LayoutKept DEF vars, LaidOut
<1> QED
  BY <1>2, <1>3, <1>4, <1>5, <1>6, <1>7, <1>8, <1>9, <1>10, <1>12, <1>13, <1>14
  DEF Next, LowerRollout, LowerSteps

-----------------------------------------------------------------------------
(* Where the stages are, and what they serve                               *)

IsInterval(start, end, n) ==
  start \in Nat /\ end \in Nat /\ start < end /\ n \in Nat \ {0}

(* StagesComeInOrder, for numbers that form an interval.                   *)
LEMMA StageOrder ==
  ASSUME NEW start, NEW end, NEW n, IsInterval(start, end, n),
         NEW j \in 1 .. n, NEW k \in 1 .. n, j <= k
  PROVE  /\ StageInstant(start, end, j, n) \in Nat
         /\ StageInstant(start, end, n, n) = end
         /\ StageInstant(start, end, j, n) <= StageInstant(start, end, k, n)
         /\ j # n => StageInstant(start, end, j, n) < end
<1>1. start \in Nat /\ end \in Nat /\ start < end /\ n \in Nat \ {0}
  BY DEF IsInterval
<1> QED BY <1>1, StagesComeInOrder

(* The date and the action of a stage in the schedule.                     *)
LEMMA StageFacts ==
  ASSUME IInv, LaidOut, NEW k \in 1 .. Len(schedule), k <= StageCount
  PROVE  /\ HasStages /\ k \in 1 .. env.rollout.stages
         /\ schedule[k].at = StageInstant(env.rollout.start, env.rollout.end, k, env.rollout.stages)
         /\ schedule[k].evaluation.action \in StageActions(env.rollout, k)
         /\ k # StageCount => schedule[k].at < env.rollout.end
         /\ k = StageCount => /\ schedule[k].at = env.rollout.end
                              /\ schedule[k].evaluation.action = Serve(env.rollout.target)
<1> DEFINE r == env.rollout
<1>1. env \in Environments /\ Len(schedule) \in Nat
  BY ScheduleFacts
<1>2. HasStages /\ StageCount = r.stages
  BY <1>1 DEF StageCount
<1>3. /\ r.start \in Nat /\ r.end \in Nat /\ r.start < r.end
      /\ r.stages \in Nat \ {0} /\ k \in 1 .. r.stages
  BY <1>1, <1>2, RolloutFacts
<1>4. PICK a \in StageActions(r, k) :
        schedule[k] = Snapshot(StageInstant(r.start, r.end, k, r.stages),
                               [Base EXCEPT !.action = a])
  BY DEF LaidOut, IsStage
<1>5. /\ schedule[k].at = StageInstant(r.start, r.end, k, r.stages)
      /\ schedule[k].evaluation.action = a
  BY <1>1, <1>4, BaseFacts DEF Snapshot
<1>6. /\ k # r.stages => StageInstant(r.start, r.end, k, r.stages) < r.end
      /\ StageInstant(r.start, r.end, r.stages, r.stages) = r.end
  <2>1. k <= k /\ IsInterval(r.start, r.end, r.stages)
    BY <1>3 DEF IsInterval
  <2> QED BY <1>3, <2>1, StageOrder
<1>7. k = r.stages => a = Serve(r.target)
  BY <1>4 DEF StageActions
<1> QED BY <1>2, <1>3, <1>4, <1>5, <1>6, <1>7

(* The share of the target variant in neighbouring stages.                 *)
LEMMA StageShares ==
  ASSUME env \in Environments, HasStages,
         NEW k \in 1 .. env.rollout.stages - 1,
         NEW a \in StageActions(env.rollout, k),
         NEW b \in StageActions(env.rollout, k + 1)
  PROVE  a[env.rollout.target] * Whole(b) <= b[env.rollout.target] * Whole(a)
<1> DEFINE t == env.rollout.target
           n == env.rollout.stages
<1>1. n \in Nat \ {0} /\ Off # t /\ k \in 1 .. n /\ k # n
  BY RolloutFacts
<1>2. PICK v \in StageWeights(Off, t, k, n) : a = canonicalWeights(v)
  BY <1>1 DEF StageActions
<1>3. IsSplit(v, Off, t)
  BY <1>1, <1>2, StageWeightsFacts
<1>4. IsSplit(a, Off, t)
  BY <1>1, <1>2, <1>3, CanonicalSplit
<1>5. Whole(a) = a[Off] + a[t] /\ a[Off] \in Nat /\ a[t] \in Nat
  <2>1. DOMAIN a = {Off, t} /\ {Off, t} # {Off} /\ Off \in DOMAIN a
    BY <1>1, <1>4 DEF IsSplit
  <2> QED BY <1>4, <2>1 DEF Whole, Share, IsSplit
<1>6. CASE k + 1 = n
  <2>1. b = Serve(t)
    BY <1>6 DEF StageActions
  <2>2. DOMAIN b = {t} /\ b[t] = 1 /\ Off \notin DOMAIN b
    BY <1>1, <2>1 DEF Serve
  <2>3. Whole(b) = 1
    BY <2>2 DEF Whole, Share
  <2> QED BY <1>5, <2>2, <2>3
<1>7. CASE k + 1 # n
  <2>1. k \in 1 .. n - 2 /\ k + 1 \in 1 .. n /\ k + 1 # n
    BY <1>1, <1>7
  <2>2. PICK w \in StageWeights(Off, t, k + 1, n) : b = canonicalWeights(w)
    BY <2>1 DEF StageActions
  <2>3. IsSplit(w, Off, t)
    BY <1>1, <2>1, <2>2, StageWeightsFacts
  <2>4. IsSplit(b, Off, t)
    BY <1>1, <2>2, <2>3, CanonicalSplit
  <2>5. Whole(b) = b[Off] + b[t]
    <3>1. DOMAIN b = {Off, t} /\ {Off, t} # {Off} /\ Off \in DOMAIN b
      BY <1>1, <2>4 DEF IsSplit
    <3> QED BY <3>1 DEF Whole, Share
  <2>6. a[t] * (b[Off] + b[t]) <= b[t] * (a[Off] + a[t])
    BY <1>1, <1>2, <2>1, <2>2, CanonicalStagesNeverShrink
  <2> QED BY <1>5, <2>5, <2>6
<1> QED BY <1>6, <1>7

(* So a schedule laid out in order grows.                                  *)
LEMMA StagesGrow == IInv /\ LaidOut => RolloutNeverShrinks
<1> SUFFICES ASSUME IInv, LaidOut, phase = "stages", NEW i \in 2 .. Len(schedule)
             PROVE  LET target == env.rollout.target
                        a == schedule[i - 1].evaluation.action
                        b == schedule[i].evaluation.action
                    IN  /\ schedule[i - 1].at <= schedule[i].at
                        /\ a[target] * Whole(b) <= b[target] * Whole(a)
  BY DEF RolloutNeverShrinks
<1> DEFINE r == env.rollout
<1>1. /\ env \in Environments /\ Len(schedule) \in Nat /\ HasStages
      /\ Len(schedule) <= StageCount /\ StageCount = r.stages
  BY ScheduleFacts DEF IInv, SequencesOK, LaidOut, StageCount
<1>2. /\ r.start \in Nat /\ r.end \in Nat /\ r.start < r.end /\ r.stages \in Nat \ {0}
  BY <1>1, RolloutFacts
<1> DEFINE k == i - 1
<1>3. /\ k \in 1 .. Len(schedule) /\ i \in 1 .. Len(schedule) /\ i = k + 1
      /\ k <= StageCount /\ i <= StageCount
      /\ k \in 1 .. r.stages - 1 /\ k \in 1 .. r.stages /\ i \in 1 .. r.stages /\ k <= i
  BY <1>1, <1>2
<1> HIDE DEF k
<1>4. /\ schedule[k].at = StageInstant(r.start, r.end, k, r.stages)
      /\ schedule[k].evaluation.action \in StageActions(r, k)
      /\ schedule[i].at = StageInstant(r.start, r.end, i, r.stages)
      /\ schedule[i].evaluation.action \in StageActions(r, k + 1)
  BY <1>3, StageFacts
<1>5. schedule[k].at <= schedule[i].at
  <2>1. IsInterval(r.start, r.end, r.stages)
    BY <1>2 DEF IsInterval
  <2> QED BY <1>3, <1>4, <2>1, StageOrder
<1> DEFINE a == schedule[k].evaluation.action
           b == schedule[i].evaluation.action
<1>6. a[r.target] * Whole(b) <= b[r.target] * Whole(a)
  <2> HIDE DEF a, b
  <2>1. a \in StageActions(r, k) /\ b \in StageActions(r, k + 1)
    BY <1>4 DEF a, b
  <2> QED BY <1>1, <1>3, <2>1, StageShares
<1> QED BY <1>5, <1>6 DEF k

-----------------------------------------------------------------------------
(* What the pruning has made of the entries it took.                       *)

(* Entry i of a list of snapshots is in force at t.                        *)
Rules(list, i, t) ==
  /\ list[i].at <= t
  /\ \A m \in 1 .. Len(list) : list[m].at <= list[i].at \/ t < list[m].at

(* According to a list of snapshots, v is in force at t.                   *)
Shows(list, t, v) ==
  \/ v = Base /\ \A m \in 1 .. Len(list) : t < list[m].at
  \/ \E i \in 1 .. Len(list) : Rules(list, i, t) /\ list[i].evaluation = v

Taken == 1 .. Len(schedule) \ pending

(* All entries of its date agree with entry j.                             *)
Agreed(j) ==
  \A i \in 1 .. Len(schedule) :
    schedule[i].at = schedule[j].at => schedule[i].evaluation = schedule[j].evaluation

Pruned ==
  /\ phase \in {"validate", "lowered"} => pending = {}
  /\ phase \in Past =>
       /\ \A j \in Taken, i \in pending : schedule[j].at <= schedule[i].at
       /\ \A m \in 1 .. Len(kept) : \E j \in Taken : kept[m] = schedule[j]
       /\ \A j \in Taken : Agreed(j) => Shows(kept, schedule[j].at, schedule[j].evaluation)

(* Steps that take nothing.                                                *)
LEMMA PrunedKept ==
  ASSUME Pruned, UNCHANGED <<env, schedule, pending, kept>>,
         phase' \in Past => phase \in Past,
         phase' \in {"validate", "lowered"} => pending = {}
  PROVE  Pruned'
<1>1. Base' = Base /\ Taken' = Taken
  BY LayoutFixed DEF Taken
<1> QED BY <1>1 DEF Pruned, Agreed, Shows, Rules

(* What is kept is in strictly ascending order of date.                    *)
LEMMA KeptIsAscending ==
  ASSUME IInv, NEW i \in 1 .. Len(kept), NEW j \in 1 .. Len(kept), i < j
  PROVE  kept[i].at < kept[j].at
<1> DEFINE n == Len(kept)
           date == [k \in 1 .. n |-> kept[k].at]
<1>1. n \in Nat /\ \A k \in 1 .. n : date[k] \in Nat
  BY ScheduleFacts
<1>2. \A k \in 2 .. n : date[k - 1] < date[k]
  <2>1. \A k \in 2 .. n : k \in 1 .. n /\ k - 1 \in 1 .. n
    BY <1>1
  <2> QED BY <2>1 DEF IInv, KeptIsCanonical
<1>3. date[i] = kept[i].at /\ date[j] = kept[j].at
  OBVIOUS
<1> HIDE DEF date
<1>4. date[i] < date[j]
  BY <1>1, <1>2, NeighboursAscend
<1> QED BY <1>3, <1>4

(* The entry kept last is the newest.                                      *)
LEMMA LastIsNewest ==
  ASSUME IInv, kept # <<>>
  PROVE  /\ Len(kept) \in 1 .. Len(kept) /\ Last(kept) = kept[Len(kept)]
         /\ Last(kept).at \in Nat
         /\ \A m \in 1 .. Len(kept) : kept[m].at <= Last(kept).at
<1>1. /\ Len(kept) \in 1 .. Len(kept) /\ Last(kept) = kept[Len(kept)]
      /\ \A m \in 1 .. Len(kept) : kept[m].at \in Nat
  <2>1. Len(kept) # 0 /\ Len(kept) \in Nat
    BY ScheduleFacts, EmptySeq
  <2> QED BY <2>1, ScheduleFacts DEF Last
<1>2. ASSUME NEW m \in 1 .. Len(kept) PROVE kept[m].at <= Last(kept).at
  <2>1. CASE m = Len(kept)
    BY <1>1, <2>1
  <2>2. CASE m # Len(kept)
    <3>1. m < Len(kept)
      BY <1>1, <2>2
    <3>2. kept[m].at < kept[Len(kept)].at
      BY <1>1, <3>1, KeptIsAscending
    <3> QED BY <1>1, <3>2
  <2> QED BY <2>1, <2>2
<1> QED BY <1>1, <1>2

(* The entry taken is not older than those taken before it.                *)
LEMMA TakeFacts ==
  ASSUME IInv, Pruned, NEW i \in pending, Takes(i)
  PROVE  /\ phase \in Past /\ phase = "prune" /\ i \in 1 .. Len(schedule)
         /\ schedule[i].at \in Nat
         /\ \A j \in 1 .. Len(schedule) \ (pending \ {i}) : j \in Taken \/ j = i
         /\ \A j \in Taken : schedule[j].at <= schedule[i].at
         /\ \A j \in pending : schedule[i].at <= schedule[j].at
BY ScheduleFacts DEF Takes, Past, Pruned, Taken, IInv, TypeOK

(* A dropped entry repeats what is in force at its date.                   *)
LEMMA PrunedDrop ==
  ASSUME IInv, Pruned, NEW i \in pending, Drop(i)
  PROVE  Pruned'
<1> DEFINE e == schedule[i]
<1>0. Takes(i) /\ env' = env /\ schedule' = schedule /\ kept' = kept
      /\ pending' = pending \ {i} /\ phase' = phase
  BY DEF Drop
<1>1. /\ phase = "prune" /\ phase \in Past /\ i \in 1 .. Len(schedule) /\ e.at \in Nat
      /\ \A j \in Taken : schedule[j].at <= e.at
      /\ \A j \in pending : e.at <= schedule[j].at
  BY <1>0, TakeFacts
<1>2. Taken' = Taken \cup {i} /\ Base' = Base
  BY <1>0, <1>1, LayoutFixed DEF Taken
<1>3. \A j \in Taken', k \in pending' : schedule[j].at <= schedule[k].at
  BY <1>0, <1>1, <1>2 DEF Pruned
<1>4. \A m \in 1 .. Len(kept) : \E j \in Taken' : kept[m] = schedule[j]
  BY <1>1, <1>2 DEF Pruned
<1>5. Shows(kept, e.at, e.evaluation)
  <2>1. CASE kept = <<>>
    <3>1. 1 .. Len(kept) = {} /\ e.evaluation = Base
      BY <2>1, EmptySeq DEF Drop, ChangesNothing
    <3> QED BY <3>1 DEF Shows
  <2>2. CASE kept # <<>>
    <3>1. Last(kept).at <= e.at /\ Last(kept).evaluation = e.evaluation
      BY <2>2 DEF Drop, ChangesNothing, IInv, PendingIsLater
    <3>2. Rules(kept, Len(kept), e.at)
      BY <2>2, <3>1, LastIsNewest DEF Rules
    <3> QED BY <2>2, <3>1, <3>2, LastIsNewest DEF Shows
  <2> QED BY <2>1, <2>2
<1>6. \A j \in Taken' : Agreed(j) => Shows(kept, schedule[j].at, schedule[j].evaluation)
  BY <1>1, <1>2, <1>5 DEF Pruned
<1>7. /\ phase' = "prune"
      /\ \A j \in Taken', k \in pending' : schedule'[j].at <= schedule'[k].at
      /\ \A m \in 1 .. Len(kept') : \E j \in Taken' : kept'[m] = schedule'[j]
  BY <1>0, <1>1, <1>3, <1>4
<1>8. \A j \in Taken' : Agreed(j)' => Shows(kept, schedule[j].at, schedule[j].evaluation)'
  BY <1>0, <1>2, <1>6 DEF Agreed, Shows, Rules
<1> QED BY <1>7, <1>8 DEF Pruned

(* A kept entry is in force at its date, and hides none before it.         *)
LEMMA PrunedKeep ==
  ASSUME IInv, Pruned, NEW i \in pending, Keep(i)
  PROVE  Pruned'
<1> DEFINE e == schedule[i]
           n == Len(kept) + 1
<1>0. Takes(i) /\ env' = env /\ schedule' = schedule /\ kept' = Append(kept, e)
      /\ pending' = pending \ {i} /\ phase' = phase
  BY DEF Keep
<1>1. /\ phase = "prune" /\ phase \in Past /\ i \in 1 .. Len(schedule) /\ e.at \in Nat
      /\ \A j \in Taken : schedule[j].at <= e.at
      /\ \A j \in pending : e.at <= schedule[j].at
      /\ \A j \in 1 .. Len(schedule) : schedule[j].at \in Nat
  BY <1>0, TakeFacts, ScheduleFacts
<1>2. Taken' = Taken \cup {i} /\ Base' = Base /\ Taken \subseteq 1 .. Len(schedule)
  BY <1>0, <1>1, LayoutFixed DEF Taken
<1>3. /\ Len(kept') = n /\ n \in 1 .. n /\ Len(kept) \in Nat
      /\ kept'[n] = e
      /\ \A m \in 1 .. Len(kept) : kept'[m] = kept[m] /\ kept[m].at \in Nat
      /\ \A m \in 1 .. n : m \in 1 .. Len(kept) \/ m = n
  <2>1. kept \in Seq(Entry) /\ e \in Entry /\ Len(kept) \in Nat
    BY <1>1, ScheduleFacts
  <2>2. \A m \in 1 .. n : m \in 1 .. Len(kept) \/ m = n
    BY <2>1
  <2>3. \A m \in 1 .. Len(kept) : kept[m].at \in Nat
    BY ScheduleFacts
  <2> QED BY <1>0, <2>1, <2>2, <2>3, AppendProperties
<1>4. \A m \in 1 .. Len(kept) : kept[m].at < e.at
  <2> SUFFICES ASSUME NEW m \in 1 .. Len(kept) PROVE kept[m].at < e.at
    OBVIOUS
  <2>1. kept # <<>>
    BY <1>3, EmptySeq
  <2>2. Last(kept).at <= e.at /\ Last(kept).at # e.at
    BY <2>1 DEF Keep, SameInstant, IInv, PendingIsLater
  <2>3. kept[m].at <= Last(kept).at /\ Last(kept).at \in Nat
    BY <2>1, LastIsNewest
  <2> QED BY <1>1, <1>3, <2>2, <2>3
<1>5. ASSUME NEW v, v = e.evaluation PROVE Shows(kept', e.at, v)
  <2>1. Rules(kept', n, e.at)
    BY <1>1, <1>3, <1>4 DEF Rules
  <2> QED BY <1>3, <1>5, <2>1 DEF Shows
<1>6. ASSUME NEW j \in Taken, Agreed(j)
      PROVE  Shows(kept', schedule[j].at, schedule[j].evaluation)
  <2>1. CASE schedule[j].at = e.at
    <3>1. schedule[j].evaluation = e.evaluation
      BY <1>1, <1>6, <2>1 DEF Agreed
    <3> QED BY <1>5, <2>1, <3>1
  <2>2. CASE schedule[j].at # e.at
    <3> DEFINE t == schedule[j].at
               v == schedule[j].evaluation
    <3>1. t < e.at /\ t \in Nat
      BY <1>1, <1>2, <2>2
    <3>2. Shows(kept, t, v)
      BY <1>1, <1>6 DEF Pruned
    <3> HIDE DEF t, v, e
    <3>3. CASE v = Base /\ \A m \in 1 .. Len(kept) : t < kept[m].at
      <4>1. \A m \in 1 .. Len(kept') : t < kept'[m].at
        BY <1>3, <3>1, <3>3
      <4> QED BY <3>3, <4>1 DEF Shows, t, v
    <3>4. CASE \E m \in 1 .. Len(kept) : Rules(kept, m, t) /\ kept[m].evaluation = v
      <4>1. PICK m \in 1 .. Len(kept) : Rules(kept, m, t) /\ kept[m].evaluation = v
        BY <3>4
      <4>2. kept'[m] = kept[m] /\ m \in 1 .. Len(kept')
        BY <1>3
      <4>3. Rules(kept', m, t)
        BY <1>3, <3>1, <4>1, <4>2 DEF Rules
      <4> QED BY <4>1, <4>2, <4>3 DEF Shows, t, v
    <3> QED BY <3>2, <3>3, <3>4 DEF Shows
  <2> QED BY <2>1, <2>2
<1>7. \A j \in Taken' : Agreed(j) => Shows(kept', schedule[j].at, schedule[j].evaluation)
  BY <1>2, <1>5, <1>6
<1>8. \A j \in Taken', k \in pending' : schedule'[j].at <= schedule'[k].at
  BY <1>0, <1>1, <1>2 DEF Pruned
<1>9. \A m \in 1 .. Len(kept') : \E j \in Taken' : kept'[m] = schedule'[j]
  <2>1. \A m \in 1 .. Len(kept) : \E j \in Taken : kept[m] = schedule[j]
    BY <1>1 DEF Pruned
  <2>2. ASSUME NEW m \in 1 .. Len(kept') PROVE \E j \in Taken' : kept'[m] = schedule[j]
    <3>1. CASE m \in 1 .. Len(kept)
      BY <1>2, <1>3, <2>1, <3>1
    <3>2. CASE m = n
      BY <1>2, <1>3, <3>2
    <3> QED BY <1>3, <3>1, <3>2
  <2> QED BY <1>0, <2>2
<1>10. \A j \in Taken' : Agreed(j)' => Shows(kept, schedule[j].at, schedule[j].evaluation)'
  BY <1>0, <1>2, <1>7 DEF Agreed, Shows, Rules
<1>11. phase' = "prune"
  BY <1>0, <1>1
<1> QED BY <1>8, <1>9, <1>10, <1>11 DEF Pruned

(* Every step preserves what pruning has established.                      *)
LEMMA NextPruned == IInv /\ Pruned /\ [Next]_vars => Pruned'
<1> SUFFICES ASSUME IInv, Pruned, [Next]_vars PROVE Pruned'
  OBVIOUS
<1>1. CASE phase' \notin Past
  BY <1>1 DEF Pruned, Past
<1>2. CASE EndSteps
  <2>1. /\ pending' = 1 .. Len(schedule) /\ schedule' = schedule /\ kept' = <<>>
        /\ phase' = "prune"
    BY <1>2, ScheduleFacts DEF EndSteps, GoTo, IInv, SequencesOK
  <2>2. Taken' = {} /\ 1 .. Len(kept') = {}
    BY <2>1, EmptySeq DEF Taken
  <2> QED BY <2>1, <2>2 DEF Pruned
<1>3. ASSUME NEW i \in pending, RejectTie(i) \/ Drop(i) \/ Keep(i) PROVE Pruned'
  <2>1. CASE RejectTie(i)
    BY <1>1, <2>1 DEF RejectTie, Fail, Past
  <2> QED BY <1>3, <2>1, PrunedDrop, PrunedKeep
<1>4. CASE EndPrune
  BY <1>4, PrunedKept DEF EndPrune, GoTo, Past
<1>5. CASE Accept
  BY <1>5, PrunedKept DEF Accept, GoTo, Past, Pruned
<1>6. CASE UNCHANGED vars
  BY <1>6, PrunedKept DEF vars, Pruned, Past
<1>7. CASE LowerRollout \/ SkipDisabled \/ RejectDuplicate \/ AppendStep \/ Reject
  BY <1>1, <1>7 DEF LowerRollout, TooManyStages, NoStages, BeginStages, AppendStage, EndStages,
                    SkipDisabled, RejectDuplicate, AppendStep, AtStep, Reject, Fail, GoTo, Past
<1> QED BY <1>2, <1>3, <1>4, <1>5, <1>6, <1>7 DEF Next, LowerSteps, Prune, Check

-----------------------------------------------------------------------------
(* Every enabled step is in force at its date, according to the schedule,  *)
(* when no step comes before the end of the rollout.                       *)

Covered ==
  phase \in {"steps"} \cup Past /\ Later =>
    \A i \in 1 .. Len(env.steps) :
      ~ env.steps[i].disabled /\ (phase = "steps" => i < at) =>
        \E k \in 1 .. Len(schedule) :
          Rules(schedule, k, env.steps[i].at) /\ schedule[k].evaluation = env.steps[i].evaluation

(* A step that is not disabled is enabled.                                 *)
LEMMA EnabledSteps ==
  ASSUME env \in Environments, NEW i \in 1 .. Len(env.steps), ~ env.steps[i].disabled
  PROVE  env.steps[i] \in Enabled
BY StepFacts DEF Enabled

(* All that is laid out before step "at" is older than it.                 *)
LEMMA LaidOutIsOlder ==
  ASSUME IInv, LaidOut, Later, phase = "steps", NEW i \in 1 .. Len(env.steps), at <= i,
         ~ env.steps[i].disabled, NEW k \in 1 .. Len(schedule)
  PROVE  schedule[k].at < env.steps[i].at
<1>1. /\ env \in Environments /\ Len(schedule) \in Nat /\ StageCount \in Nat /\ at \in Nat
      /\ env.steps[i].at \in Nat /\ schedule[k].at \in Nat
  BY ScheduleFacts, StageCountType, StepFacts
<1>2. CASE k <= StageCount
  <2>1. HasStages /\ schedule[k].at <= env.rollout.end /\ env.rollout.end \in Nat
    BY <1>1, <1>2, StageFacts, RolloutFacts
  <2>2. env.steps[i].at > env.rollout.end
    BY <1>1, <2>1, EnabledSteps DEF Later
  <2> QED BY <1>1, <2>1, <2>2
<1>3. CASE StageCount < k
  <2>1. PICK j \in 1 .. Len(env.steps) : IsStep(schedule[k], j) /\ j < at
    BY <1>3 DEF LaidOut
  <2>2. env.steps[j].at < env.steps[i].at
    BY <1>1, <2>1, StepFacts
  <2> QED BY <2>1, <2>2 DEF IsStep, Snapshot
<1> QED BY <1>1, <1>2, <1>3

(* The entry appended last is the newest.                                  *)
LEMMA LastLaidOutIsNewest ==
  ASSUME IInv, LaidOut, Later, phase = "steps", schedule # <<>>,
         NEW k \in 1 .. Len(schedule)
  PROVE  /\ Len(schedule) \in 1 .. Len(schedule) /\ Last(schedule) = schedule[Len(schedule)]
         /\ schedule[k].at <= Last(schedule).at
<1> DEFINE n == Len(schedule)
<1>1. /\ env \in Environments /\ n \in Nat /\ StageCount \in Nat /\ at \in Nat
      /\ schedule[k].at \in Nat /\ n \in 1 .. n /\ schedule[n].at \in Nat
      /\ StageCount <= n
  <2>1. n # 0
    BY ScheduleFacts, EmptySeq
  <2> QED BY <2>1, ScheduleFacts, StageCountType DEF LaidOut
<1>2. CASE k = n
  BY <1>1, <1>2 DEF Last
<1>3. CASE k # n /\ n <= StageCount
  <2>1. n = StageCount /\ k <= StageCount /\ k # StageCount
    BY <1>1, <1>3
  <2>2. schedule[n].at = env.rollout.end /\ schedule[k].at < env.rollout.end
    BY <1>1, <2>1, StageFacts
  <2> QED BY <1>1, <2>2 DEF Last
<1>4. CASE k # n /\ StageCount < n
  <2>1. PICK i \in 1 .. Len(env.steps) : IsStep(schedule[n], i) /\ i < at
    BY <1>1, <1>4 DEF LaidOut
  <2>2. CASE k <= StageCount
    <3>1. HasStages /\ schedule[k].at <= env.rollout.end /\ env.rollout.end \in Nat
      BY <1>1, <2>2, StageFacts, RolloutFacts
    <3>2. env.steps[i].at > env.rollout.end /\ schedule[n].at = env.steps[i].at
      BY <1>1, <2>1, <3>1, EnabledSteps DEF Later, IsStep, Snapshot
    <3> QED BY <1>1, <3>1, <3>2 DEF Last
  <2>3. CASE StageCount < k
    <3>1. schedule[k].at < schedule[n].at
      BY <1>1, <1>4, <2>3 DEF LaidOut
    <3> QED BY <1>1, <3>1 DEF Last
  <2> QED BY <1>1, <2>2, <2>3
<1> QED BY <1>1, <1>2, <1>3, <1>4

(* What is asked of the source is asked of it in every state.              *)
LEMMA LaterFixed ==
  ASSUME env' = env
  PROVE  (Later' <=> Later) /\ Enabled' = Enabled
BY LayoutFixed DEF Later, Enabled

(* Steps that append no step of the source.                                *)
LEMMA CoveredKept ==
  ASSUME Covered, UNCHANGED <<env, schedule>>,
         phase' \in {"steps"} \cup Past => phase \in {"steps"} \cup Past,
         \A i \in 1 .. Len(env.steps) :
           ~ env.steps[i].disabled /\ (phase' = "steps" => i < at') => (phase = "steps" => i < at)
  PROVE  Covered'
<1>1. Later' <=> Later
  BY LaterFixed
<1> QED BY <1>1 DEF Covered, Rules

(* The step appended, or the repeated one left out, is in force at its     *)
(* date.                                                                   *)
LEMMA CoveredAppend ==
  ASSUME IInv, LaidOut, Covered, AppendStep
  PROVE  Covered'
<1>0. /\ phase = "steps" /\ phase' = "steps" /\ env' = env /\ at' = at + 1
      /\ at \in 1 .. Len(env.steps) /\ ~ env.steps[at].disabled
      /\ Len(schedule) \in Nat /\ at \in Nat /\ Len(env.steps) \in Nat /\ at <= at
      /\ \A i \in 1 .. Len(env.steps) : env.steps[i].at \in Nat
      /\ \A k \in 1 .. Len(schedule) : schedule[k].at \in Nat
  BY ScheduleFacts, StepFacts DEF AppendStep, AtStep
<1> DEFINE s == Snapshot(env.steps[at].at, env.steps[at].evaluation)
<1> SUFFICES ASSUME Later, NEW i \in 1 .. Len(env.steps), ~ env.steps[i].disabled, i < at + 1
             PROVE  \E k \in 1 .. Len(schedule') :
                      /\ Rules(schedule', k, env.steps[i].at)
                      /\ schedule'[k].evaluation = env.steps[i].evaluation
  BY <1>0, LaterFixed DEF Covered, Rules
<1>1. \A k \in 1 .. Len(schedule) : schedule[k].at < env.steps[at].at
  BY <1>0, LaidOutIsOlder
<1>2. ASSUME i < at
      PROVE  /\ env.steps[i].at < env.steps[at].at
             /\ \E k \in 1 .. Len(schedule) :
                  /\ Rules(schedule, k, env.steps[i].at)
                  /\ schedule[k].evaluation = env.steps[i].evaluation
  BY <1>0, <1>2, StepFacts, ScheduleFacts DEF Covered
<1>3. CASE schedule' = schedule
  <2>1. CASE i < at
    BY <1>2, <1>3, <2>1
  <2>2. CASE i = at
    <3>1. schedule # <<>> /\ Last(schedule).evaluation = env.steps[at].evaluation
      <4>1. SameEvaluation(schedule, env.steps[at].evaluation)
        <5> SUFFICES ASSUME ~ SameEvaluation(schedule, env.steps[at].evaluation) PROVE FALSE
          OBVIOUS
        <5>1. schedule' = Append(schedule, s)
          BY DEF AppendStep
        <5>2. Len(schedule') = Len(schedule) + 1
          <6>1. schedule \in Seq(Entry \cup {s})
            BY ScheduleFacts, SeqMonotonic
          <6> QED BY <5>1, <6>1, AppendProperties
        <5> QED BY <1>0, <1>3, <5>2
      <4> QED BY <4>1 DEF SameEvaluation
    <3>2. Len(schedule) \in 1 .. Len(schedule) /\ Last(schedule) = schedule[Len(schedule)]
      <4>1. Len(schedule) # 0
        BY <3>1, ScheduleFacts, EmptySeq
      <4> QED BY <1>0, <4>1 DEF Last
    <3>3. \A k \in 1 .. Len(schedule) : schedule[k].at <= Last(schedule).at
      BY <1>0, <3>1, LastLaidOutIsNewest
    <3>4. Rules(schedule, Len(schedule), env.steps[i].at)
      BY <1>0, <1>1, <2>2, <3>2, <3>3 DEF Rules
    <3> QED BY <1>3, <2>2, <3>1, <3>2, <3>4
  <2> QED BY <1>0, <2>1, <2>2
<1>4. CASE schedule' = Append(schedule, s)
  <2> DEFINE n == Len(schedule) + 1
  <2>1. /\ Len(schedule') = n /\ n \in 1 .. n
        /\ \A k \in 1 .. Len(schedule) : schedule'[k] = schedule[k]
        /\ schedule'[n] = s
        /\ \A k \in 1 .. n : k \in 1 .. Len(schedule) \/ k = n
        /\ \A k \in 1 .. Len(schedule) : k \in 1 .. n
    <3>1. schedule \in Seq(Entry \cup {s})
      BY ScheduleFacts, SeqMonotonic
    <3>2. \A k \in 1 .. n : k \in 1 .. Len(schedule) \/ k = n
      BY <1>0
    <3>3. n \in 1 .. n /\ \A k \in 1 .. Len(schedule) : k \in 1 .. n
      BY <1>0
    <3> QED BY <1>4, <3>1, <3>2, <3>3, AppendProperties
  <2> HIDE DEF n
  <2>2. s.at = env.steps[at].at /\ s.evaluation = env.steps[at].evaluation
    BY DEF Snapshot
  <2>3. CASE i < at
    <3>1. PICK k \in 1 .. Len(schedule) :
            Rules(schedule, k, env.steps[i].at) /\ schedule[k].evaluation = env.steps[i].evaluation
      BY <1>2, <2>3
    <3>2. Rules(schedule', k, env.steps[i].at)
      BY <1>2, <2>1, <2>2, <2>3, <3>1 DEF Rules
    <3> QED BY <2>1, <3>1, <3>2
  <2>4. CASE i = at
    <3>1. Rules(schedule', n, env.steps[i].at)
      BY <1>0, <1>1, <2>1, <2>2, <2>4 DEF Rules
    <3> QED BY <2>1, <2>2, <2>4, <3>1
  <2> QED BY <1>0, <2>3, <2>4
<1> QED BY <1>3, <1>4 DEF AppendStep

(* Every step preserves the cover.                                         *)
LEMMA NextCovered == IInv /\ LaidOut /\ Covered /\ [Next]_vars => Covered'
<1> SUFFICES ASSUME IInv, LaidOut, Covered, [Next]_vars PROVE Covered'
  OBVIOUS
<1>0. at \in Nat \ {0} /\ Len(env.steps) \in Nat
  BY ScheduleFacts, StepFacts
<1>1. CASE phase' \notin {"steps"} \cup Past
  BY <1>1 DEF Covered
<1>2. CASE phase' = "steps" /\ at' = 1 /\ env' = env
  <2>1. \A i \in 1 .. Len(env.steps) : ~ (i < at')
    BY <1>2
  <2> QED BY <1>2, <2>1 DEF Covered
<1>3. CASE AppendStep
  BY <1>3, CoveredAppend
<1>4. CASE SkipDisabled
  <2>1. \A i \in 1 .. Len(env.steps) : ~ env.steps[i].disabled /\ i < at' => i < at
    BY <1>0, <1>4 DEF SkipDisabled, AtStep
  <2> QED BY <1>4, <2>1, CoveredKept DEF SkipDisabled, AtStep
<1>5. CASE EndSteps
  <2>1. \A i \in 1 .. Len(env.steps) : i < at
    BY <1>0, <1>5 DEF EndSteps
  <2> QED BY <1>5, <2>1, CoveredKept DEF EndSteps, GoTo
<1>6. CASE phase \in Past /\ phase' \in Past /\ UNCHANGED <<env, schedule>>
  BY <1>6, CoveredKept DEF Past
<1>7. CASE UNCHANGED vars
  BY <1>7, CoveredKept DEF vars
<1>8. CASE TooManyStages \/ BeginStages \/ AppendStage \/ RejectDuplicate \/ Reject
  BY <1>1, <1>8
  DEF TooManyStages, BeginStages, AppendStage, RejectDuplicate, Reject, Fail, GoTo, Past
<1>9. CASE NoStages \/ EndStages
  BY <1>2, <1>9 DEF NoStages, EndStages, GoTo, LaidOut
<1>10. CASE Prune
  BY <1>1, <1>6, <1>10 DEF Prune, EndPrune, RejectTie, Drop, Keep, Takes, Fail, GoTo, Past
<1>11. CASE Accept
  BY <1>6, <1>11 DEF Accept, GoTo, Past
<1> QED
  BY <1>3, <1>4, <1>5, <1>7, <1>8, <1>9, <1>10, <1>11
  DEF Next, LowerRollout, LowerSteps, Check

(* Nothing is pruned and no step covered to begin with.                    *)
LEMMA InitPruned == Init => Pruned /\ Covered
BY DEF Init, Pruned, Covered, Past

-----------------------------------------------------------------------------
(* What is laid out, and what is kept of it, comes from the source.        *)

(* The source is fixed once the schedule is.                               *)
LEMMA SourceFixed ==
  ASSUME UNCHANGED <<env, schedule>>
  PROVE  Stages' = Stages /\ Enabled' = Enabled /\ Source' = Source
BY LayoutFixed DEF Stages, Enabled, Source

(* Every entry of the schedule is a stage or an enabled step.              *)
LEMMA LaidOutIsSource ==
  ASSUME IInv, LaidOut, NEW k \in 1 .. Len(schedule)
  PROVE  /\ k <= StageCount => schedule[k] \in Stages /\ k <= env.rollout.stages
         /\ StageCount < k => \E i \in 1 .. Len(env.steps) :
              /\ IsStep(schedule[k], i) /\ env.steps[i] \in Enabled
              /\ schedule[k].at = env.steps[i].at
         /\ schedule[k] \in Source
<1>1. /\ env \in Environments /\ k \in Nat /\ StageCount \in Nat
      /\ DOMAIN schedule = 1 .. Len(schedule)
  BY ScheduleFacts, StageCountType
<1>2. CASE k <= StageCount
  <2>1. HasStages /\ k <= env.rollout.stages
    BY <1>1, <1>2 DEF StageCount
  <2> QED BY <1>1, <1>2, <2>1 DEF Stages, Source
<1>3. CASE StageCount < k
  <2>1. PICK i \in 1 .. Len(env.steps) : IsStep(schedule[k], i)
    BY <1>3 DEF LaidOut
  <2>2. env.steps[i] \in Enabled
    BY <1>1, <2>1, EnabledSteps DEF IsStep
  <2>3. schedule[k].at = env.steps[i].at /\ schedule[k] \in Source
    BY <2>1, <2>2 DEF IsStep, Snapshot, Source
  <2> QED BY <1>1, <1>3, <2>1, <2>2, <2>3
<1> QED BY <1>1, <1>2, <1>3

(* A list has finitely many elements.                                      *)
LEMMA ImageIsFinite ==
  ASSUME NEW n \in Nat, NEW f
  PROVE  IsFiniteSet({f[i] : i \in 1 .. n})
<1> DEFINE T == {f[i] : i \in 1 .. n}
           g == [i \in 1 .. n |-> f[i]]
<1>1. g \in Surjection(1 .. n, T)
  BY DEF Surjection
<1>2. IsFiniteSet(1 .. n)
  BY FS_Interval
<1> HIDE DEF g, T
<1>3. IsFiniteSet(T)
  BY <1>1, <1>2, FS_Surjection
<1> QED BY <1>3 DEF T

(* So has the source.                                                      *)
LEMMA SourceIsFinite ==
  ASSUME IInv
  PROVE  IsFiniteSet(Source)
<1>1. /\ env \in Environments /\ Len(schedule) \in Nat /\ Len(env.steps) \in Nat
      /\ DOMAIN schedule = 1 .. Len(schedule) /\ DOMAIN env.steps = 1 .. Len(env.steps)
  BY ScheduleFacts, StepFacts
<1> DEFINE step == [i \in 1 .. Len(env.steps) |->
                      Snapshot(env.steps[i].at, env.steps[i].evaluation)]
           A == {schedule[i] : i \in 1 .. Len(schedule)}
           B == {step[i] : i \in 1 .. Len(env.steps)}
<1>2. IsFiniteSet(A) /\ IsFiniteSet(B)
  <2> HIDE DEF step
  <2> QED BY <1>1, ImageIsFinite
<1>3. Source \subseteq A \cup B
  BY <1>1 DEF Source, Stages, Enabled
<1>4. IsFiniteSet(A \cup B)
  <2> HIDE DEF A, B
  <2> QED BY <1>2, FS_Union
<1> QED BY <1>3, <1>4, FS_Subset

(* Repeated snapshots are not kept, so the source has as many as are kept. *)
LEMMA KeptFitsSource ==
  ASSUME IInv, LaidOut, Pruned, phase \in Past
  PROVE  /\ \A m \in 1 .. Len(kept) : kept[m] \in Source
         /\ Len(kept) <= Cardinality(Source)
<1> DEFINE n == Len(kept)
           f == [m \in 1 .. n |-> kept[m]]
<1>1. n \in Nat /\ \A m \in 1 .. n : kept[m].at \in Nat
  BY ScheduleFacts
<1>2. \A m \in 1 .. n : kept[m] \in Source
  BY LaidOutIsSource DEF Pruned, Taken
<1>3. \A i, j \in 1 .. n : kept[i] = kept[j] => i = j
  <2> SUFFICES ASSUME NEW i \in 1 .. n, NEW j \in 1 .. n, i # j PROVE kept[i] # kept[j]
    OBVIOUS
  <2>1. CASE i < j
    BY <1>1, <2>1, KeptIsAscending
  <2>2. CASE j < i
    BY <1>1, <2>2, KeptIsAscending
  <2> QED BY <2>1, <2>2
<1>4. f \in Injection(1 .. n, Source)
  BY <1>2, <1>3 DEF Injection, IsInjective
<1> HIDE DEF f, n
<1>5. Cardinality(1 .. n) = n
  <2>1. Cardinality(1 .. n) = IF 1 > n THEN 0 ELSE n - 1 + 1
    BY <1>1, FS_Interval
  <2> QED BY <1>1, <2>1
<1>6. Cardinality(1 .. n) <= Cardinality(Source)
  BY <1>4, SourceIsFinite, FS_Injection
<1> QED BY <1>2, <1>5, <1>6 DEF n

(* What ir.Validate asks of a schedule, the pruned one has.                *)
LEMMA KeptIsValid ==
  ASSUME IInv
  PROVE  ValidSchedule
<1>1. \A i \in 2 .. Len(kept) : kept[i - 1].at < kept[i].at
  BY DEF IInv, KeptIsCanonical
<1>2. ASSUME NEW i \in DOMAIN kept
      PROVE  ValidAction(kept[i].evaluation.action)
  <2>1. /\ kept[i] \in Entry /\ env \in Environments
    BY ScheduleFacts
  <2>2. kept[i].evaluation \in Evaluations \cup StageEvaluations
    BY <2>1 DEF Entry
  <2>3. CASE kept[i].evaluation \in Evaluations
    BY <2>3, LoweringAssumption DEF WellFormedEvaluation
  <2>4. CASE kept[i].evaluation \in StageEvaluations
    <3>1. HasStages
      BY <2>4 DEF StageEvaluations
    <3>2. PICK k \in 1 .. env.rollout.stages : \E a \in StageActions(env.rollout, k) :
            kept[i].evaluation = [Base EXCEPT !.action = a]
      BY <2>4, <3>1 DEF StageEvaluations
    <3>3. PICK a \in StageActions(env.rollout, k) :
            kept[i].evaluation = [Base EXCEPT !.action = a]
      BY <3>2
    <3>4. kept[i].evaluation.action = a
      BY <2>1, <3>3, BaseFacts
    <3> QED BY <2>1, <3>1, <3>4, StageActionsAreValid
  <2> QED BY <2>2, <2>3, <2>4
<1> QED BY <1>1, <1>2 DEF ValidSchedule

-----------------------------------------------------------------------------
(* Failures                                                                *)

Failed == FailureHasCause /\ (phase # "failed" => failure = "none")

(* A step that repeats a date repeats that of a stage.                     *)
LEMMA DuplicateHasCause ==
  ASSUME IInv, LaidOut, RejectDuplicate
  PROVE  \E s \in Stages : \E o \in Enabled : s.at = o.at
<1> DEFINE n == Len(schedule)
<1>1. /\ env \in Environments /\ phase = "steps" /\ schedule # <<>>
      /\ at \in 1 .. Len(env.steps) /\ ~ env.steps[at].disabled
      /\ Last(schedule).at = env.steps[at].at
      /\ n \in Nat /\ StageCount \in Nat
  BY ScheduleFacts, StepFacts, StageCountType DEF RejectDuplicate, AtStep, SameInstant
<1>2. n \in 1 .. n /\ schedule[n].at = env.steps[at].at
  BY <1>1, EmptySeq, ScheduleFacts DEF Last
<1>3. n <= StageCount
  <2> SUFFICES ASSUME StageCount < n PROVE FALSE
    BY <1>1
  <2>1. PICK i \in 1 .. Len(env.steps) : IsStep(schedule[n], i) /\ i < at
    BY <1>1, <1>2 DEF LaidOut
  <2>2. env.steps[i].at < env.steps[at].at /\ env.steps[i].at = schedule[n].at
    BY <1>1, <2>1, StepFacts DEF IsStep, Snapshot
  <2> QED BY <1>1, <1>2, <2>2, StepFacts
<1>4. schedule[n] \in Stages
  BY <1>2, <1>3, LaidOutIsSource
<1>5. env.steps[at] \in Enabled
  BY <1>1, EnabledSteps
<1> QED BY <1>2, <1>4, <1>5

Clash ==
  \/ \E s \in Stages : \E o \in Enabled : s.at = o.at
  \/ \E i, j \in 1 .. Len(schedule) :
       i < j /\ schedule[i].at = schedule[j].at /\ j <= env.rollout.stages

(* Two entries of one date: steps are apart, so one is a stage.            *)
LEMMA TwoOfOneDate ==
  ASSUME IInv, LaidOut, NEW i \in 1 .. Len(schedule), NEW j \in 1 .. Len(schedule), i < j,
         schedule[i].at = schedule[j].at
  PROVE  Clash
<1>1. /\ StageCount \in Nat /\ i \in Nat /\ j \in Nat /\ env \in Environments
      /\ schedule[i].at \in Nat /\ schedule[j].at \in Nat
  BY ScheduleFacts, StageCountType
<1>2. CASE j <= StageCount
  <2>1. j <= env.rollout.stages
    BY <1>2, LaidOutIsSource
  <2> QED BY <2>1 DEF Clash
<1>3. CASE i <= StageCount /\ StageCount < j
  <2>1. schedule[i] \in Stages
    BY <1>3, LaidOutIsSource
  <2>2. \E o \in Enabled : schedule[j].at = o.at
    BY <1>3, LaidOutIsSource
  <2> QED BY <2>1, <2>2 DEF Clash
<1>4. CASE StageCount < i
  BY <1>1, <1>4 DEF LaidOut
<1> QED BY <1>1, <1>2, <1>3, <1>4

(* A tie in what is taken is one in the source.                            *)
LEMMA TieHasCause ==
  ASSUME IInv, LaidOut, Pruned, NEW i \in pending, RejectTie(i)
  PROVE  Clash
<1>1. /\ Takes(i) /\ kept # <<>> /\ Last(kept).at = schedule[i].at
  BY DEF RejectTie, SameInstant
<1>2. phase \in Past /\ i \in 1 .. Len(schedule) /\ i \in Nat
  BY <1>1, TakeFacts
<1>3. PICK j \in Taken : Last(kept) = schedule[j]
  BY <1>1, <1>2, LastIsNewest DEF Pruned
<1>4. j \in 1 .. Len(schedule) /\ j # i /\ j \in Nat
  BY <1>3 DEF Taken
<1>5. schedule[i].at = schedule[j].at
  BY <1>1, <1>3
<1>6. CASE i < j
  BY <1>2, <1>4, <1>5, <1>6, TwoOfOneDate
<1>7. CASE j < i
  BY <1>2, <1>4, <1>5, <1>7, TwoOfOneDate
<1> QED BY <1>2, <1>4, <1>6, <1>7

(* A failure keeps its cause.                                              *)
LEMMA FailedFixed ==
  ASSUME Failed, UNCHANGED <<env, schedule, phase, failure>>
  PROVE  Failed'
BY SourceFixed DEF Failed, FailureHasCause

(* No step fails without a cause.                                          *)
LEMMA NextFailed == IInv /\ LaidOut /\ Pruned /\ Failed /\ [Next]_vars => Failed'
<1> SUFFICES ASSUME IInv, LaidOut, Pruned, Failed, [Next]_vars PROVE Failed'
  OBVIOUS
<1>1. CASE failure' = "none"
  BY <1>1 DEF Failed, FailureHasCause
<1>2. CASE UNCHANGED vars
  BY <1>2, FailedFixed DEF vars
<1>3. CASE TooManyStages
  BY <1>3 DEF Failed, FailureHasCause, TooManyStages, Fail
<1>4. ASSUME Clash, Fail("duplicate") \/ Fail("tie") PROVE Failed'
  <2>1. Stages' = Stages /\ Enabled' = Enabled /\ schedule' = schedule /\ env' = env
    BY <1>4, SourceFixed DEF Fail
  <2>2. Clash'
    BY <1>4, <2>1 DEF Clash
  <2>3. phase' = "failed" /\ failure' \in {"duplicate", "tie"}
    BY <1>4 DEF Fail
  <2> QED BY <2>2, <2>3 DEF Failed, FailureHasCause, Clash
<1>5. CASE RejectDuplicate
  <2>1. Clash
    BY <1>5, DuplicateHasCause DEF Clash
  <2> QED BY <1>4, <1>5, <2>1 DEF RejectDuplicate
<1>6. ASSUME NEW i \in pending, RejectTie(i) PROVE Failed'
  BY <1>4, <1>6, TieHasCause DEF RejectTie
<1>7. CASE Reject
  <2>1. ValidSchedule
    BY KeptIsValid
  <2>2. /\ Len(kept) > Limit /\ phase \in Past /\ Fail("limit")
    BY <1>7, <2>1 DEF Reject, Past
  <2>3. Source' = Source
    BY <2>2, SourceFixed DEF Fail
  <2>4. Cardinality(Source) > Limit
    <3>1. Len(kept) <= Cardinality(Source) /\ Cardinality(Source) \in Nat /\ Len(kept) \in Nat
      BY <2>2, KeptFitsSource, SourceIsFinite, FS_CardinalityType, ScheduleFacts
    <3> QED BY <2>2, <3>1, LoweringAssumption
  <2>5. phase' = "failed" /\ failure' = "limit"
    BY <2>2 DEF Fail
  <2> QED BY <2>3, <2>4, <2>5 DEF Failed, FailureHasCause
<1>8. CASE NoStages \/ BeginStages \/ AppendStage \/ EndStages
  BY <1>1, <1>8 DEF NoStages, BeginStages, AppendStage, EndStages, GoTo, Failed
<1>9. CASE SkipDisabled \/ AppendStep \/ EndSteps \/ EndPrune \/ Accept
  BY <1>1, <1>9 DEF SkipDisabled, AppendStep, EndSteps, EndPrune, Accept, AtStep, GoTo, Failed
<1>10. ASSUME NEW i \in pending, Drop(i) \/ Keep(i) PROVE Failed'
  BY <1>1, <1>10 DEF Drop, Keep, Takes, Failed
<1> QED BY <1>2, <1>3, <1>5, <1>6, <1>7, <1>8, <1>9, <1>10
        DEF Next, LowerRollout, LowerSteps, Prune, Check

-----------------------------------------------------------------------------
(* What is in force                                                        *)

(* Of the snapshots dated t or before one is the newest.                   *)
LEMMA NewestExists ==
  ASSUME NEW S, \A s \in S : s.at \in Nat, NEW t \in Nat, \E s \in S : s.at <= t
  PROVE  \E s \in S : s.at <= t /\ \A o \in S : o.at <= s.at \/ t < o.at
<1> DEFINE ages == {t - s.at : s \in {o \in S : o.at <= t}}
<1>1. ages \subseteq Nat /\ ages # {}
  OBVIOUS
<1>2. PICK n \in ages : \A m \in ages : ~ (m < n)
  <2> HIDE DEF ages
  <2> QED BY <1>1, LeastNumber
<1>3. PICK s \in S : s.at <= t /\ n = t - s.at
  OBVIOUS
<1>4. ASSUME NEW o \in S, o.at <= t PROVE o.at <= s.at
  <2>1. t - o.at \in ages
    BY <1>4
  <2>2. ~ (t - o.at < t - s.at)
    BY <1>2, <1>3, <2>1
  <2>3. o.at \in Nat /\ s.at \in Nat
    OBVIOUS
  <2> HIDE DEF ages
  <2> QED BY <2>2, <2>3
<1>5. \A o \in S : o.at \in Nat => o.at <= t \/ t < o.at
  OBVIOUS
<1> QED BY <1>3, <1>4, <1>5

(* The newest eligible snapshot is in force, if no other of its date       *)
(* disagrees with it.                                                      *)
LEMMA NewestIsInForce ==
  ASSUME NEW base, NEW S, \A s \in S : s.at \in Nat, NEW t \in Nat,
         NEW s \in S, s.at <= t, \A o \in S : o.at <= s.at \/ t < o.at,
         \A o \in S : o.at = s.at => o.evaluation = s.evaluation
  PROVE  InForce(base, S, t) = s.evaluation
<1> DEFINE eligible == {o \in S : o.at <= t}
           c == CHOOSE o \in eligible : \A p \in eligible : p.at <= o.at
<1>1. s \in eligible /\ \A o \in eligible : o.at <= s.at
  OBVIOUS
<1>2. c \in eligible /\ \A o \in eligible : o.at <= c.at
  BY <1>1
<1>3. c.at = s.at /\ c \in S
  BY <1>1, <1>2
<1>4. InForce(base, S, t) = c.evaluation
  BY <1>1 DEF InForce
<1> QED BY <1>3, <1>4

(* Before the first snapshot the base is in force.                         *)
LEMMA BaseIsInForce ==
  ASSUME NEW base, NEW S, \A s \in S : s.at \in Nat, NEW t \in Nat, \A s \in S : t < s.at
  PROVE  InForce(base, S, t) = base
<1>1. {s \in S : s.at <= t} = {}
  OBVIOUS
<1> QED BY <1>1 DEF InForce

(* What the list of kept snapshots shows is what InForce chooses.          *)
LEMMA ShownIsInForce ==
  ASSUME IInv, NEW t \in Nat, NEW v, Shows(kept, t, v)
  PROVE  InForce(Base, Lowered, t) = v
<1>1. /\ Lowered = {kept[m] : m \in 1 .. Len(kept)}
      /\ \A m \in 1 .. Len(kept) : kept[m].at \in Nat
  BY ScheduleFacts DEF Lowered
<1>2. \A s \in Lowered : s.at \in Nat
  BY <1>1
<1>3. CASE v = Base /\ \A m \in 1 .. Len(kept) : t < kept[m].at
  <2>1. \A s \in Lowered : t < s.at
    BY <1>1, <1>3
  <2> QED BY <1>2, <1>3, <2>1, BaseIsInForce
<1>4. CASE \E i \in 1 .. Len(kept) : Rules(kept, i, t) /\ kept[i].evaluation = v
  <2>1. PICK i \in 1 .. Len(kept) : Rules(kept, i, t) /\ kept[i].evaluation = v
    BY <1>4
  <2> DEFINE s == kept[i]
  <2>2. s \in Lowered /\ s.at <= t /\ \A o \in Lowered : o.at <= s.at \/ t < o.at
    BY <1>1, <2>1 DEF Rules
  <2>3. \A o \in Lowered : o.at = s.at => o.evaluation = s.evaluation
    <3> SUFFICES ASSUME NEW m \in 1 .. Len(kept), kept[m].at = s.at
                 PROVE  kept[m].evaluation = s.evaluation
      BY <1>1
    <3>1. ~ (m < i) /\ ~ (i < m)
      BY <1>1, KeptIsAscending
    <3>2. m = i
      BY <3>1, ScheduleFacts
    <3> QED BY <3>2
  <2> HIDE DEF s
  <2>4. InForce(Base, Lowered, t) = s.evaluation
    BY <1>2, <2>2, <2>3, NewestIsInForce
  <2> QED BY <2>1, <2>4 DEF s
<1> QED BY <1>3, <1>4 DEF Shows

(* What is in force stays so until the next snapshot kept.                 *)
LEMMA ShownUntilNext ==
  ASSUME IInv, NEW t \in Nat, NEW u \in Nat, t <= u, NEW v, Shows(kept, t, v),
         \A m \in 1 .. Len(kept) : kept[m].at <= t \/ u < kept[m].at
  PROVE  Shows(kept, u, v)
<1>1. \A m \in 1 .. Len(kept) : kept[m].at \in Nat
  BY ScheduleFacts
<1>2. CASE v = Base /\ \A m \in 1 .. Len(kept) : t < kept[m].at
  BY <1>1, <1>2 DEF Shows
<1>3. CASE \E i \in 1 .. Len(kept) : Rules(kept, i, t) /\ kept[i].evaluation = v
  <2>1. PICK i \in 1 .. Len(kept) : Rules(kept, i, t) /\ kept[i].evaluation = v
    BY <1>3
  <2>2. Rules(kept, i, u)
    BY <1>1, <2>1 DEF Rules
  <2> QED BY <2>1, <2>2 DEF Shows
<1> QED BY <1>2, <1>3 DEF Shows

LoweredOK == IInv /\ LaidOut /\ Pruned /\ Covered /\ Failed

(* The last stage is the only entry of its date, so it is shown.           *)
LEMMA RolloutIsCompleted == LoweredOK => RolloutCompletes
<1> SUFFICES ASSUME LoweredOK, phase = "lowered", HasStages,
                    \A s \in Enabled : s.at # env.rollout.end
             PROVE  InForce(Base, Lowered, env.rollout.end).action = Serve(env.rollout.target)
  BY DEF RolloutCompletes
<1> USE DEF LoweredOK
<1> DEFINE n == StageCount
           end == env.rollout.end
<1>1. /\ env \in Environments /\ n \in Nat \ {0} /\ n <= Len(schedule) /\ Len(schedule) \in Nat
      /\ end \in Nat /\ pending = {} /\ phase \in Past
      /\ \A i \in 1 .. Len(schedule) : schedule[i].at \in Nat
  BY ScheduleFacts, StageCountType, RolloutFacts DEF LaidOut, Pruned, Past
<1>2. n \in 1 .. Len(schedule) /\ n <= n /\ n \in Taken
  BY <1>1 DEF Taken
<1>3. schedule[n].at = end /\ schedule[n].evaluation.action = Serve(env.rollout.target)
  BY <1>2, StageFacts
<1>4. Agreed(n)
  <2> SUFFICES ASSUME NEW i \in 1 .. Len(schedule), schedule[i].at = end PROVE i = n
    BY <1>3 DEF Agreed
  <2>1. ~ (i <= n /\ i # n)
    <3> SUFFICES ASSUME i <= n, i # n PROVE FALSE
      OBVIOUS
    <3>1. schedule[i].at < end
      BY StageFacts
    <3> QED BY <1>1, <3>1
  <2>2. ~ (n < i)
    <3> SUFFICES ASSUME n < i PROVE FALSE
      OBVIOUS
    <3>1. PICK j \in 1 .. Len(env.steps) :
            env.steps[j] \in Enabled /\ schedule[i].at = env.steps[j].at
      BY LaidOutIsSource
    <3> QED BY <3>1
  <2> QED BY <1>1, <2>1, <2>2
<1>5. Shows(kept, schedule[n].at, schedule[n].evaluation)
  BY <1>1, <1>2, <1>4 DEF Pruned
<1>6. InForce(Base, Lowered, end) = schedule[n].evaluation
  BY <1>1, <1>3, <1>5, ShownIsInForce
<1> QED BY <1>3, <1>6

(* Every date of the source is a number.                                   *)
LEMMA SourceDates ==
  ASSUME IInv
  PROVE  \A s \in Source : s.at \in Nat
<1>1. \A s \in Stages : s.at \in Nat
  BY ScheduleFacts DEF Stages
<1>2. \A s \in Enabled : s.at \in Nat
  BY ScheduleFacts, StepFacts DEF Enabled
<1> QED BY <1>1, <1>2 DEF Source, Snapshot

(* Each snapshot of the source is shown at its date.                       *)
LEMMA SourceIsShown ==
  ASSUME LoweredOK, phase = "lowered", Apart, NEW s \in Source
  PROVE  Shows(kept, s.at, s.evaluation)
<1> USE DEF LoweredOK
<1>1. /\ env \in Environments /\ Len(schedule) \in Nat /\ phase \in Past /\ pending = {}
      /\ StageCount \in Nat /\ StageCount <= Len(schedule)
      /\ \A i \in 1 .. Len(schedule) : schedule[i].at \in Nat
      /\ s.at \in Nat
  BY ScheduleFacts, StageCountType, SourceDates DEF LaidOut, Pruned, Past
<1>2. ASSUME NEW k \in 1 .. Len(schedule)
      PROVE  Shows(kept, schedule[k].at, schedule[k].evaluation)
  <2>1. k \in Taken
    BY <1>1 DEF Taken
  <2>2. Agreed(k)
    BY LaidOutIsSource DEF Agreed, Apart
  <2> QED BY <1>1, <2>1, <2>2 DEF Pruned
<1>3. CASE s \in Stages
  <2>1. PICK k \in 1 .. Len(schedule) : s = schedule[k]
    BY <1>3, ScheduleFacts DEF Stages
  <2> QED BY <1>2, <2>1
<1>4. CASE s \notin Stages
  <2>1. PICK i \in 1 .. Len(env.steps) :
          /\ ~ env.steps[i].disabled
          /\ s.at = env.steps[i].at /\ s.evaluation = env.steps[i].evaluation
    <3>1. PICK o \in Enabled : s = Snapshot(o.at, o.evaluation)
      BY <1>4 DEF Source
    <3>2. PICK i \in 1 .. Len(env.steps) : o = env.steps[i] /\ ~ o.disabled
      BY <1>1, StepFacts DEF Enabled
    <3>3. s.at = o.at /\ s.evaluation = o.evaluation
      BY <3>1 DEF Snapshot
    <3> QED BY <3>2, <3>3
  <2>2. PICK k \in 1 .. Len(schedule) :
          Rules(schedule, k, s.at) /\ schedule[k].evaluation = s.evaluation
    <3>1. ~ (phase = "steps") /\ phase \in {"steps"} \cup Past /\ Later
      BY <1>1 DEF Apart
    <3> QED BY <2>1, <3>1 DEF Covered
  <2> DEFINE t == schedule[k].at
  <2>3. Shows(kept, t, s.evaluation) /\ t <= s.at /\ t \in Nat
    BY <1>1, <1>2, <2>2 DEF Rules
  <2>4. \A m \in 1 .. Len(kept) : kept[m].at <= t \/ s.at < kept[m].at
    <3> SUFFICES ASSUME NEW m \in 1 .. Len(kept) PROVE kept[m].at <= t \/ s.at < kept[m].at
      OBVIOUS
    <3>1. PICK j \in 1 .. Len(schedule) : kept[m] = schedule[j]
      BY <1>1 DEF Pruned, Taken
    <3> QED BY <2>2, <3>1 DEF Rules
  <2> HIDE DEF t
  <2> QED BY <1>1, <2>3, <2>4, ShownUntilNext
<1> QED BY <1>3, <1>4

(* At every instant, not only where the evaluation in force can change.    *)
LEMMA MeaningIsPreserved ==
  ASSUME LoweredOK, phase = "lowered", Apart, NEW t \in Nat
  PROVE  InForce(Base, Lowered, t) = InForce(Base, Source, t)
<1> USE DEF LoweredOK
<1>1. /\ \A m \in 1 .. Len(kept) : kept[m] \in Source /\ kept[m].at \in Nat
      /\ \A s \in Source : s.at \in Nat
      /\ Lowered = {kept[m] : m \in 1 .. Len(kept)}
  BY KeptFitsSource, ScheduleFacts, SourceDates DEF Past, Lowered
<1>2. CASE \A s \in Source : t < s.at
  <2>1. \A s \in Lowered : s.at \in Nat /\ t < s.at
    BY <1>1, <1>2
  <2>2. InForce(Base, Source, t) = Base
    BY <1>1, <1>2, BaseIsInForce
  <2>3. InForce(Base, Lowered, t) = Base
    BY <2>1, BaseIsInForce
  <2> QED BY <2>2, <2>3
<1>3. CASE \E s \in Source : s.at <= t
  <2>1. PICK s \in Source : s.at <= t /\ \A o \in Source : o.at <= s.at \/ t < o.at
    BY <1>1, <1>3, NewestExists
  <2>2. InForce(Base, Source, t) = s.evaluation
    <3>1. \A o \in Source : o.at = s.at => o.evaluation = s.evaluation
      BY DEF Apart
    <3> QED BY <1>1, <2>1, <3>1, NewestIsInForce
  <2>3. Shows(kept, s.at, s.evaluation)
    BY SourceIsShown
  <2>4. \A m \in 1 .. Len(kept) : kept[m].at <= s.at \/ t < kept[m].at
    BY <1>1, <2>1
  <2>5. Shows(kept, t, s.evaluation)
    <3>1. s.at \in Nat
      BY <1>1
    <3> QED BY <2>1, <2>3, <2>4, <3>1, ShownUntilNext
  <2>6. InForce(Base, Lowered, t) = s.evaluation
    BY <2>5, ShownIsInForce
  <2> QED BY <2>2, <2>6
<1> QED BY <1>1, <1>2, <1>3

(* In particular where the evaluation in force can change.                 *)
LEMMA MeaningIsKept == LoweredOK => LoweringPreservesMeaning
<1> SUFFICES ASSUME LoweredOK, phase = "lowered", Apart, NEW t \in Instants
             PROVE  InForce(Base, Lowered, t) = InForce(Base, Source, t)
  BY DEF LoweringPreservesMeaning, Apart, Later
<1>1. t \in Nat
  <2>1. \A s \in Source : s.at \in Nat
    BY SourceDates DEF LoweredOK
  <2>2. \A s \in Lowered : s.at \in Nat
    BY ScheduleFacts DEF LoweredOK, Lowered
  <2> QED BY <2>1, <2>2 DEF Instants
<1> QED BY <1>1, MeaningIsPreserved

(* The initial states satisfy all of it.                                   *)
LEMMA InitLoweredOK == Init => LoweredOK
<1>1. Init => Failed
  BY DEF Init, Failed, FailureHasCause
<1> QED BY <1>1, InitIInv, InitLayout, InitPruned DEF LoweredOK

(* Every step preserves all of it.                                         *)
LEMMA NextLoweredOK == LoweredOK /\ [Next]_vars => LoweredOK'
BY NextIInv, NextLayout, NextPruned, NextCovered, NextFailed DEF LoweredOK

(* All the parts of the invariant hold in every state.                    *)
THEOREM LoweringInvariance == Spec => []LoweredOK
BY InitLoweredOK, NextLoweredOK, PTL DEF Spec

(* A rollout only ever grows: the share of the target variant in a stage   *)
(* that progressive_rollout became is at least its share in the stage      *)
(* before, once both are divided by their greatest common divisor, and     *)
(* their dates do not go back.                                             *)
THEOREM RolloutGrows == Spec => []RolloutNeverShrinks
<1>1. LoweredOK => RolloutNeverShrinks
  BY StagesGrow DEF LoweredOK
<1> QED BY <1>1, LoweringInvariance, PTL

(* Lowering fails with a duplicate or a tie only where the source has two  *)
(* snapshots for one instant, at the limit only when the source has too    *)
(* many, and ir.Validate never rejects what the pruning produced.          *)
THEOREM FailuresAreCaused == Spec => []FailureHasCause
<1>1. LoweredOK => FailureHasCause
  BY DEF LoweredOK, Failed
<1> QED BY <1>1, LoweringInvariance, PTL

(* From the end of a rollout on the target variant is served to all,       *)
(* whatever steps are scheduled around its stages, as long as none takes   *)
(* effect at that very instant.                                            *)
THEOREM RolloutsComplete == Spec => []RolloutCompletes
<1>1. LoweredOK => RolloutCompletes
  BY RolloutIsCompleted
<1> QED BY <1>1, LoweringInvariance, PTL

(* Whatever the order in which sort.Slice leaves entries of one date, the  *)
(* schedule that is left after pruning puts into force, at each instant,   *)
(* what the newest stage or enabled step of the source says.               *)
THEOREM MeaningPreserved == Spec => []LoweringPreservesMeaning
<1>1. LoweredOK => LoweringPreservesMeaning
  BY MeaningIsKept
<1> QED BY <1>1, LoweringInvariance, PTL

-----------------------------------------------------------------------------
(* Orderly environments                                                    *)

(* The interval of the rollout has room for its stages, and the enabled    *)
(* steps come after it.  At the code's resolution of a nanosecond every    *)
(* rollout has room that lasts longer than its number of stages.           *)
Orderly(e) ==
  e.rollout # NoRollout =>
    /\ e.rollout.stages <= e.rollout.end - e.rollout.start + 1
    /\ \A i \in DOMAIN e.steps : ~ e.steps[i].disabled => e.steps[i].at > e.rollout.end

(* Where there is room no two stages are for one instant.                  *)
LEMMA StagesAreApart ==
  ASSUME NEW start, NEW end, NEW n, IsInterval(start, end, n), n <= end - start + 1,
         NEW j \in 1 .. n, NEW k \in 1 .. n, j < k
  PROVE  StageInstant(start, end, j, n) < StageInstant(start, end, k, n)
<1>1. start \in Nat /\ end \in Nat /\ start < end /\ n \in Nat \ {0}
  BY DEF IsInterval
<1>2. CASE k = n
  <2>1. j <= k /\ j # n
    BY <1>1, <1>2
  <2> QED BY <1>2, <2>1, StageOrder
<1>3. CASE k # n
  <2> DEFINE L == end - start
             m == n - 1
             x == L * (j - 1)
             y == L * (k - 1)
             p == x \div m
             q == y \div m
  <2>1. L \in Nat /\ m \in Nat \ {0} /\ m <= L /\ j - 1 \in Nat /\ k - 1 \in Nat
        /\ (j - 1) + 1 <= k - 1
    BY <1>1, <1>3
  <2>2. x \in Nat /\ y \in Nat /\ x + L <= y
    <3>1. (j - 1) * L + L <= (k - 1) * L
      BY <2>1, ProductIsMonotone
    <3> QED BY <2>1, <3>1
  <2>3. /\ StageInstant(start, end, j, n) = start + p
        /\ StageInstant(start, end, k, n) = start + q
    BY <1>1, <1>3 DEF StageInstant
  <2> HIDE DEF L, m, x, y
  <2>4. /\ p \in Nat /\ p * m \in Nat /\ p * m <= x
        /\ q \in Nat /\ q * m \in Nat /\ y < q * m + m
    BY <2>1, <2>2, QuotientBounds
  <2> HIDE DEF p, q
  <2>5. p < q
    <3> SUFFICES ASSUME q <= p PROVE FALSE
      BY <2>4
    <3>1. q * m <= p * m
      BY <2>1, <2>4, ProductsAreOrdered
    <3> QED BY <2>1, <2>2, <2>4, <3>1
  <2> QED BY <1>1, <2>3, <2>4, <2>5
<1> QED BY <1>2, <1>3

(* So an orderly environment is apart, once it is laid out.                *)
LEMMA OrderlyIsApart ==
  ASSUME IInv, LaidOut, Orderly(env)
  PROVE  /\ Apart
         /\ \A i, j \in 1 .. Len(schedule) :
              i < j /\ j <= StageCount => schedule[i].at < schedule[j].at
         /\ \A s \in Stages : \A o \in Enabled : s.at < o.at
<1> DEFINE r == env.rollout
<1>1. /\ env \in Environments /\ Len(schedule) \in Nat /\ DOMAIN schedule = 1 .. Len(schedule)
      /\ DOMAIN env.steps = 1 .. Len(env.steps) /\ Len(env.steps) \in Nat
      /\ \A i \in 1 .. Len(env.steps) : env.steps[i].at \in Nat
      /\ \A i \in 1 .. Len(schedule) : schedule[i].at \in Nat
  BY ScheduleFacts, StepFacts
<1>2. Later
  <2> SUFFICES ASSUME HasStages, NEW s \in Enabled PROVE s.at > r.end
    BY DEF Later
  <2> QED BY <1>1 DEF Orderly, HasStages, Enabled
<1>3. ASSUME NEW i \in 1 .. Len(schedule), NEW j \in 1 .. Len(schedule), i < j, j <= StageCount
      PROVE  schedule[i].at < schedule[j].at
  <2>1. /\ HasStages /\ j \in 1 .. r.stages /\ i \in 1 .. r.stages
        /\ schedule[i].at = StageInstant(r.start, r.end, i, r.stages)
        /\ schedule[j].at = StageInstant(r.start, r.end, j, r.stages)
    <3>1. i <= StageCount
      BY <1>1, <1>3, StageCountType
    <3> QED BY <1>3, <3>1, StageFacts
  <2>2. IsInterval(r.start, r.end, r.stages) /\ r.stages <= r.end - r.start + 1
    BY <1>1, <2>1, RolloutFacts DEF IsInterval, Orderly, HasStages
  <2> HIDE DEF r
  <2> QED BY <1>3, <2>1, <2>2, StagesAreApart
<1>4. ASSUME NEW s \in Stages
      PROVE  /\ HasStages
             /\ \E k \in 1 .. Len(schedule) : k <= StageCount /\ s = schedule[k] /\ s.at <= r.end
  <2>1. HasStages /\ StageCount = r.stages /\ r.end \in Nat
    BY <1>1, <1>4, RolloutFacts DEF Stages, StageCount
  <2>2. PICK k \in 1 .. Len(schedule) : s = schedule[k] /\ k <= r.stages
    BY <1>1, <1>4, <2>1 DEF Stages
  <2>3. schedule[k].at <= r.end
    BY <1>1, <2>1, <2>2, StageFacts
  <2> QED BY <2>1, <2>2, <2>3
<1>5. ASSUME NEW s \in Stages, NEW o \in Enabled PROVE s.at < o.at
  <2>1. s.at <= r.end /\ HasStages /\ s.at \in Nat /\ r.end \in Nat
    BY <1>1, <1>4, RolloutFacts
  <2>2. o.at > r.end /\ o.at \in Nat
    BY <1>1, <1>2, <2>1 DEF Later, Enabled
  <2> QED BY <2>1, <2>2
<1>6. ASSUME NEW s \in Source, NEW o \in Source, s.at = o.at PROVE s = o
  <2>1. ASSUME NEW a \in Stages, NEW b \in Source, b \notin Stages PROVE a.at # b.at
    <3>1. PICK c \in Enabled : b = Snapshot(c.at, c.evaluation)
      BY <2>1 DEF Source
    <3>2. b.at = c.at /\ c.at \in Nat /\ a.at \in Nat
      BY <1>1, <1>4, <3>1 DEF Snapshot, Enabled
    <3> QED BY <1>5, <3>2
  <2>2. CASE s \in Stages /\ o \in Stages
    <3>1. PICK i \in 1 .. Len(schedule) : i <= StageCount /\ s = schedule[i]
      BY <1>4, <2>2
    <3>2. PICK j \in 1 .. Len(schedule) : j <= StageCount /\ o = schedule[j]
      BY <1>4, <2>2
    <3>3. ~ (i < j) /\ ~ (j < i)
      BY <1>1, <1>3, <1>6, <3>1, <3>2
    <3> QED BY <1>1, <3>1, <3>2, <3>3
  <2>3. CASE s \notin Stages /\ o \notin Stages
    <3>1. PICK a \in Enabled, b \in Enabled : /\ s = Snapshot(a.at, a.evaluation)
                                              /\ o = Snapshot(b.at, b.evaluation)
      BY <2>3 DEF Source
    <3>2. PICK i \in 1 .. Len(env.steps), j \in 1 .. Len(env.steps) :
            a = env.steps[i] /\ b = env.steps[j]
      BY <1>1 DEF Enabled
    <3>3. a.at = b.at
      BY <1>6, <3>1 DEF Snapshot
    <3>4. i = j
      BY <1>1, <3>2, <3>3, StepFacts
    <3> QED BY <3>1, <3>2, <3>4
  <2> QED BY <1>6, <2>1, <2>2, <2>3
<1> QED BY <1>2, <1>3, <1>5, <1>6 DEF Apart

(* An orderly environment fails for its size only: its rollout has too     *)
(* many stages, or it has too many snapshots.                              *)
THEOREM OrderlyFailsForItsSize ==
  Spec => [](Orderly(env) => \/ failure \in {"none", "stages"}
                             \/ failure = "limit" /\ Cardinality(Source) > Limit)
<1>1. LoweredOK => (Orderly(env) => \/ failure \in {"none", "stages"}
                                    \/ failure = "limit" /\ Cardinality(Source) > Limit)
  <2> SUFFICES ASSUME LoweredOK, Orderly(env)
               PROVE  failure \notin {"duplicate", "tie"}
    BY DEF LoweredOK, IInv, TypeOK, Failed, FailureHasCause
  <2> USE DEF LoweredOK
  <2>1. \A s \in Stages : \A o \in Enabled : s.at < o.at
    BY OrderlyIsApart
  <2>2. \A s \in Stages, o \in Enabled : s.at # o.at
    <3>1. \A s \in Source : s.at \in Nat
      BY SourceDates
    <3>2. \A o \in Enabled : o.at \in Nat
      BY ScheduleFacts, StepFacts DEF Enabled
    <3> QED BY <2>1, <3>1, <3>2 DEF Source
  <2>3. ASSUME NEW i \in 1 .. Len(schedule), NEW j \in 1 .. Len(schedule),
               i < j, schedule[i].at = schedule[j].at
        PROVE  ~ (j <= env.rollout.stages)
    <3>1. /\ ~ (j <= StageCount) /\ schedule[i].at \in Nat /\ schedule[j].at \in Nat
          /\ env \in Environments /\ StageCount \in Nat
      BY <2>3, OrderlyIsApart, ScheduleFacts, StageCountType
    <3>2. ~ (StageCount < i)
      BY <2>3, <3>1 DEF LaidOut
    <3>3. HasStages
      BY <3>1, <3>2, StageCountType
    <3> QED BY <3>1, <3>3 DEF StageCount
  <2> QED BY <2>2, <2>3 DEF Failed, FailureHasCause
<1> QED BY <1>1, LoweringInvariance, PTL
=============================================================================
