------------------------------- MODULE Rollout -------------------------------
(***************************************************************************)
(* The arithmetic of internal/ir/normalize.go: the weights and the instant *)
(* of each stage of a progressive rollout, and the canonical form of the   *)
(* weights of any distribution.  Instants are natural numbers (the code's  *)
(* nanoseconds), an action is a function from variants to weights, and     *)
(* serving one variant is the action with that variant alone.              *)
(***************************************************************************)
EXTENDS Integers, Functions

Serve(v) == [x \in {v} |-> 1]

(* Every integer math.Round may return for the float64 nearest to          *)
(* 100 * k / n.  Where that quotient is half-way between two integers the  *)
(* error of the division decides, so both are possible.                    *)
Rounded(k, n) == {p \in 0 .. 100 : 200 * k - n <= 2 * p * n /\ 2 * p * n <= 200 * k + n}

AtLeastOne(p) == IF p = 0 THEN 1 ELSE p

(* Mutant of StageWeights: the two percentages are exchanged.              *)
ExchangedWeights(default, target, k, n) ==
  {[v \in {default, target} |-> AtLeastOne(IF v = target THEN q ELSE p)] :
     p \in Rounded(k, n), q \in Rounded(n - k, n)}

(* Stage k of n before the last: k parts of n for the target variant, the  *)
(* rest for the default variant, as percentages of at least one.           *)
StageWeights(default, target, k, n) ==
  {[v \in {default, target} |-> AtLeastOne(IF v = target THEN p ELSE q)] :
     p \in Rounded(k, n), q \in Rounded(n - k, n)}

(* greatestCommonDivisor, Euclid's loop on a pair.                         *)
gcd[p \in Nat \X Nat] == IF p[2] = 0 THEN p[1] ELSE gcd[<<p[2], p[1] % p[2]>>]

Divisor(weights) == FoldFunction(LAMBDA w, d : gcd[<<d, w>>], 0, weights)

canonicalWeights(weights) ==
  [v \in DOMAIN weights |-> weights[v] \div Divisor(weights)]

(* The instant of stage k of n: the first at start, the last at end.       *)
StageInstant(start, end, k, n) ==
  IF k = n THEN end ELSE start + ((end - start) * (k - 1)) \div (n - 1)

(* The evaluation in force at instant t: that of the newest snapshot that  *)
(* is not dated after t, else the base.                                    *)
InForce(base, snapshots, t) ==
  LET eligible == {s \in snapshots : s.at <= t}
  IN IF eligible = {} THEN base
     ELSE (CHOOSE s \in eligible : \A o \in eligible : o.at <= s.at).evaluation
=============================================================================
