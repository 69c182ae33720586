------------------------------ MODULE Conditions ------------------------------
(***************************************************************************)
(* Condition trees and what the stages of the compiler do to them:         *)
(* simplifyCondition (normalize/simplify.go), condition (ir/normalize.go), *)
(* validateConditionDepth (ir/validate.go), Evaluate (runtimeeval) and     *)
(* compileIRCondition of both targets.                                     *)
(*                                                                         *)
(* Comparisons are on one attribute x, which may be missing or no number:  *)
(* then ctx.numeric is FALSE.  "opaque" leaves are the kinds of condition  *)
(* that only differ in which target supports them; ctx.holds says whether  *)
(* they hold.  What a leaf is applied to is its operands: "fit", "unfit"   *)
(* when they are not what the lowering asks of its operator (an attribute, *)
(* and a literal or a list of literals of the kind it takes), "malformed"  *)
(* when they are, but ir.Validate refuses the path or a literal (a segment *)
(* that is no identifier, no SemVer version, a list that is too long or    *)
(* of mixed domains, a text over the limit, a number that is not finite).  *)
(* The parser lets all three through.                                      *)
(***************************************************************************)
EXTENDS Integers, SequencesExt

CONSTANTS
  MaxHeight,    \* bound: how deeply an authored condition is nested
  MaxDepth,     \* deepest nesting ir.Validate accepts: 64 in the code
  MaxChildren   \* children of one logical condition: 256 in the code

ASSUME ConditionAssumption ==
  /\ MaxHeight \in Nat
  /\ MaxDepth \in Nat
  /\ MaxChildren \in Nat

Groups == {"all", "any", "one"}
Comparisons == {"eq", "ne", "gt", "gte", "lt", "lte"}
LeafForms == {"membership", "collection_contains", "string_contains", "string_match",
              "semver_comparison", "presence"}
Operands == {"fit", "unfit", "malformed"}

Leaves ==
  [kind : {"const"}, value : BOOLEAN]
    \cup [kind : {"cmp"}, op : Comparisons, lit : Int, flipped : BOOLEAN,
          operands : Operands]
    \cup [kind : {"opaque"}, form : LeafForms, operands : Operands]

(* The trees at most h deep.  protovalidate asks for a child in each group *)
(* of an authoring document.                                               *)
Trees[h \in Nat] ==
  IF h = 0 THEN Leaves
  ELSE LET below == Trees[h - 1]
       IN below \cup [kind : {"not"}, kid : below]
                \cup [kind : Groups, kids : Seq(below) \ {<<>>}]

(* Authored and lowered conditions; what a target is given: Compiled nests *)
(* the children of one_of three levels deeper.                             *)
Condition == Trees[MaxHeight]
Expression == Trees[3 * MaxHeight]

(* A runtime context.                                                      *)
Context == [numeric : BOOLEAN, x : Int, holds : BOOLEAN]

(* The forms of a condition.  A comparison is authored with the attribute  *)
(* on the left or, flipped, with the literal on the left.                  *)
Const(b) == [kind |-> "const", value |-> b]
Compare(op, lit, flipped, operands) ==
  [kind |-> "cmp", op |-> op, lit |-> lit, flipped |-> flipped, operands |-> operands]
Opaque(form, operands) == [kind |-> "opaque", form |-> form, operands |-> operands]
Group(op, kids) == [kind |-> op, kids |-> kids]
Not(c) == [kind |-> "not", kid |-> c]

IsConst(c, b) == c.kind = "const" /\ c.value = b

CompareNumbers(a, op, b) ==
  CASE op = "eq" -> a = b [] op = "ne" -> a # b
    [] op = "gt" -> a > b [] op = "gte" -> a >= b
    [] op = "lt" -> a < b [] op = "lte" -> a <= b

(* What an author means: a comparison of a missing or mistyped attribute   *)
(* is false, whatever its operator.                                        *)
LeafMeans(c, ctx) ==
  CASE c.kind = "const" -> c.value
    [] c.kind = "opaque" -> ctx.holds
    [] c.kind = "cmp" -> /\ ctx.numeric
                         /\ IF c.flipped THEN CompareNumbers(c.lit, c.op, ctx.x)
                            ELSE CompareNumbers(ctx.x, c.op, c.lit)

Meaning(ctx) ==
  LET means[c \in Condition] ==
        CASE c.kind = "all" -> \A i \in DOMAIN c.kids : means[c.kids[i]]
          [] c.kind = "any" -> \E i \in DOMAIN c.kids : means[c.kids[i]]
          [] c.kind = "one" -> \E i \in DOMAIN c.kids :
                                 \A j \in DOMAIN c.kids : means[c.kids[j]] <=> i = j
          [] c.kind = "not" -> ~ means[c.kid]
          [] OTHER -> LeafMeans(c, ctx)
  IN means

(* Mutant of Flattened: a group of either kind is flattened.               *)
FlattenedAny(op, s) ==
  IF IsConst(s, op = "all") THEN <<>>
  ELSE IF s.kind \in {"all", "any"} THEN s.kids ELSE <<s>>

(* Mutant of Flattened: an any inside an any stays nested.                 *)
FlattenedAll(op, s) ==
  IF IsConst(s, op = "all") THEN <<>>
  ELSE IF s.kind = op /\ op = "all" THEN s.kids ELSE <<s>>

(* What is left of one child of an all (or any) once the unit is dropped   *)
(* and a child of the same kind is flattened into it.                      *)
Flattened(op, s) ==
  IF IsConst(s, op = "all") THEN <<>> ELSE IF s.kind = op THEN s.kids ELSE <<s>>

(* An all or any of simplified children.                                   *)
Combined(op, kids) ==
  LET flat == FlattenSeq([i \in DOMAIN kids |-> Flattened(op, kids[i])])
  IN IF \E i \in DOMAIN kids : IsConst(kids[i], op = "any") THEN Const(op = "any")
     ELSE IF flat = <<>> THEN Const(op = "all")
     ELSE IF Len(flat) = 1 THEN flat[1]
     ELSE Group(op, flat)

(* simplifyCondition.  one_of is left as it is, its children too.          *)
simplify[c \in Condition] ==
  CASE c.kind \in {"all", "any"} -> Combined(c.kind, [i \in DOMAIN c.kids |-> simplify[c.kids[i]]])
    [] c.kind = "not" ->
         LET child == simplify[c.kid]
         IN IF child.kind = "const" THEN Const(~ child.value)
            ELSE IF child.kind = "not" THEN simplify[child.kid]
            ELSE Not(child)
    [] OTHER -> c

(* Mutant of Mirror: the operator stays when its operands change sides.    *)
Unturned(op) == op

(* numericOperator: the IR has the attribute on the left.                  *)
Mirror(op) ==
  CASE op = "gt" -> "lt" [] op = "gte" -> "lte"
    [] op = "lt" -> "gt" [] op = "lte" -> "gte" [] OTHER -> op

(* Mutant of canonical: groups of one stay.                                *)
NegationOnly(c) ==
  IF c.kind = "not" /\ c.kid.kind = "const" THEN Const(~ c.kid.value) ELSE c

(* canonicalCondition: a group of one is its child, a negated constant is  *)
(* a constant.                                                             *)
canonical(c) ==
  CASE c.kind \in Groups /\ Len(c.kids) = 1 -> c.kids[1]
    [] c.kind = "not" /\ c.kid.kind = "const" -> Const(~ c.kid.value)
    [] OTHER -> c

(* The operands of the leaves of a condition.                              *)
OperandsOf[c \in Condition] ==
  CASE c.kind \in Groups -> UNION {OperandsOf[c.kids[i]] : i \in DOMAIN c.kids}
    [] c.kind = "not" -> OperandsOf[c.kid]
    [] c.kind \in {"cmp", "opaque"} -> {c.operands}
    [] OTHER -> {}

(* Whether condition returns one: it fails on a leaf whose operands the    *)
(* operator does not take, and with the leaf fails all that holds it.      *)
Lowers(c) == "unfit" \notin OperandsOf[c]

(* rawCondition: one node, when lowered holds its children's results; used *)
(* only of conditions that lower.                                          *)
rawCondition(lowered, c) ==
  CASE c.kind = "cmp" -> Compare(IF c.flipped THEN Mirror(c.op) ELSE c.op, c.lit, FALSE, c.operands)
    [] c.kind \in Groups -> Group(c.kind, [i \in DOMAIN c.kids |-> lowered[c.kids[i]]])
    [] c.kind = "not" -> Not(lowered[c.kid])
    [] OTHER -> c

(* condition: rawCondition on the node, canonicalCondition on its result.  *)
lower[c \in Condition] == canonical(rawCondition(lower, c))

(* validateConditionDepth and protovalidate: the depth, at least two and   *)
(* at most MaxChildren children of a logical condition, and the path and   *)
(* literals of every leaf.                                                 *)
Valid[c \in Condition] == [depth \in Nat |->
  /\ depth <= MaxDepth
  /\ c.kind \in {"cmp", "opaque"} => c.operands # "malformed"
  /\ c.kind \in Groups => /\ Len(c.kids) \in 2 .. MaxChildren
                          /\ \A i \in DOMAIN c.kids : Valid[c.kids[i]][depth + 1]
  /\ c.kind = "not" => Valid[c.kid][depth + 1]]

Depth[c \in Condition] ==
  CASE c.kind \in Groups -> 1 + Max({Depth[c.kids[i]] : i \in DOMAIN c.kids})
    [] c.kind = "not" -> 1 + Depth[c.kid]
    [] OTHER -> 0

(* evaluateLogical counts the children that hold.                          *)
Evaluate(ctx) ==
  LET evaluate[c \in Expression] ==
        CASE c.kind = "const" -> c.value
          [] c.kind = "opaque" -> ctx.holds
          [] c.kind = "cmp" -> ctx.numeric /\ CompareNumbers(ctx.x, c.op, c.lit)
          [] c.kind = "not" -> ~ evaluate[c.kid]
          [] OTHER ->
               LET matched == Quantify(DOMAIN c.kids, LAMBDA i : evaluate[c.kids[i]])
               IN CASE c.kind = "all" -> matched = Len(c.kids)
                    [] c.kind = "any" -> matched > 0
                    [] c.kind = "one" -> matched = 1
  IN evaluate

(* Mutant of Refuses: flagd is given inequalities.                         *)
RefusesForms(target, c) ==
  \/ c.kind = "opaque" /\ c.form \in {"collection_contains", "presence"}
  \/ c.kind = "opaque" /\ c.form = "semver_comparison" /\ target = "flagd"
  \/ c.kind = "opaque" /\ c.form = "string_contains" /\ target = "gofeatureflag"

(* Which leaves compileIRCondition of a target refuses.                    *)
Refuses(target, c) ==
  \/ c.kind = "opaque" /\ c.form \in {"collection_contains", "presence"}
  \/ c.kind = "opaque" /\ c.form = "semver_comparison" /\ target = "flagd"
  \/ c.kind = "opaque" /\ c.form = "string_contains" /\ target = "gofeatureflag"
  \/ c.kind = "cmp" /\ c.op = "ne" /\ target = "flagd"

Compiles(target) ==
  LET compiles[c \in Condition] ==
        CASE c.kind \in Groups -> \A i \in DOMAIN c.kids : compiles[c.kids[i]]
          [] c.kind = "not" -> compiles[c.kid]
          [] OTHER -> ~ Refuses(target, c)
  IN compiles

(* compileIRExactlyOne: one clause for each child, which holds while none  *)
(* of the others does.                                                     *)
ExactlyOne(kids) ==
  Group("any", [i \in DOMAIN kids |->
    LET others == RemoveAt(kids, i)
    IN Group("all", <<kids[i]>> \o [j \in DOMAIN others |-> Not(others[j])])])

(* The expression of the target: and, or, not and leaves.                  *)
Compiled[c \in Condition] ==
  CASE c.kind \in {"all", "any"} -> Group(c.kind, [i \in DOMAIN c.kids |-> Compiled[c.kids[i]]])
    [] c.kind = "one" -> ExactlyOne([i \in DOMAIN c.kids |-> Compiled[c.kids[i]]])
    [] c.kind = "not" -> Not(Compiled[c.kid])
    [] OTHER -> c

(* ConditionCapabilityMatrix: the kinds it declares a target not to have.  *)
MatrixUnsupported(target) ==
  {"collection_contains", "presence"}
    \cup (IF target = "flagd" THEN {"semver_comparison", "inequality"} ELSE {"string_contains"})

ComparisonKind(op) ==
  CASE op = "eq" -> "equality" [] op = "ne" -> "inequality" [] OTHER -> "numeric_comparison"

KindsOf[c \in Condition] ==
  CASE c.kind \in Groups -> {"logical"} \cup UNION {KindsOf[c.kids[i]] : i \in DOMAIN c.kids}
    [] c.kind = "not" -> {"negation"} \cup KindsOf[c.kid]
    [] c.kind = "const" -> {"constant"}
    [] c.kind = "opaque" -> {c.form}
    [] c.kind = "cmp" -> {ComparisonKind(c.op)}
=============================================================================
