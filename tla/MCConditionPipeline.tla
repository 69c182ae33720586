------------------------- MODULE MCConditionPipeline -------------------------
(* ConditionPipeline on one rule with every condition of two levels, and   *)
(* on lists of rules with conditions of one level.                         *)
EXTENDS ConditionPipeline

CONSTANTS Forms, MaxRules

Constants == {Const(TRUE), Const(FALSE)}
Deeper(S) == S \cup {Not(c) : c \in S}
  \cup {Group(op, kids) : op \in Groups, kids \in [1 .. 1 -> S] \cup [1 .. 2 -> S]}

SomeLeaves == Constants \cup {Compare("gt", 1, TRUE, "fit"), Compare("eq", 1, FALSE, "unfit"),
  Opaque("semver_comparison", "fit"), Opaque("semver_comparison", "malformed")}
DeepConditions == Deeper(Deeper(SomeLeaves))

MCDeep == {[rules |-> <<[if |-> c, action |-> "a"]>>, scheduled |-> FALSE] : c \in DeepConditions}

SomeConditions == Constants
  \cup {Compare(op, 1, flipped, "fit") : op \in Comparisons, flipped \in BOOLEAN}
  \cup {Opaque(form, "fit") : form \in Forms}
  \cup {Opaque("membership", "unfit"), Compare("lt", 1, TRUE, "malformed"),
        Group("one", <<Const(FALSE), Opaque("string_match", "malformed")>>),
        Group("any", <<Const(TRUE), Opaque("string_match", "unfit")>>)}
  \cup {Group("one", <<Opaque("string_contains", "fit"), Const(TRUE), Compare("eq", 1, FALSE, "fit")>>),
        Group("all", <<Const(TRUE), Group("any", <<Compare("lt", 1, FALSE, "fit")>>)>>),
        Group("any", <<Not(Compare("lte", 1, TRUE, "fit")), Const(TRUE)>>),
        Not(Group("one", <<Compare("gte", 1, TRUE, "fit"), Const(FALSE)>>)),
        Not(Group("one", <<Const(TRUE), Not(Compare("eq", 1, FALSE, "fit"))>>))}

MCLists ==
  [rules : UNION {[1 .. n -> [if : SomeConditions, action : Actions]] : n \in 0 .. MaxRules},
   scheduled : BOOLEAN]

(* One rule more than an evaluation may have, though not always left.      *)
MCLong ==
  {[rules |-> [i \in 1 .. RulesMax + 1 |-> [if |-> c, action |-> "a"]], scheduled |-> b] :
     c \in SomeConditions, b \in BOOLEAN}

MCAuthored == MCDeep \cup MCLists \cup MCLong

MCContexts == [numeric : BOOLEAN, x : 0 .. 2, holds : BOOLEAN]
=============================================================================
