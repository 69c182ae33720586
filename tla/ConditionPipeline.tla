--------------------------- MODULE ConditionPipeline ---------------------------
(***************************************************************************)
(* The rules of one evaluation on their way to a target.  normalizeRule-   *)
(* Entry simplifies each condition and prunes the list, evaluation() of    *)
(* internal/ir lowers it, ir.Validate checks it and the compiler of the    *)
(* target translates it rule by rule: flagd from the last rule to the      *)
(* first, wrapping what it has in an "if", GO Feature Flag in order.       *)
(***************************************************************************)
EXTENDS Conditions

CONSTANTS
  RulesMax,   \* rules of one evaluation: 1024 in the code
  Actions,    \* what a rule may serve
  Default,    \* the default action
  Authored,   \* the evaluations: records [rules, scheduled]
  Contexts    \* the runtime contexts

ASSUME PipelineAssumption ==
  /\ RulesMax \in Nat
  /\ Authored \subseteq [rules : Seq([if : Condition, action : Actions]), scheduled : BOOLEAN]
  /\ Contexts \subseteq Context

VARIABLES
  source,     \* the evaluation, as authored
  target,     \* "flagd" or "gofeatureflag"
  phase,      \* "normalize", "lower", "validate", "compile" or an outcome
  at,         \* the rule the normalizing loop is at
  rules,      \* the rules kept so far, in the form of the current phase
  compiled    \* the rules translated so far

vars == <<source, target, phase, at, rules, compiled>>

Init ==
  /\ source \in Authored
  /\ target \in {"flagd", "gofeatureflag"}
  /\ phase = "normalize"
  /\ at = 1
  /\ rules = <<>>
  /\ compiled = <<>>

AtEntry == phase = "normalize" /\ at <= Len(source.rules)
Simplified == simplify[source.rules[at].if]

(* A rule that can never match is dropped.                                 *)
DropEntry ==
  /\ AtEntry
  /\ IsConst(Simplified, FALSE)
  /\ at' = at + 1
  /\ UNCHANGED <<source, target, phase, rules, compiled>>

(* Mutant of KeepEntry: the loop goes on after a rule that always matches. *)
KeepAll ==
  /\ AtEntry
  /\ ~ IsConst(Simplified, FALSE)
  /\ rules' = Append(rules, [if |-> Simplified, action |-> source.rules[at].action])
  /\ at' = at + 1
  /\ UNCHANGED <<source, target, phase, compiled>>

(* Mutant of KeepEntry: the loop jumps past the end of the list.           *)
KeepAndLeap ==
  /\ AtEntry
  /\ ~ IsConst(Simplified, FALSE)
  /\ rules' = Append(rules, [if |-> Simplified, action |-> source.rules[at].action])
  /\ at' = IF IsConst(Simplified, TRUE) /\ ~ source.scheduled
           THEN Len(source.rules) + 2 ELSE at + 1
  /\ UNCHANGED <<source, target, phase, compiled>>

(* After a base rule that always matches, the loop stops; in a scheduled   *)
(* step it goes on.                                                        *)
KeepEntry ==
  /\ AtEntry
  /\ ~ IsConst(Simplified, FALSE)
  /\ rules' = Append(rules, [if |-> Simplified, action |-> source.rules[at].action])
  /\ at' = IF IsConst(Simplified, TRUE) /\ ~ source.scheduled
           THEN Len(source.rules) + 1 ELSE at + 1
  /\ UNCHANGED <<source, target, phase, compiled>>

EndNormalize ==
  /\ phase = "normalize"
  /\ at > Len(source.rules)
  /\ phase' = "lower"
  /\ UNCHANGED <<source, target, at, rules, compiled>>

(* evaluation() returns the first error of any rule, and no evaluation.    *)
FailToLower ==
  /\ phase = "lower"
  /\ \E i \in DOMAIN rules : ~ Lowers(rules[i].if)
  /\ phase' = "unlowered"
  /\ UNCHANGED <<source, target, at, rules, compiled>>

Lower ==
  /\ phase = "lower"
  /\ \A i \in DOMAIN rules : Lowers(rules[i].if)
  /\ rules' = [i \in DOMAIN rules |-> [rules[i] EXCEPT !.if = lower[@]]]
  /\ phase' = "validate"
  /\ UNCHANGED <<source, target, at, compiled>>

(* ir.Validate on the evaluation: how many rules, and each condition.      *)
Validate ==
  /\ phase = "validate"
  /\ phase' = IF /\ Len(rules) <= RulesMax
                 /\ \A i \in DOMAIN rules : Valid[rules[i].if][0]
              THEN "compile" ELSE "invalid"
  /\ UNCHANGED <<source, target, at, rules, compiled>>

(* The rule the compiler of the target comes to next.                      *)
Upcoming == IF target = "flagd" THEN Len(rules) - Len(compiled) ELSE Len(compiled) + 1

CompileRule ==
  /\ phase = "compile"
  /\ Len(compiled) < Len(rules)
  /\ Compiles(target)[rules[Upcoming].if]
  /\ LET r == [rules[Upcoming] EXCEPT !.if = Compiled[@]]
     IN compiled' = IF target = "flagd" THEN <<r>> \o compiled ELSE Append(compiled, r)
  /\ UNCHANGED <<source, target, phase, at, rules>>

RefuseRule ==
  /\ phase = "compile"
  /\ Len(compiled) < Len(rules)
  /\ ~ Compiles(target)[rules[Upcoming].if]
  /\ phase' = "unsupported"
  /\ UNCHANGED <<source, target, at, rules, compiled>>

EndCompile ==
  /\ phase = "compile"
  /\ Len(compiled) = Len(rules)
  /\ phase' = "compiled"
  /\ UNCHANGED <<source, target, at, rules, compiled>>

Next ==
  \/ DropEntry \/ KeepEntry \/ EndNormalize
  \/ FailToLower \/ Lower \/ Validate
  \/ CompileRule \/ RefuseRule \/ EndCompile

Spec == Init /\ [][Next]_vars

-----------------------------------------------------------------------------
(* Properties                                                              *)

TypeOK ==
  /\ source \in Authored
  /\ target \in {"flagd", "gofeatureflag"}
  /\ phase \in {"normalize", "lower", "validate", "compile",
                "unlowered", "invalid", "unsupported", "compiled"}
  /\ at \in 1 .. Len(source.rules) + 1
  /\ Len(compiled) <= Len(rules) /\ Len(rules) < at

(* The first rule that matches decides; holds says of a condition whether  *)
(* it matches.                                                             *)
Chosen(list, holds) ==
  LET matching == {i \in DOMAIN list : holds[list[i].if]}
  IN IF matching = {} THEN Default ELSE list[Min(matching)].action

(* What a native comparison makes of a missing or mistyped attribute is the *)
(* target's; the compiler guards flagd's equality against a missing one.    *)
LeftToTarget ==
  {"numeric_comparison", "inequality"} \cup (IF target = "flagd" THEN {} ELSE {"equality"})
Kinds == UNION {KindsOf[rules[i].if] : i \in DOMAIN rules}
Determined(ctx) == ctx.numeric \/ Kinds \cap LeftToTarget = {}

(* In every context every stage selects the action the author asked for:   *)
(* pruning, flattening, turning comparisons around, collapsing groups of   *)
(* one and expanding one_of change nothing, also half-way through a list.  *)
MeaningKept ==
  \A ctx \in Contexts :
    LET asked == Chosen(source.rules, Meaning(ctx))
        rest == SubSeq(source.rules, at, Len(source.rules))
    IN /\ phase = "normalize" => Chosen(rules \o rest, Meaning(ctx)) = asked
       /\ phase \in {"validate", "compile"} => Chosen(rules, Evaluate(ctx)) = asked
       /\ phase = "compiled" /\ Determined(ctx) => Chosen(compiled, Evaluate(ctx)) = asked

(* Outside one_of nothing can be simplified further: no constant is left   *)
(* in a group or under a negation, no group holds one of its own kind or a *)
(* single child, no negation is doubled.                                   *)
Normal[c \in Condition] ==
  /\ c.kind \in {"all", "any"} =>
       /\ Len(c.kids) > 1
       /\ \A i \in DOMAIN c.kids : /\ c.kids[i].kind \notin {c.kind, "const"}
                                   /\ Normal[c.kids[i]]
  /\ c.kind = "not" => c.kid.kind \notin {"not", "const"} /\ Normal[c.kid]

NormalForm ==
  phase \in {"normalize", "lower"} =>
    /\ \A i \in DOMAIN rules : Normal[rules[i].if] /\ ~ IsConst(rules[i].if, FALSE)
    /\ ~ source.scheduled => \A i \in 1 .. Len(rules) - 1 : ~ IsConst(rules[i].if, TRUE)

Wide[c \in Condition] ==
  \/ c.kind \in Groups /\ (Len(c.kids) > MaxChildren \/ \E i \in DOMAIN c.kids : Wide[c.kids[i]])
  \/ c.kind = "not" /\ Wide[c.kid]

(* A rejection has a cause the author can find: the lowering fails only on *)
(* a leaf written with operands its operator does not take; ir.Validate    *)
(* turns an evaluation down only for too many rules left, a condition that *)
(* is too deep or too wide once lowered, or a leaf written with a          *)
(* malformed path or literal.  What it refuses in actions is not modelled. *)
(* In particular never for a group left with fewer than two children,      *)
(* whatever simplification skipped inside one_of.                          *)
RejectionHasCause ==
  LET written == UNION {OperandsOf[source.rules[i].if] : i \in DOMAIN source.rules}
  IN /\ phase = "unlowered" => "unfit" \in written
     /\ phase = "invalid" =>
          \/ Len(rules) > RulesMax
          \/ \E i \in DOMAIN rules : Depth[rules[i].if] > MaxDepth \/ Wide[rules[i].if]
          \/ "malformed" \in written

(* The compilers and ConditionCapabilityMatrix agree: a target refuses an  *)
(* evaluation exactly when a condition is left in it of a kind the matrix  *)
(* declares unsupported, wherever it is nested.                            *)
VerdictMatchesMatrix ==
  /\ phase = "compiled" => Kinds \cap MatrixUnsupported(target) = {}
  /\ phase = "unsupported" => Kinds \cap MatrixUnsupported(target) # {}
=============================================================================
