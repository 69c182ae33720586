------------------------------ MODULE RuleGraph ------------------------------
(***************************************************************************)
(* Named conditions.  An authoring document defines named rules; a         *)
(* condition may refer to a rule by name, from inside any nesting of       *)
(* all_of, any_of, one_of and not.  validateReferences checks the names a  *)
(* flag refers to and then runs detectRuleCycles, a depth-first search     *)
(* with three colours; normalizeCondition inlines the rules afterwards     *)
(* with no check of its own: it dereferences doc.Rules[name] and recurses. *)
(*                                                                         *)
(* A condition is abstracted to the names it refers to, in the order both  *)
(* collectRuleRefs and normalizeCondition meet them.                       *)
(***************************************************************************)
EXTENDS Integers, Sequences, FiniteSets

CONSTANTS
  Rule,      \* the names doc.Rules defines
  Missing,   \* names a condition may mention and doc.Rules does not define
  Flag,      \* stands for the condition of the flag itself on a path
  MaxRefs    \* bound: references one condition makes

ASSUME RuleAssumption ==
  /\ IsFiniteSet(Rule)
  /\ Rule \cap Missing = {}
  /\ Flag \notin Rule \cup Missing
  /\ MaxRefs \in Nat

Name == Rule \cup Missing

VARIABLES
  refs,     \* doc.Rules: rule |-> the names its condition mentions, in order
  entry,    \* the names one flag's condition mentions, in order
  phase,    \* "entries", "detect", "expand", "normalized" or "rejected"
  errors,   \* the errors joined so far: "unknown", "cycle", "undefined"
  roots,    \* names the range over doc.Rules has not delivered yet
  color,    \* the map state of detectRuleCycles: 0, 1 (on the stack) or 2
  stack,    \* the names dfs is inside of
  next,     \* for a name on the stack, the reference its loop is at
  path      \* the frames of normalizeCondition: whose condition, and where

document == <<refs, entry>>
search == <<roots, color, stack, next>>
vars == <<refs, entry, phase, errors, roots, color, stack, next, path>>

Conditions == UNION {[1 .. n -> Name] : n \in 0 .. MaxRefs}
Top(s) == s[Len(s)]
Pop(s) == SubSeq(s, 1, Len(s) - 1)

TypeOK ==
  /\ refs \in [Rule -> Seq(Name)]
  /\ entry \in Seq(Name)
  /\ phase \in {"entries", "detect", "expand", "normalized", "rejected"}
  /\ errors \subseteq {"unknown", "cycle", "undefined"}
  /\ roots \subseteq Rule
  /\ color \in [Rule -> 0 .. 2]
  /\ stack \in Seq(Rule)
  /\ next \in [Rule -> Nat \ {0}]
  /\ path \in Seq([owner : Name \cup {Flag}, at : Nat \ {0}])

(* Any document: protovalidate accepts every shape of reference.           *)
Init ==
  /\ refs \in [Rule -> Conditions]
  /\ entry \in Conditions
  /\ phase = "entries"
  /\ errors = {}
  /\ roots = Rule
  /\ color = [r \in Rule |-> 0]
  /\ stack = <<>>
  /\ next = [r \in Rule |-> 1]
  /\ path = <<>>

(* Mutant of CheckEntry: looks at the first name only.                     *)
CheckFirstEntry ==
  /\ phase = "entries"
  /\ errors' = IF entry = <<>> \/ entry[1] \in Rule THEN errors ELSE errors \cup {"unknown"}
  /\ phase' = "detect"
  /\ UNCHANGED <<document, search, path>>

(* validateConditionRefs: the names a flag mentions must be defined.  Its  *)
(* error is kept and the search runs all the same.                         *)
CheckEntry ==
  /\ phase = "entries"
  /\ errors' = IF \A i \in DOMAIN entry : entry[i] \in Rule
               THEN errors ELSE errors \cup {"unknown"}
  /\ phase' = "detect"
  /\ UNCHANGED <<document, search, path>>

(* dfs(n) is about to run: the range over doc.Rules, in no fixed order,    *)
(* delivers n, or the loop of the innermost dfs has come to n.             *)
Calls(n) ==
  /\ phase = "detect"
  /\ IF stack = <<>>
     THEN n \in roots
     ELSE /\ next[Top(stack)] <= Len(refs[Top(stack)])
          /\ n = refs[Top(stack)][next[Top(stack)]]

(* What the caller does once dfs of one of its names returned nil, where s *)
(* is the stack with the caller on top.                                    *)
Resume(s, n) ==
  IF s = <<>>
  THEN roots' = roots \ {n} /\ UNCHANGED next
  ELSE next' = [next EXCEPT ![Top(s)] = @ + 1] /\ UNCHANGED roots

Enter(n) ==
  /\ Calls(n)
  /\ n \in Rule
  /\ color[n] = 0
  /\ color' = [color EXCEPT ![n] = 1]
  /\ stack' = Append(stack, n)
  /\ UNCHANGED <<document, phase, errors, roots, next, path>>

(* Mutant of AlreadyDone: takes a name on the stack for one that is done.  *)
AlreadySeen(n) ==
  /\ Calls(n)
  /\ n \in Rule
  /\ color[n] # 0
  /\ Resume(stack, n)
  /\ UNCHANGED <<document, phase, errors, color, stack, path>>

AlreadyDone(n) ==
  /\ Calls(n)
  /\ n \in Rule
  /\ color[n] = 2
  /\ Resume(stack, n)
  /\ UNCHANGED <<document, phase, errors, color, stack, path>>

Reject(e) ==
  /\ errors' = errors \cup {e}
  /\ phase' = "rejected"
  /\ UNCHANGED <<document, search, path>>

(* Mutant of FoundCycle: with two colours a shared rule looks like a cycle.*)
FoundSeen(n) == Calls(n) /\ n \in Rule /\ color[n] # 0 /\ Reject("cycle")

FoundCycle(n) == Calls(n) /\ n \in Rule /\ color[n] = 1 /\ Reject("cycle")

FoundUndefined(n) == Calls(n) /\ n \notin Rule /\ Reject("undefined")

(* Mutant of Leave: the name is not marked as done.                        *)
LeaveUndone ==
  /\ phase = "detect"
  /\ stack # <<>>
  /\ next[Top(stack)] > Len(refs[Top(stack)])
  /\ stack' = Pop(stack)
  /\ Resume(Pop(stack), Top(stack))
  /\ UNCHANGED <<document, phase, errors, color, path>>

(* The loop of the innermost dfs is over: it leaves the stack as done.     *)
Leave ==
  /\ phase = "detect"
  /\ stack # <<>>
  /\ next[Top(stack)] > Len(refs[Top(stack)])
  /\ color' = [color EXCEPT ![Top(stack)] = 2]
  /\ stack' = Pop(stack)
  /\ Resume(Pop(stack), Top(stack))
  /\ UNCHANGED <<document, phase, errors, path>>

(* The range is exhausted.  errors.Join is nil when nothing was recorded;  *)
(* then normalizeCondition starts on the flag's own condition.             *)
FinishDetect ==
  /\ phase = "detect"
  /\ stack = <<>>
  /\ roots = {}
  /\ IF errors = {}
     THEN phase' = "expand" /\ path' = <<[owner |-> Flag, at |-> 1]>>
     ELSE phase' = "rejected" /\ UNCHANGED path
  /\ UNCHANGED <<document, errors, search>>

MentionsOf(x) == IF x = Flag THEN entry ELSE refs[x]
AtReference(f) == f.at <= Len(MentionsOf(f.owner))

(* Mutant of Inline: counts references from zero.                          *)
InlineFromZero ==
  /\ phase = "expand"
  /\ AtReference(Top(path))
  /\ path' = Append(path, [owner |-> MentionsOf(Top(path).owner)[Top(path).at], at |-> 0])
  /\ UNCHANGED <<document, phase, errors, search>>

(* normalizeCondition on a rule reference: doc.Rules[name] is inlined by a *)
(* recursive call.  The name may be undefined or already being inlined:    *)
(* nothing here looks.                                                     *)
Inline ==
  /\ phase = "expand"
  /\ AtReference(Top(path))
  /\ path' = Append(path, [owner |-> MentionsOf(Top(path).owner)[Top(path).at],
                           at |-> 1])
  /\ UNCHANGED <<document, phase, errors, search>>

(* Mutant of ReturnInlined: the caller does not move on.                   *)
ReturnToSame ==
  /\ phase = "expand"
  /\ ~ AtReference(Top(path))
  /\ IF Len(path) = 1
     THEN path' = <<>> /\ phase' = "normalized"
     ELSE path' = Pop(path) /\ UNCHANGED phase
  /\ UNCHANGED <<document, errors, search>>

ReturnInlined ==
  /\ phase = "expand"
  /\ ~ AtReference(Top(path))
  /\ IF Len(path) = 1
     THEN path' = <<>> /\ phase' = "normalized"
     ELSE path' = [Pop(path) EXCEPT ![Len(path) - 1].at = @ + 1] /\ UNCHANGED phase
  /\ UNCHANGED <<document, errors, search>>

Search ==
  \/ \E n \in Name : Enter(n)
  \/ \E n \in Name : AlreadyDone(n)
  \/ \E n \in Name : FoundCycle(n)
  \/ \E n \in Name : FoundUndefined(n)
  \/ Leave

Next == CheckEntry \/ Search \/ FinishDetect \/ Inline \/ ReturnInlined

(* One sequential program that nothing preempts: it keeps taking steps.    *)
Spec == Init /\ [][Next]_vars /\ WF_vars(Next)

-----------------------------------------------------------------------------
(* Properties                                                              *)

Mentions(r, n) == \E i \in DOMAIN refs[r] : refs[r][i] = n
MentionsIn(r, S) == \E n \in S : Mentions(r, n)
Accepted == phase \in {"expand", "normalized"}

(* A document that passes validateReferences has no rule cycle: every set  *)
(* of rules has one that mentions none of them.  Inlining relies on it.    *)
AcceptedIsAcyclic ==
  Accepted => \A S \in (SUBSET Rule) \ {{}} : \E r \in S : ~ MentionsIn(r, S)

(* A document that passes mentions no undefined rule, neither in the flag  *)
(* nor inside a rule no flag uses: normalizeCondition never reads a nil    *)
(* condition.                                                              *)
AcceptedIsClosed ==
  Accepted => /\ \A i \in DOMAIN entry : entry[i] \in Rule
              /\ \A r \in Rule : ~ MentionsIn(r, Missing)

(* "rule cycle detected" is never a false alarm, whatever order the range  *)
(* over the map takes: sharing a rule (a diamond) is accepted.  The names  *)
(* the message prints are a chain of references, and the last name closes  *)
(* a cycle with a part of it.                                              *)
CycleReportIsReal ==
  "cycle" \in errors =>
    LET last == refs[Top(stack)][next[Top(stack)]]
    IN /\ \A i \in 1 .. Len(stack) - 1 : Mentions(stack[i], stack[i + 1])
       /\ \E i \in DOMAIN stack : stack[i] = last

(* A rejection always has its cause in the document, so together with the *)
(* two properties above the verdict does not depend on the map order (the  *)
(* error that is reported does).                                           *)
NoFalseRejection ==
  phase = "rejected" =>
    \/ \E i \in DOMAIN entry : entry[i] \notin Rule
    \/ \E r \in Rule : MentionsIn(r, Missing)
    \/ \E S \in (SUBSET Rule) \ {{}} : \A r \in S : MentionsIn(r, S)

(* normalizeCondition never inlines a rule inside itself and never a name  *)
(* that is not defined, though it checks neither: its recursion is at most *)
(* one call per rule deep.                                                 *)
NeverInlinedInsideItself ==
  /\ \A i \in 2 .. Len(path) : path[i].owner \in Rule
  /\ \A i, j \in DOMAIN path : path[i].owner = path[j].owner => i = j

(* Validation and inlining come to an end on every document, with cycles,  *)
(* undefined names and shared rules.                                       *)
EventuallyDecided == <>(phase \in {"normalized", "rejected"})
=============================================================================
