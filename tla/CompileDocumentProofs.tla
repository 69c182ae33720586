------------------------- MODULE CompileDocumentProofs -------------------------
(***************************************************************************)
(* The properties of CompileDocument, for any number of flags, rules,      *)
(* snapshots and keys.  The strengthening says what each accumulated key   *)
(* stands for at each point of the loops: "list" for the rules seen of the *)
(* evaluation the loop is at, "sched" for the snapshots left behind and    *)
(* "bucket" for the base.                                                  *)
(***************************************************************************)
EXTENDS CompileDocument, SequenceTheorems, TLAPS

(* An action the target takes and whose key, if any, is the given one.     *)
Good(a, key) ==
  /\ target \notin a.refusedBy
  /\ target = "gofeatureflag" => a.key \in {NoKey, key}

GoodRules(p, n, key) == \A i \in 1 .. n : Good(p.rules[i], key)
GoodPart(p, key) == Good(p.default, key) /\ GoodRules(p, Len(p.rules), key)

(* A merged key is the key of some action of the flag.                     *)
FromAction(key) == key = NoKey \/ \E a \in ActionsOf(env) : a.key = key

Transportable(f) == target = "gofeatureflag" => ~ doc[f].unsafe

KeysComeFromActions ==
  Compiling => FromAction(bucket) /\ FromAction(list) /\ FromAction(sched)

BaseIsGood ==
  Compiling =>
    /\ Transportable(flag)
    /\ Good(env.base.default, bucket)
    /\ IF snapshot = 0 THEN GoodRules(env.base, at - 1, list)
       ELSE GoodRules(env.base, Len(env.base.rules), bucket)

SnapshotsAreGood ==
  Compiling =>
    /\ \A s \in 1 .. Len(env.schedule) : s < snapshot => GoodPart(env.schedule[s], sched)
    /\ snapshot \in 1 .. Len(env.schedule) => GoodRules(env.schedule[snapshot], at - 1, list)

CompiledAreGood ==
  \A f \in DOMAIN bucketing :
    /\ Transportable(f)
    /\ \A a \in ActionsOf(doc[f].env) : Good(a, bucketing[f])
    /\ target = "gofeatureflag" => \E a \in ActionsOf(doc[f].env) : a.key = bucketing[f]

EveryFlagCounted ==
  phase # "failed" =>
    /\ Flag = todo \cup DOMAIN bucketing \cup warned
    /\ \A f \in warned : doc[f].env = Undefined /\ allow
    /\ phase = "compiled" => todo = {}

FailedForCause == phase = "failed" => \E f \in Flag : Hopeless(f)

IInv ==
  /\ TypeOK
  /\ KeysComeFromActions
  /\ BaseIsGood
  /\ SnapshotsAreGood
  /\ CompiledAreGood
  /\ EveryFlagCounted
  /\ FailedForCause

-----------------------------------------------------------------------------
(* Facts about the data                                                    *)

LEMMA EvaluationShape ==
  ASSUME NEW p \in Evaluations
  PROVE  /\ p.rules \in Seq(Actions)
         /\ p.default \in Actions
         /\ Len(p.rules) \in Nat
         /\ DOMAIN p.rules = 1 .. Len(p.rules)
         /\ \A i \in 1 .. Len(p.rules) : p.rules[i] \in Actions
  <1>1. p.rules \in Seq(Actions) /\ p.default \in Actions
    BY DEF Evaluations
  <1> QED BY <1>1, LenProperties, ElementOfSeq

LEMMA EnvironmentShape ==
  ASSUME TypeOK, NEW f \in Flag, doc[f].env # Undefined
  PROVE  /\ doc[f].env \in Environments
         /\ doc[f].env.base \in Evaluations
         /\ Len(doc[f].env.schedule) \in Nat
         /\ DOMAIN doc[f].env.schedule = 1 .. Len(doc[f].env.schedule)
         /\ \A s \in 1 .. Len(doc[f].env.schedule) : doc[f].env.schedule[s] \in Evaluations
  <1>1. doc \in [Flag -> [unsafe : BOOLEAN, env : Environments \cup {Undefined}]]
    BY DocumentAssumption DEF TypeOK
  <1>2. doc[f].env \in Environments
    BY <1>1
  <1>3. doc[f].env.base \in Evaluations /\ doc[f].env.schedule \in Seq(Evaluations)
    BY <1>2 DEF Environments
  <1> QED BY <1>2, <1>3, LenProperties, ElementOfSeq

LEMMA PartActions ==
  ASSUME NEW e, NEW p \in Parts(e)
  PROVE  /\ p.default \in ActionsOf(e)
         /\ \A i \in DOMAIN p.rules : p.rules[i] \in ActionsOf(e)
  BY DEF ActionsOf

(* Merging keeps what either side had covered.                             *)
LEMMA MergedCovers ==
  ASSUME TypeOK, NEW l \in Keys, NEW r \in Keys, Merges(l, r), NEW a
  PROVE  /\ Good(a, l) => Good(a, Merged(l, r))
         /\ Good(a, r) => Good(a, Merged(l, r))
         /\ Merged(l, r) \in Keys
  BY DocumentAssumption DEF TypeOK, Targets, Merges, Merged, Good, Keys

LEMMA MergedFromAction ==
  ASSUME NEW l, NEW r, FromAction(l), FromAction(r)
  PROVE  FromAction(Merged(l, r))
  BY DEF FromAction, Merged

(* Two keys that do not merge are a conflict of the flag.                  *)
LEMMA UnmergedIsHopeless ==
  ASSUME TypeOK, flag # None, NEW l \in Keys, NEW r \in Keys,
         FromAction(l), FromAction(r), ~ Merges(l, r)
  PROVE  Hopeless(flag)
  <1>1. target = "gofeatureflag" /\ l # NoKey /\ r # NoKey /\ l # r
    BY DEF TypeOK, Targets, Merges
  <1>2. PICK a \in ActionsOf(env) : a.key = l
    BY <1>1 DEF FromAction
  <1>3. PICK b \in ActionsOf(env) : b.key = r
    BY <1>1 DEF FromAction
  <1>4. Conflict(env)
    BY <1>1, <1>2, <1>3 DEF Conflict
  <1> QED BY <1>1, <1>4 DEF Hopeless, TypeOK, env

-----------------------------------------------------------------------------
(* A flag that is refused, and the end of the loops                        *)

LEMMA FailStep ==
  ASSUME IInv, Fail, NEW f \in Flag, Hopeless(f)
  PROVE  IInv'
  <1>1. TypeOK'
    BY DEF IInv, TypeOK, Fail, arguments, cursor, keys
  <1>2. ~ Compiling'
    BY DEF Fail, Compiling
  <1>3. CompiledAreGood'
    BY DEF Fail, CompiledAreGood
  <1>4. EveryFlagCounted' /\ FailedForCause'
    BY DEF EveryFlagCounted, FailedForCause, Fail, arguments, Hopeless
  <1> QED BY <1>1, <1>2, <1>3, <1>4
     DEF IInv, KeysComeFromActions, BaseIsGood, SnapshotsAreGood

LEMMA InitInvariant == Init => IInv
  <1> SUFFICES ASSUME Init PROVE IInv
    OBVIOUS
  <1>1. TypeOK
    BY DEF Init, TypeOK, Keys
  <1>2. ~ Compiling
    BY DEF Init, Compiling
  <1>3. CompiledAreGood /\ EveryFlagCounted /\ FailedForCause
    BY DEF Init, CompiledAreGood, EveryFlagCounted, FailedForCause
  <1> QED BY <1>1, <1>2, <1>3
     DEF IInv, KeysComeFromActions, BaseIsGood, SnapshotsAreGood

LEMMA MissingStep ==
  ASSUME IInv, NEW f \in todo, MissingEnvironment(f)
  PROVE  IInv'
  <1>1. f \in Flag /\ Hopeless(f)
    BY DEF IInv, TypeOK, MissingEnvironment, Hopeless
  <1> QED BY <1>1, FailStep DEF MissingEnvironment

LEMMA RefuseFlagStep ==
  ASSUME IInv, NEW f \in todo, RefuseFlag(f)
  PROVE  IInv'
  <1>1. f \in Flag /\ doc[f].env # Undefined /\ RefusedFlag(f)
    BY DEF IInv, TypeOK, RefuseFlag
  <1>2. doc[f].env.base.default \in ActionsOf(doc[f].env)
    BY PartActions DEF Parts
  <1>3. Hopeless(f)
    BY <1>1, <1>2 DEF RefusedFlag, Hopeless
  <1> QED BY <1>1, <1>3, FailStep DEF RefuseFlag

LEMMA RefuseRuleStep ==
  ASSUME IInv, RefuseRule
  PROVE  IInv'
  <1>1. /\ TypeOK /\ flag \in Flag /\ flag # None /\ env # Undefined /\ snapshot \in Nat
        /\ at \in Nat \ {0} /\ FromAction(list) /\ list \in Keys
    BY DocumentAssumption DEF IInv, TypeOK, RefuseRule, AtRule, AtEvaluation, Compiling,
       KeysComeFromActions, env
  <1>2. /\ env.base \in Evaluations /\ Len(env.schedule) \in Nat
        /\ DOMAIN env.schedule = 1 .. Len(env.schedule)
        /\ \A s \in 1 .. Len(env.schedule) : env.schedule[s] \in Evaluations
    BY <1>1, EnvironmentShape DEF env
  <1>3. Evaluation(snapshot) \in Parts(env) /\ Evaluation(snapshot) \in Evaluations
    BY <1>1, <1>2 DEF Evaluation, Parts, RefuseRule, AtRule, AtEvaluation
  <1> DEFINE r == Evaluation(snapshot).rules[at]
  <1>4. r \in ActionsOf(env) /\ r \in Actions
    BY <1>1, <1>3, PartActions, EvaluationShape DEF RefuseRule, AtRule
  <1>5. r.key \in Keys /\ FromAction(r.key)
    BY <1>4 DEF Actions, FromAction
  <1>6. Hopeless(flag)
    <2>1. CASE target \in r.refusedBy
      BY <1>1, <1>4, <2>1 DEF Hopeless, env
    <2>2. CASE ~ Merges(list, r.key)
      BY <1>1, <1>5, <2>2, UnmergedIsHopeless
    <2> QED BY <2>1, <2>2 DEF RefuseRule, Accepts
  <1> QED BY <1>1, <1>6, FailStep DEF RefuseRule

LEMMA RefuseBaseStep ==
  ASSUME IInv, RefuseBase
  PROVE  IInv'
  <1>1. /\ TypeOK /\ flag \in Flag /\ flag # None /\ FromAction(list) /\ FromAction(bucket)
        /\ list \in Keys /\ bucket \in Keys
    BY DEF IInv, TypeOK, RefuseBase, AtEnd, AtEvaluation, Compiling, KeysComeFromActions
  <1>2. Hopeless(flag)
    BY <1>1, UnmergedIsHopeless DEF RefuseBase
  <1> QED BY <1>1, <1>2, FailStep DEF RefuseBase

LEMMA RefuseKeysStep ==
  ASSUME IInv, RefuseKeys
  PROVE  IInv'
  <1>1. /\ TypeOK /\ flag \in Flag /\ flag # None /\ FromAction(sched) /\ FromAction(bucket)
        /\ sched \in Keys /\ bucket \in Keys
    BY DEF IInv, TypeOK, RefuseKeys, AtLastMerge, Compiling, KeysComeFromActions
  <1>2. Hopeless(flag)
    BY <1>1, UnmergedIsHopeless DEF RefuseKeys
  <1> QED BY <1>1, <1>2, FailStep DEF RefuseKeys

LEMMA RefuseSnapshotStep ==
  ASSUME IInv, RefuseSnapshot
  PROVE  IInv'
  <1>1. /\ TypeOK /\ flag \in Flag /\ flag # None /\ env # Undefined /\ snapshot \in Nat
        /\ FromAction(list) /\ FromAction(sched) /\ list \in Keys /\ sched \in Keys
    BY DEF IInv, TypeOK, RefuseSnapshot, AtEnd, AtEvaluation, Compiling,
       KeysComeFromActions, env
  <1>2. /\ Len(env.schedule) \in Nat /\ DOMAIN env.schedule = 1 .. Len(env.schedule)
        /\ \A s \in 1 .. Len(env.schedule) : env.schedule[s] \in Evaluations
    BY <1>1, EnvironmentShape DEF env
  <1>3. Evaluation(snapshot) \in Parts(env) /\ Evaluation(snapshot) \in Evaluations
    BY <1>1, <1>2 DEF Evaluation, Parts, RefuseSnapshot, AtEnd, AtEvaluation
  <1> DEFINE d == Evaluation(snapshot).default
  <1>4. d \in ActionsOf(env) /\ d \in Actions
    BY <1>3, PartActions, EvaluationShape
  <1>5. d.key \in Keys /\ FromAction(d.key)
    BY <1>4 DEF Actions, FromAction
  <1>6. Hopeless(flag)
    <2>1. CASE ~ Merges(sched, list)
      BY <1>1, <2>1, UnmergedIsHopeless
    <2>2. CASE target \in d.refusedBy
      BY <1>1, <1>4, <2>2 DEF Hopeless, env
    <2>3. CASE Merges(sched, list) /\ ~ Merges(Merged(sched, list), d.key)
      <3>1. Merged(sched, list) \in Keys /\ FromAction(Merged(sched, list))
        BY <1>1, <2>3, MergedCovers, MergedFromAction
      <3> QED BY <1>1, <1>5, <2>3, <3>1, UnmergedIsHopeless
    <2> QED BY <2>1, <2>2, <2>3 DEF RefuseSnapshot, SnapshotMerges, Accepts
  <1> QED BY <1>1, <1>6, FailStep DEF RefuseSnapshot

-----------------------------------------------------------------------------
(* The loops                                                               *)

LEMMA SkipStep ==
  ASSUME IInv, NEW f \in todo, SkipFlag(f)
  PROVE  IInv'
  <1> USE DEF SkipFlag, Delivered, arguments, cursor, keys
  <1>1. TypeOK'
    BY DEF IInv, TypeOK
  <1>2. ~ Compiling'
    BY DEF Compiling
  <1>3. CompiledAreGood'
    BY DEF IInv, CompiledAreGood, Transportable, Good
  <1>4. EveryFlagCounted' /\ FailedForCause'
    BY DEF IInv, EveryFlagCounted, FailedForCause
  <1> QED BY <1>1, <1>2, <1>3, <1>4
     DEF IInv, KeysComeFromActions, BaseIsGood, SnapshotsAreGood

LEMMA BeginStep ==
  ASSUME IInv, NEW f \in todo, BeginFlag(f)
  PROVE  IInv'
  <1>1. /\ TypeOK /\ f \in Flag /\ doc[f].env # Undefined /\ ~ RefusedFlag(f)
        /\ flag' = f /\ snapshot' = 0 /\ at' = 1 /\ list' = NoKey /\ sched' = NoKey
        /\ bucket' = Merged(NoKey, doc[f].env.base.default.key)
        /\ UNCHANGED <<doc, target, allow, phase, todo, bucketing, warned>>
    BY DEF IInv, TypeOK, BeginFlag, arguments
  <1>2. f # None
    BY <1>1, DocumentAssumption
  <1>3. doc[f].env.base \in Evaluations
    BY <1>1, EnvironmentShape
  <1>4. /\ doc[f].env.base.default \in Actions
        /\ doc[f].env.base.default \in ActionsOf(doc[f].env)
    BY <1>3, EvaluationShape, PartActions DEF Parts
  <1>5. bucket' \in Keys
    BY <1>1, <1>4 DEF Actions, Merged, Keys
  <1>6. TypeOK'
    BY <1>1, <1>5 DEF TypeOK, Keys
  <1>7. env' = doc[f].env
    BY <1>1 DEF env
  <1>8. KeysComeFromActions'
    BY <1>1, <1>4, <1>7 DEF KeysComeFromActions, FromAction, Merged
  <1>9. BaseIsGood'
    <2>1. Transportable(flag)'
      BY <1>1 DEF Transportable, RefusedFlag
    <2>2. Good(env.base.default, bucket)'
      BY <1>1, <1>7 DEF Good, Merged, RefusedFlag
    <2>3. GoodRules(env.base, at - 1, list)'
      BY <1>1 DEF GoodRules
    <2> QED BY <1>1, <2>1, <2>2, <2>3 DEF BaseIsGood
  <1>10. SnapshotsAreGood'
    <2>1. Len(env'.schedule) \in Nat
      BY <1>1, <1>7, EnvironmentShape
    <2> QED BY <1>1, <2>1 DEF SnapshotsAreGood
  <1>11. CompiledAreGood' /\ EveryFlagCounted' /\ FailedForCause'
    BY <1>1 DEF IInv, CompiledAreGood, Transportable, Good, EveryFlagCounted,
       FailedForCause, Hopeless, BeginFlag, Delivered
  <1> QED BY <1>6, <1>8, <1>9, <1>10, <1>11 DEF IInv

(* What the loop knows of the flag it is in.                               *)
LEMMA InTheLoop ==
  ASSUME IInv, AtEvaluation
  PROVE  /\ TypeOK /\ flag \in Flag /\ flag # None /\ env \in Environments
         /\ phase = "flags" /\ snapshot \in Nat /\ at \in Nat \ {0}
         /\ bucket \in Keys /\ list \in Keys /\ sched \in Keys
         /\ env.base \in Evaluations
         /\ Len(env.schedule) \in Nat
         /\ DOMAIN env.schedule = 1 .. Len(env.schedule)
         /\ \A s \in 1 .. Len(env.schedule) : env.schedule[s] \in Evaluations
         /\ Evaluation(snapshot) \in Evaluations
         /\ Evaluation(snapshot) \in Parts(env)
         /\ snapshot > 0 => snapshot \in 1 .. Len(env.schedule)
  <1>1. /\ TypeOK /\ flag \in Flag /\ flag # None /\ env # Undefined
        /\ phase = "flags" /\ snapshot \in Nat /\ at \in Nat \ {0}
        /\ bucket \in Keys /\ list \in Keys /\ sched \in Keys
    BY DEF IInv, TypeOK, AtEvaluation, Compiling, env
  <1>2. /\ env \in Environments /\ env.base \in Evaluations
        /\ Len(env.schedule) \in Nat /\ DOMAIN env.schedule = 1 .. Len(env.schedule)
        /\ \A s \in 1 .. Len(env.schedule) : env.schedule[s] \in Evaluations
    BY <1>1, EnvironmentShape DEF env
  <1>3. snapshot > 0 => snapshot \in 1 .. Len(env.schedule)
    BY <1>1, <1>2 DEF AtEvaluation
  <1> QED BY <1>1, <1>2, <1>3 DEF Evaluation, Parts

LEMMA CompileRuleStep ==
  ASSUME IInv, CompileRule
  PROVE  IInv'
  <1> DEFINE r == Evaluation(snapshot).rules[at]
  <1>1. AtEvaluation /\ Compiling
    BY DEF CompileRule, AtRule, AtEvaluation
  <1>2. /\ at <= Len(Evaluation(snapshot).rules) /\ target \notin r.refusedBy
        /\ Merges(list, r.key) /\ list' = Merged(list, r.key) /\ at' = at + 1
        /\ UNCHANGED <<doc, target, allow, phase, todo, flag, snapshot, bucket, sched,
                      bucketing, warned>>
    BY DEF CompileRule, AtRule, Accepts, arguments
  <1>3. r \in Actions /\ r \in ActionsOf(env)
    BY <1>1, <1>2, InTheLoop, EvaluationShape, PartActions
  <1>4. r.key \in Keys /\ FromAction(r.key)
    BY <1>3 DEF Actions, FromAction
  <1>5. env' = env /\ Compiling'
    BY <1>1, <1>2 DEF env, Compiling
  <1>6. list' \in Keys /\ FromAction(list')
    BY <1>1, <1>2, <1>4, InTheLoop, MergedCovers, MergedFromAction DEF IInv, KeysComeFromActions
  <1>7. TypeOK'
    BY <1>1, <1>2, <1>6, InTheLoop DEF TypeOK
  <1>8. KeysComeFromActions'
    BY <1>1, <1>2, <1>5, <1>6 DEF IInv, KeysComeFromActions, FromAction
  <1>9. \A a : Good(a, list) => Good(a, list')
    BY <1>1, <1>2, <1>4, InTheLoop, MergedCovers
  <1>10. Good(r, list')
    BY <1>1, <1>2, <1>4, InTheLoop, MergedCovers DEF Good
  <1>11. GoodRules(Evaluation(snapshot), at - 1, list)
         => GoodRules(Evaluation(snapshot), at, list')
    <2> SUFFICES ASSUME GoodRules(Evaluation(snapshot), at - 1, list), NEW i \in 1 .. at
                 PROVE  Good(Evaluation(snapshot).rules[i], list')
      BY DEF GoodRules
    <2>1. CASE i = at
      BY <1>10, <2>1
    <2>2. CASE i # at
      <3>1. i \in 1 .. at - 1
        BY <1>1, <2>2, InTheLoop
      <3> QED BY <1>9, <3>1 DEF GoodRules
    <2> QED BY <2>1, <2>2
  <1>12. BaseIsGood'
    <2>1. Transportable(flag)' /\ Good(env.base.default, bucket)'
      BY <1>1, <1>2, <1>5 DEF IInv, BaseIsGood, Transportable, Good
    <2>2. CASE snapshot = 0
      <3>1. GoodRules(env.base, at, list')
        BY <1>1, <1>11, <2>2 DEF IInv, BaseIsGood, Evaluation
      <3>2. at' - 1 = at
        BY <1>1, <1>2, InTheLoop
      <3>3. GoodRules(env.base, at - 1, list)'
        BY <1>2, <1>5, <3>1, <3>2 DEF GoodRules, Good
      <3> QED BY <1>2, <2>1, <2>2, <3>3 DEF BaseIsGood
    <2>3. CASE snapshot # 0
      <3>1. GoodRules(env.base, Len(env.base.rules), bucket)'
        BY <1>1, <1>2, <1>5, <2>3 DEF IInv, BaseIsGood, GoodRules, Good
      <3> QED BY <1>2, <2>1, <2>3, <3>1 DEF BaseIsGood
    <2> QED BY <2>2, <2>3
  <1>13. SnapshotsAreGood'
    <2>1. ASSUME NEW s \in 1 .. Len(env.schedule), s < snapshot
          PROVE  GoodPart(env.schedule[s], sched)'
      BY <1>1, <1>2, <1>5, <2>1 DEF IInv, SnapshotsAreGood, GoodPart, GoodRules, Good
    <2>2. ASSUME snapshot \in 1 .. Len(env.schedule)
          PROVE  GoodRules(env.schedule[snapshot], at - 1, list)'
      <3>1. GoodRules(env.schedule[snapshot], at, list')
        BY <1>1, <1>11, <2>2 DEF IInv, SnapshotsAreGood, Evaluation
      <3>2. at' - 1 = at
        BY <1>1, <1>2, InTheLoop
      <3> QED BY <1>2, <1>5, <3>1, <3>2 DEF GoodRules, Good
    <2> QED BY <1>2, <1>5, <2>1, <2>2 DEF SnapshotsAreGood
  <1>14. CompiledAreGood' /\ EveryFlagCounted' /\ FailedForCause'
    BY <1>2 DEF IInv, CompiledAreGood, Transportable, Good, EveryFlagCounted,
       FailedForCause, Hopeless
  <1> QED BY <1>7, <1>8, <1>12, <1>13, <1>14 DEF IInv

LEMMA EndBaseStep ==
  ASSUME IInv, EndBase
  PROVE  IInv'
  <1>1. AtEvaluation /\ Compiling
    BY DEF EndBase, AtEnd, AtEvaluation
  <1>2. /\ at > Len(env.base.rules) /\ snapshot = 0 /\ Merges(bucket, list)
        /\ bucket' = Merged(bucket, list) /\ snapshot' = 1 /\ at' = 1 /\ list' = NoKey
        /\ UNCHANGED <<doc, target, allow, phase, todo, flag, sched, bucketing, warned>>
    BY DEF EndBase, AtEnd, NextEvaluation, Evaluation, arguments
  <1>3. env' = env /\ Compiling'
    BY <1>1, <1>2 DEF env, Compiling
  <1>4. bucket' \in Keys /\ FromAction(bucket')
    BY <1>1, <1>2, InTheLoop, MergedCovers, MergedFromAction DEF IInv, KeysComeFromActions
  <1>5. \A a : (Good(a, bucket) \/ Good(a, list)) => Good(a, bucket')
    BY <1>1, <1>2, InTheLoop, MergedCovers
  <1>6. TypeOK'
    BY <1>1, <1>2, <1>4, InTheLoop DEF TypeOK, Keys
  <1>7. KeysComeFromActions'
    BY <1>1, <1>2, <1>3, <1>4 DEF IInv, KeysComeFromActions, FromAction
  <1>8. BaseIsGood'
    <2>1. Transportable(flag)' /\ Good(env.base.default, bucket)'
      BY <1>1, <1>2, <1>3, <1>5 DEF IInv, BaseIsGood, Transportable, Good
    <2>2. GoodRules(env.base, Len(env.base.rules), bucket')
      <3>1. Len(env.base.rules) \in Nat /\ at \in Nat
        BY <1>1, InTheLoop, EvaluationShape
      <3>2. GoodRules(env.base, at - 1, list)
        BY <1>1, <1>2 DEF IInv, BaseIsGood
      <3> QED BY <1>2, <1>5, <3>1, <3>2 DEF GoodRules
    <2>3. GoodRules(env.base, Len(env.base.rules), bucket)'
      BY <1>2, <1>3, <2>2 DEF GoodRules, Good
    <2> QED BY <1>2, <2>1, <2>3 DEF BaseIsGood
  <1>9. SnapshotsAreGood'
    <2>1. Len(env'.schedule) \in Nat
      BY <1>1, <1>3, InTheLoop
    <2> QED BY <1>2, <2>1 DEF SnapshotsAreGood, GoodRules
  <1>10. CompiledAreGood' /\ EveryFlagCounted' /\ FailedForCause'
    BY <1>2 DEF IInv, CompiledAreGood, Transportable, Good, EveryFlagCounted,
       FailedForCause, Hopeless
  <1> QED BY <1>6, <1>7, <1>8, <1>9, <1>10 DEF IInv

LEMMA EndSnapshotStep ==
  ASSUME IInv, EndSnapshot
  PROVE  IInv'
  <1> DEFINE p == Evaluation(snapshot)
             m == Merged(sched, list)
  <1>1. AtEvaluation /\ Compiling
    BY DEF EndSnapshot, AtEnd, AtEvaluation
  <1>2. /\ at > Len(p.rules) /\ snapshot > 0 /\ Merges(sched, list)
        /\ target \notin p.default.refusedBy /\ Merges(m, p.default.key)
        /\ sched' = Merged(m, p.default.key) /\ snapshot' = snapshot + 1
        /\ at' = 1 /\ list' = NoKey
        /\ UNCHANGED <<doc, target, allow, phase, todo, flag, bucket, bucketing, warned>>
    BY DEF EndSnapshot, AtEnd, NextEvaluation, SnapshotMerges, Accepts, arguments
  <1>3. env' = env /\ Compiling'
    BY <1>1, <1>2 DEF env, Compiling
  <1>4. p.default \in Actions /\ p.default \in ActionsOf(env) /\ Len(p.rules) \in Nat
    BY <1>1, InTheLoop, EvaluationShape, PartActions
  <1>5. p.default.key \in Keys /\ FromAction(p.default.key)
    BY <1>4 DEF Actions, FromAction
  <1>6. m \in Keys /\ FromAction(m) /\ \A a : (Good(a, sched) \/ Good(a, list)) => Good(a, m)
    BY <1>1, <1>2, InTheLoop, MergedCovers, MergedFromAction DEF IInv, KeysComeFromActions
  <1> HIDE DEF m
  <1>7. sched' \in Keys /\ FromAction(sched')
    BY <1>1, <1>2, <1>5, <1>6, InTheLoop, MergedCovers, MergedFromAction
  <1>8. \A a : (Good(a, m) \/ Good(a, p.default.key)) => Good(a, sched')
    BY <1>1, <1>2, <1>5, <1>6, InTheLoop, MergedCovers
  <1>9. TypeOK'
    BY <1>1, <1>2, <1>7, InTheLoop DEF TypeOK, Keys
  <1>10. KeysComeFromActions'
    BY <1>1, <1>2, <1>3, <1>7 DEF IInv, KeysComeFromActions, FromAction
  <1>11. BaseIsGood'
    <2>1. snapshot # 0 /\ snapshot' # 0
      BY <1>1, <1>2, InTheLoop
    <2> QED BY <1>1, <1>2, <1>3, <2>1
         DEF IInv, BaseIsGood, Transportable, GoodRules, Good
  <1>12. GoodPart(p, sched')
    <2>1. Good(p.default, sched')
      BY <1>2, <1>8 DEF Good
    <2>2. GoodRules(p, at - 1, list)
      BY <1>1, <1>2, InTheLoop DEF IInv, SnapshotsAreGood, Evaluation
    <2>3. at \in Nat
      BY <1>1, InTheLoop
    <2>4. GoodRules(p, Len(p.rules), sched')
      BY <1>2, <1>4, <1>6, <1>8, <2>2, <2>3 DEF GoodRules
    <2> QED BY <2>1, <2>4 DEF GoodPart
  <1>13. SnapshotsAreGood'
    <2>1. ASSUME NEW s \in 1 .. Len(env.schedule), s < snapshot'
          PROVE  GoodPart(env.schedule[s], sched')
      <3>1. CASE s = snapshot
        BY <1>1, <1>2, <1>12, <3>1, InTheLoop DEF Evaluation
      <3>2. CASE s # snapshot
        <4>1. s < snapshot
          BY <1>1, <1>2, <2>1, <3>2, InTheLoop
        <4>2. GoodPart(env.schedule[s], sched)
          BY <1>1, <4>1 DEF IInv, SnapshotsAreGood
        <4> QED BY <1>6, <1>8, <4>2 DEF GoodPart, GoodRules
      <3> QED BY <3>1, <3>2
    <2>2. ASSUME NEW s \in 1 .. Len(env.schedule), s < snapshot'
          PROVE  GoodPart(env.schedule[s], sched)'
      <3>1. GoodPart(env.schedule[s], sched')
        BY <2>1, <2>2
      <3> QED BY <1>2, <1>3, <3>1 DEF GoodPart, GoodRules, Good
    <2>3. GoodRules(env.schedule[snapshot], at - 1, list)'
      BY <1>2 DEF GoodRules
    <2> QED BY <1>3, <2>2, <2>3 DEF SnapshotsAreGood
  <1>14. CompiledAreGood' /\ EveryFlagCounted' /\ FailedForCause'
    BY <1>2 DEF IInv, CompiledAreGood, Transportable, Good, EveryFlagCounted,
       FailedForCause, Hopeless
  <1> QED BY <1>9, <1>10, <1>11, <1>13, <1>14 DEF IInv

LEMMA EndFlagStep ==
  ASSUME IInv, EndFlag
  PROVE  IInv'
  <1> DEFINE k == Merged(bucket, sched)
  <1>1. /\ TypeOK /\ Compiling /\ phase = "flags" /\ flag \in Flag /\ flag \in todo
        /\ flag # None /\ env # Undefined /\ snapshot \in Nat
        /\ bucket \in Keys /\ sched \in Keys /\ FromAction(bucket) /\ FromAction(sched)
    BY DEF IInv, TypeOK, EndFlag, AtLastMerge, Compiling, KeysComeFromActions, env
  <1>2. /\ snapshot > Len(env.schedule) /\ Merges(bucket, sched)
        /\ bucketing' = [f \in DOMAIN bucketing \cup {flag} |->
                           IF f = flag THEN k ELSE bucketing[f]]
        /\ todo' = todo \ {flag} /\ flag' = None
        /\ UNCHANGED <<doc, target, allow, phase, snapshot, at, bucket, list, sched, warned>>
    BY DEF EndFlag, AtLastMerge, arguments, keys
  <1>3. /\ env.base \in Evaluations /\ Len(env.schedule) \in Nat
        /\ DOMAIN env.schedule = 1 .. Len(env.schedule)
        /\ \A s \in 1 .. Len(env.schedule) : env.schedule[s] \in Evaluations
    BY <1>1, EnvironmentShape DEF env
  <1>4. k \in Keys /\ FromAction(k)
    BY <1>1, <1>2, MergedCovers, MergedFromAction
  <1>5. \A a : (Good(a, bucket) \/ Good(a, sched)) => Good(a, k)
    BY <1>1, <1>2, MergedCovers
  <1> HIDE DEF k
  <1>6. TypeOK'
    BY <1>1, <1>2, <1>4 DEF TypeOK, env
  <1>7. ~ Compiling'
    BY <1>2 DEF Compiling
  <1>8. GoodPart(env.base, k)
    <2>1. snapshot # 0
      BY <1>1, <1>2, <1>3
    <2>2. Good(env.base.default, bucket) /\ GoodRules(env.base, Len(env.base.rules), bucket)
      BY <1>1, <2>1 DEF IInv, BaseIsGood
    <2> QED BY <1>5, <2>2 DEF GoodPart, GoodRules
  <1>9. ASSUME NEW s \in 1 .. Len(env.schedule)
        PROVE  GoodPart(env.schedule[s], k)
    <2>1. GoodPart(env.schedule[s], sched)
      BY <1>1, <1>2, <1>3 DEF IInv, SnapshotsAreGood
    <2> QED BY <1>5, <2>1 DEF GoodPart, GoodRules
  <1>10. \A a \in ActionsOf(env) : Good(a, k)
    <2> SUFFICES ASSUME NEW p \in Parts(env),
                        NEW a \in {p.default} \cup {p.rules[i] : i \in DOMAIN p.rules}
                 PROVE  Good(a, k)
      BY DEF ActionsOf
    <2>1. GoodPart(p, k) /\ p \in Evaluations
      BY <1>3, <1>8, <1>9 DEF Parts
    <2> QED BY <2>1, EvaluationShape DEF GoodPart, GoodRules
  <1>11. target = "gofeatureflag" => \E a \in ActionsOf(env) : a.key = k
    <2>1. env.base.default \in ActionsOf(env)
      BY PartActions DEF Parts
    <2>2. CASE k = NoKey
      BY <1>10, <2>1, <2>2 DEF Good
    <2>3. CASE k # NoKey
      BY <1>4, <2>3 DEF FromAction
    <2> QED BY <2>2, <2>3
  <1>12. CompiledAreGood'
    <2> SUFFICES ASSUME NEW f \in DOMAIN bucketing'
                 PROVE  /\ Transportable(f)
                        /\ \A a \in ActionsOf(doc[f].env) : Good(a, bucketing'[f])
                        /\ target = "gofeatureflag" =>
                             \E a \in ActionsOf(doc[f].env) : a.key = bucketing'[f]
      BY <1>2 DEF CompiledAreGood, Transportable, Good
    <2>1. CASE f = flag
      <3>1. bucketing'[f] = k /\ doc[f].env = env /\ Transportable(f)
        BY <1>1, <1>2, <2>1 DEF IInv, BaseIsGood, env
      <3> QED BY <1>10, <1>11, <3>1
    <2>2. CASE f # flag
      <3>1. f \in DOMAIN bucketing /\ bucketing'[f] = bucketing[f]
        BY <1>2, <2>2
      <3> QED BY <3>1 DEF IInv, CompiledAreGood
    <2> QED BY <2>1, <2>2
  <1>13. EveryFlagCounted' /\ FailedForCause'
    <2>1. DOMAIN bucketing' = DOMAIN bucketing \cup {flag}
      BY <1>2
    <2> QED BY <1>1, <1>2, <2>1 DEF IInv, EveryFlagCounted, FailedForCause, Hopeless
  <1> QED BY <1>6, <1>7, <1>12, <1>13
     DEF IInv, KeysComeFromActions, BaseIsGood, SnapshotsAreGood

LEMMA FinishStep ==
  ASSUME IInv, Finish
  PROVE  IInv'
  <1> USE DEF Finish, arguments, cursor, keys
  <1>1. TypeOK'
    BY DEF IInv, TypeOK
  <1>2. ~ Compiling'
    BY DEF Compiling
  <1>3. CompiledAreGood' /\ EveryFlagCounted' /\ FailedForCause'
    BY DEF IInv, CompiledAreGood, Transportable, Good, EveryFlagCounted, FailedForCause
  <1> QED BY <1>1, <1>2, <1>3
     DEF IInv, KeysComeFromActions, BaseIsGood, SnapshotsAreGood

LEMMA StutterStep ==
  ASSUME IInv, UNCHANGED vars
  PROVE  IInv'
  BY DEF IInv, vars, arguments, cursor, keys, TypeOK, KeysComeFromActions, BaseIsGood,
     SnapshotsAreGood, CompiledAreGood, EveryFlagCounted, FailedForCause, Compiling,
     FromAction, Transportable, Good, GoodRules, GoodPart, env, Hopeless

-----------------------------------------------------------------------------
(* Theorems                                                                *)

(* The strengthened invariant holds in every reachable state.              *)
THEOREM Invariance == Spec => []IInv
  <1>1. IInv /\ [Next]_vars => IInv'
    <2> SUFFICES ASSUME IInv, [Next]_vars PROVE IInv'
      OBVIOUS
    <2>1. ASSUME NEW f \in todo, SkipFlag(f) PROVE IInv'
      BY <2>1, SkipStep
    <2>2. ASSUME NEW f \in todo, MissingEnvironment(f) PROVE IInv'
      BY <2>2, MissingStep
    <2>3. ASSUME NEW f \in todo, BeginFlag(f) PROVE IInv'
      BY <2>3, BeginStep
    <2>4. ASSUME NEW f \in todo, RefuseFlag(f) PROVE IInv'
      BY <2>4, RefuseFlagStep
    <2>5. CASE BodyStep
      BY <2>5, CompileRuleStep, RefuseRuleStep, EndBaseStep, RefuseBaseStep,
         EndSnapshotStep, RefuseSnapshotStep, EndFlagStep, RefuseKeysStep DEF BodyStep
    <2> QED BY <2>1, <2>2, <2>3, <2>4, <2>5, FinishStep, StutterStep DEF Next, RangeStep
  <1> QED BY <1>1, InitInvariant, PTL DEF Spec

(* The loops over flags, rules and snapshots keep their types.             *)
THEOREM DocumentTypeCorrect == Spec => []TypeOK
  <1>1. IInv => TypeOK
    BY DEF IInv
  <1> QED BY <1>1, Invariance, PTL

(* GO Feature Flag: every flag compiled names one bucketing key and each   *)
(* of its distributions asks for it, however many rules and snapshots.     *)
THEOREM BucketsByOneKey == Spec => []OneBucketingKey
  <1>1. IInv => OneBucketingKey
    BY DEF IInv, CompiledAreGood, OneBucketingKey, Good
  <1> QED BY <1>1, Invariance, PTL

(* Compilation fails exactly on the documents that have a flag the target  *)
(* cannot take; the order of the range over doc.Flags plays no part.       *)
THEOREM VerdictIsDetermined == Spec => []VerdictIsTheDocuments
  <1>1. IInv => VerdictIsTheDocuments
    <2> SUFFICES ASSUME IInv, phase = "compiled", NEW f \in Flag, Hopeless(f)
                 PROVE  FALSE
      BY DEF IInv, FailedForCause, VerdictIsTheDocuments
    <2>1. f \in DOMAIN bucketing \/ f \in warned
      BY DEF IInv, EveryFlagCounted
    <2>2. CASE f \in warned
      BY <2>2 DEF IInv, EveryFlagCounted, Hopeless
    <2>3. CASE f \in DOMAIN bucketing
      <3>1. /\ doc[f].env # Undefined /\ Transportable(f)
            /\ \A a \in ActionsOf(doc[f].env) : Good(a, bucketing[f])
        BY <2>3 DEF IInv, TypeOK, CompiledAreGood
      <3>2. target = "gofeatureflag" => ~ Conflict(doc[f].env)
        BY <3>1 DEF Conflict, Good
      <3> QED BY <3>1, <3>2 DEF Hopeless, Good, Transportable
    <2> QED BY <2>1, <2>2, <2>3
  <1> QED BY <1>1, Invariance, PTL

(* The output and the warnings share out the flags between them.           *)
THEOREM OutputAccountsForFlags == Spec => []OutputIsComplete
  <1>1. IInv => OutputIsComplete
    BY DEF IInv, TypeOK, EveryFlagCounted, OutputIsComplete
  <1> QED BY <1>1, Invariance, PTL
=============================================================================
