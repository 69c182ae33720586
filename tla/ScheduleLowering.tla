--------------------------- MODULE ScheduleLowering ---------------------------
(***************************************************************************)
(* How environment() of internal/ir/normalize.go lowers one environment    *)
(* to a base evaluation and a schedule of full snapshots: the stages of a  *)
(* progressive rollout are appended first, then the enabled steps of       *)
(* scheduled_rollouts; the result is sorted by date and pruned of          *)
(* snapshots that change nothing, and ir.Validate has the last word.       *)
(*                                                                         *)
(* sort.Slice is not stable.  The loop that prunes the sorted schedule is  *)
(* modelled as taking, each time, one of the earliest entries left.        *)
(***************************************************************************)
EXTENDS Rollout, Sequences, FiniteSets

CONSTANTS
  Off,           \* the flag's default_variant
  Environments,  \* the authored environments
  Evaluations,   \* evaluations: records [rules, action]
  NoRollout,     \* stands for a default_action that is not a rollout
  Limit          \* snapshots an IR schedule may hold: 1024 in the code

(* validateAction on a distribution of a stage or of a step.               *)
ValidAction(a) ==
  Cardinality(DOMAIN a) > 1 => Divisor(a) = 1 /\ \A v \in DOMAIN a : a[v] > 0

(* action() has divided the weights of an evaluation by their divisor.     *)
WellFormedEvaluation(e) == DOMAIN e = {"rules", "action"} /\ ValidAction(e.action)

(* What authoring validation has established: validateProgressiveRollout   *)
(* and validateScheduledRollouts.                                          *)
WellFormed(e) ==
  /\ e.base \in Evaluations
  /\ e.rollout # NoRollout =>
       /\ e.rollout.start \in Nat /\ e.rollout.end \in Nat
       /\ e.rollout.start < e.rollout.end
       /\ e.rollout.stages \in Nat \ {0}
  /\ e.steps \in Seq([at : Nat, evaluation : Evaluations, disabled : BOOLEAN])
  /\ \A i \in 2 .. Len(e.steps) : e.steps[i - 1].at < e.steps[i].at

ASSUME LoweringAssumption ==
  /\ Limit \in Nat \ {0}
  /\ \A e \in Evaluations : WellFormedEvaluation(e)
  /\ \A e \in Environments : WellFormed(e)

VARIABLES
  env,       \* the environment being lowered
  phase,     \* "begin", "stages", "steps", "prune", "validate" or an outcome
  at,        \* the stage or the step the loop is at
  schedule,  \* out.Schedule while it is appended to
  pending,   \* indexes of schedule the pruning loop has not taken yet
  kept,      \* "ordered" in the code
  failure    \* why it failed, or "none"

vars == <<env, phase, at, schedule, pending, kept, failure>>

HasStages == env.rollout # NoRollout /\ env.rollout.target # Off

(* With a rollout, the environment starts by serving the default variant.  *)
Base == IF env.rollout = NoRollout THEN env.base
        ELSE [env.base EXCEPT !.action = Serve(Off)]

Snapshot(t, e) == [at |-> t, evaluation |-> e]
Last(s) == s[Len(s)]

Init ==
  /\ env \in Environments
  /\ phase = "begin"
  /\ at = 1
  /\ schedule = <<>>
  /\ pending = {}
  /\ kept = <<>>
  /\ failure = "none"

Fail(why) ==
  /\ phase' = "failed"
  /\ failure' = why
  /\ UNCHANGED <<env, at, schedule, pending, kept>>

GoTo(p) == phase' = p /\ UNCHANGED <<env, failure>>

TooManyStages ==
  /\ phase = "begin"
  /\ env.rollout # NoRollout
  /\ env.rollout.stages > Limit
  /\ Fail("stages")

(* No rollout, or one whose target already is the default variant.         *)
NoStages ==
  /\ phase = "begin"
  /\ ~ HasStages
  /\ env.rollout # NoRollout => env.rollout.stages <= Limit
  /\ GoTo("steps")
  /\ UNCHANGED <<at, schedule, pending, kept>>

BeginStages ==
  /\ phase = "begin"
  /\ HasStages
  /\ env.rollout.stages <= Limit
  /\ GoTo("stages")
  /\ UNCHANGED <<at, schedule, pending, kept>>

(* Mutant of StageActions: the last stage is rounded like the others.      *)
RoundedStageActions(r, k) ==
  {canonicalWeights(w) : w \in StageWeights(Off, r.target, k, r.stages)}

StageActions(r, k) ==
  IF k = r.stages THEN {Serve(r.target)}
  ELSE {canonicalWeights(w) : w \in StageWeights(Off, r.target, k, r.stages)}

AppendStage ==
  /\ phase = "stages"
  /\ at <= env.rollout.stages
  /\ LET r == env.rollout
     IN \E a \in StageActions(r, at) :
          schedule' = Append(schedule,
                             Snapshot(StageInstant(r.start, r.end, at, r.stages),
                                      [Base EXCEPT !.action = a]))
  /\ at' = at + 1
  /\ UNCHANGED <<env, phase, pending, kept, failure>>

(* Mutant of EndStages: steps are counted from zero.                       *)
EndStagesAtZero ==
  /\ phase = "stages"
  /\ at > env.rollout.stages
  /\ at' = 0
  /\ GoTo("steps")
  /\ UNCHANGED <<schedule, pending, kept>>

EndStages ==
  /\ phase = "stages"
  /\ at > env.rollout.stages
  /\ at' = 1
  /\ GoTo("steps")
  /\ UNCHANGED <<schedule, pending, kept>>

AtStep(disabled) ==
  /\ phase = "steps"
  /\ at <= Len(env.steps)
  /\ env.steps[at].disabled = disabled

SkipDisabled ==
  /\ AtStep(TRUE)
  /\ at' = at + 1
  /\ UNCHANGED <<env, phase, schedule, pending, kept, failure>>

(* Mutant of SameInstant: takes an older date for the same one.            *)
NotNewer(s, t) == s # <<>> /\ t <= Last(s).at

SameInstant(s, t) == s # <<>> /\ Last(s).at = t
SameEvaluation(s, e) == s # <<>> /\ Last(s).evaluation = e

(* The step's date and evaluation are compared with the snapshot appended  *)
(* last, which may be the last stage of the rollout.                       *)
RejectDuplicate ==
  /\ AtStep(FALSE)
  /\ SameInstant(schedule, env.steps[at].at)
  /\ Fail("duplicate")

AppendStep ==
  /\ AtStep(FALSE)
  /\ ~ SameInstant(schedule, env.steps[at].at)
  /\ schedule' = IF SameEvaluation(schedule, env.steps[at].evaluation) THEN schedule
                 ELSE Append(schedule, Snapshot(env.steps[at].at, env.steps[at].evaluation))
  /\ at' = at + 1
  /\ UNCHANGED <<env, phase, pending, kept, failure>>

EndSteps ==
  /\ phase = "steps"
  /\ at > Len(env.steps)
  /\ pending' = DOMAIN schedule
  /\ GoTo("prune")
  /\ UNCHANGED <<at, schedule, kept>>

(* Mutant of Takes: the schedule is not sorted.                            *)
TakesAny(i) == phase = "prune" /\ i \in pending

(* i is next in the sorted schedule; entries of one date come in any order.*)
Takes(i) ==
  /\ phase = "prune"
  /\ i \in pending
  /\ \A j \in pending : schedule[i].at <= schedule[j].at

(* Mutant of ChangesNothing: a return to the base counts as no change.     *)
IsBaseOrSame(i) ==
  \/ schedule[i].evaluation = Base
  \/ kept # <<>> /\ schedule[i].evaluation = Last(kept).evaluation

ChangesNothing(i) ==
  IF kept = <<>> THEN schedule[i].evaluation = Base
  ELSE schedule[i].evaluation = Last(kept).evaluation

RejectTie(i) ==
  /\ Takes(i)
  /\ SameInstant(kept, schedule[i].at)
  /\ Fail("tie")

Drop(i) ==
  /\ Takes(i)
  /\ ~ SameInstant(kept, schedule[i].at)
  /\ ChangesNothing(i)
  /\ pending' = pending \ {i}
  /\ UNCHANGED <<env, phase, at, schedule, kept, failure>>

Keep(i) ==
  /\ Takes(i)
  /\ ~ SameInstant(kept, schedule[i].at)
  /\ ~ ChangesNothing(i)
  /\ pending' = pending \ {i}
  /\ kept' = Append(kept, schedule[i])
  /\ UNCHANGED <<env, phase, at, schedule, failure>>

EndPrune ==
  /\ phase = "prune"
  /\ pending = {}
  /\ GoTo("validate")
  /\ UNCHANGED <<at, schedule, pending, kept>>

(* validateEnvironment, and the size protovalidate allows.                 *)
ValidSchedule ==
  /\ \A i \in 2 .. Len(kept) : kept[i - 1].at < kept[i].at
  /\ \A i \in DOMAIN kept : ValidAction(kept[i].evaluation.action)

Accept ==
  /\ phase = "validate"
  /\ Len(kept) <= Limit
  /\ ValidSchedule
  /\ GoTo("lowered")
  /\ UNCHANGED <<at, schedule, pending, kept>>

Reject ==
  /\ phase = "validate"
  /\ Len(kept) > Limit \/ ~ ValidSchedule
  /\ Fail(IF ValidSchedule THEN "limit" ELSE "invalid")

LowerRollout == TooManyStages \/ NoStages \/ BeginStages \/ AppendStage \/ EndStages
LowerSteps == SkipDisabled \/ RejectDuplicate \/ AppendStep \/ EndSteps
Prune == EndPrune \/ \E i \in pending : RejectTie(i) \/ Drop(i) \/ Keep(i)
Check == Accept \/ Reject

Next == LowerRollout \/ LowerSteps \/ Prune \/ Check

Spec == Init /\ [][Next]_vars

-----------------------------------------------------------------------------
(* Properties                                                              *)

TypeOK ==
  /\ env \in Environments
  /\ phase \in {"begin", "stages", "steps", "prune", "validate", "lowered", "failed"}
  /\ at \in Nat \ {0}
  /\ \A i \in DOMAIN schedule : schedule[i].at \in Nat
  /\ pending \subseteq DOMAIN schedule
  /\ \A i \in DOMAIN kept : \E j \in DOMAIN schedule : kept[i] = schedule[j]
  /\ failure \in {"none", "stages", "duplicate", "tie", "limit", "invalid"}

Stages == IF HasStages THEN {schedule[i] : i \in {j \in DOMAIN schedule : j <= env.rollout.stages}}
          ELSE {}
Enabled == {s \in {env.steps[i] : i \in DOMAIN env.steps} : ~ s.disabled}
Source == Stages \cup {Snapshot(s.at, s.evaluation) : s \in Enabled}
Lowered == {kept[i] : i \in DOMAIN kept}

(* Where the evaluation in force can change.                               *)
Instants == {0} \cup {s.at : s \in Source} \cup {s.at : s \in Lowered}

(* The snapshots kept are strictly ordered by date and each changes what   *)
(* is in force, the first one included, at every point of the pruning.     *)
KeptIsCanonical ==
  /\ \A i \in 2 .. Len(kept) : /\ kept[i - 1].at < kept[i].at
                               /\ kept[i - 1].evaluation # kept[i].evaluation
  /\ kept # <<>> => kept[1].evaluation # Base

(* No enabled step is dated before the end of the rollout, and no two      *)
(* snapshots are for one instant.                                          *)
Later == HasStages => \A s \in Enabled : s.at > env.rollout.end
Apart == Later /\ \A s, o \in Source : s.at = o.at => s = o

(* Lowering keeps the meaning: what is in force at any instant is what the *)
(* newest stage or enabled step says.  It holds when the source is apart:  *)
(* a stage that repeats the one before it hides a clash of their dates.    *)
LoweringPreservesMeaning ==
  phase = "lowered" /\ Apart
  => \A t \in Instants : InForce(Base, Lowered, t) = InForce(Base, Source, t)

(* A rollout completes: from its end on the target variant is served to    *)
(* all, whatever steps are scheduled before, between and after its stages, *)
(* as long as no step takes effect at that very instant.                   *)
RolloutCompletes ==
  (phase = "lowered" /\ HasStages /\ \A s \in Enabled : s.at # env.rollout.end)
  => InForce(Base, Lowered, env.rollout.end).action = Serve(env.rollout.target)

(* A failure has its cause in the source: too many snapshots, or two of    *)
(* them for one instant.  So a plain environment fails at the limit only,  *)
(* repeated snapshots never add up to it, and ir.Validate never rejects    *)
(* what the pruning produced.                                              *)
FailureHasCause ==
  /\ failure \in {"duplicate", "tie"} =>
       \/ \E s \in Stages : \E o \in Enabled : s.at = o.at
       \/ \E i, j \in 1 .. Len(schedule) :
            i < j /\ schedule[i].at = schedule[j].at /\ j <= env.rollout.stages
  /\ failure = "limit" => Cardinality(Source) > Limit
  /\ failure # "invalid"

Share(a, v) == IF v \in DOMAIN a THEN a[v] ELSE 0
Whole(a) == IF DOMAIN a = {Off} THEN a[Off]
            ELSE LET o == env.rollout.target IN Share(a, Off) + a[o]

(* A rollout only ever grows: the share of the target variant in a stage   *)
(* is at least its share in the stage before, and the dates do not go back.*)
RolloutNeverShrinks ==
  phase = "stages" => \A i \in 2 .. Len(schedule) :
    LET target == env.rollout.target
        a == schedule[i - 1].evaluation.action
        b == schedule[i].evaluation.action
    IN /\ schedule[i - 1].at <= schedule[i].at
       /\ a[target] * Whole(b) <= b[target] * Whole(a)

(* docs/authoring-format.md: "the newest eligible step is used".  Stated   *)
(* where no stage of a rollout is newer than the step.                     *)
NewestStepUsed ==
  phase = "lowered" =>
    \A s \in Enabled :
      (/\ HasStages => env.rollout.end < s.at
       /\ \A o \in Enabled : o.at <= s.at)
      => InForce(Base, Lowered, s.at) = s.evaluation
=============================================================================
