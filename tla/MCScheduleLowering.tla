-------------------------- MODULE MCScheduleLowering --------------------------
(* Environments with up to three scheduled steps, on and around the stages *)
(* of every short rollout.                                                 *)
EXTENDS ScheduleLowering

CONSTANTS
  On, Plain, Ruled,   \* the other variant, and two lists of rules
  MaxInstant,         \* bound: dates are 0 .. MaxInstant
  MaxSteps,           \* bound: scheduled steps
  StageCounts,        \* the numbers of stages a rollout may have
  LongEnds,           \* the ends of rollouts with more stages
  LongStageCounts     \* the numbers of their stages

MaxOf(S) == CHOOSE n \in S : \A m \in S : m <= n

Half == [v \in {Off, On} |-> 1]
MCEvaluations ==
  [rules : {Plain}, action : {Serve(Off), Serve(On), Half}]
    \cup {[rules |-> Ruled, action |-> Serve(Off)]}

MCRollouts == {r \in [target : {Off, On}, start : 0 .. MaxInstant, end : 0 .. MaxInstant,
                      stages : StageCounts] : r.start < r.end}

MCSteps == {s \in UNION {[1 .. n -> [at : 0 .. MaxInstant, evaluation : MCEvaluations,
                                     disabled : BOOLEAN]] : n \in 0 .. MaxSteps} :
              \A i \in 2 .. Len(s) : s[i - 1].at < s[i].at}

MCEnvironments == [base : MCEvaluations, rollout : {NoRollout}, steps : MCSteps]
  \cup [base : {[rules |-> Plain, action |-> Serve(Off)]}, rollout : MCRollouts, steps : MCSteps]

(* More stages, over an interval that has room for them and one that has  *)
(* not, alone and with steps after the end that fill the schedule.         *)
LastDate == MaxOf(LongEnds)
StepAfter(i, v) ==
  [at |-> LastDate + i, evaluation |-> [rules |-> Plain, action |-> Serve(v)],
   disabled |-> FALSE]
LongRollouts ==
  [base : {[rules |-> Plain, action |-> Serve(Off)]},
   rollout : [target : {On}, start : {0}, end : LongEnds, stages : LongStageCounts],
   steps : {<<>>, <<StepAfter(1, On), StepAfter(2, Off)>>,
            <<StepAfter(1, Off), StepAfter(2, On)>>}]

AllEnvironments == MCEnvironments \cup LongRollouts
=============================================================================
