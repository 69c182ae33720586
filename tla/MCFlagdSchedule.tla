---------------------------- MODULE MCFlagdSchedule ----------------------------
(* FlagdSchedule on environments whose steps follow the rollout: more of   *)
(* them with dates of whole seconds, fewer with dates of any instant.      *)
EXTENDS FlagdSchedule

CONSTANTS On, Plain, Seconds, MaxSteps, MaxFineSteps, MaxFine, StageCounts

FlagdEvaluations == [rules : {Plain}, action : {Serve(Off), Serve(On)}]
OffBase == [rules |-> Plain, action |-> Serve(Off)]

StepLists(dates, most) ==
  {s \in UNION {[1 .. n -> [at : dates, evaluation : FlagdEvaluations,
                            disabled : BOOLEAN]] : n \in 0 .. most} :
     \A i \in 2 .. Len(s) : s[i - 1].at < s[i].at}

Rollouts(dates) ==
  {r \in [target : {On}, start : dates, end : dates, stages : StageCounts] :
     /\ r.start < r.end
     /\ \A k \in 1 .. r.stages : StageInstant(r.start, r.end, k, r.stages) \in dates}

EnvironmentsOn(dates, most) ==
  {e \in [base : {OffBase}, rollout : {NoRollout} \cup Rollouts(dates),
          steps : StepLists(dates, most)] :
     e.rollout = NoRollout \/ \A i \in DOMAIN e.steps : e.rollout.end < e.steps[i].at}

WholeSeconds == EnvironmentsOn({s * TicksPerSecond : s \in Seconds}, MaxSteps)
AnyInstant == EnvironmentsOn(0 .. MaxFine, MaxFineSteps)
AnyEnvironment == WholeSeconds \cup AnyInstant
=============================================================================
