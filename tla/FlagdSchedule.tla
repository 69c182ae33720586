----------------------------- MODULE FlagdSchedule -----------------------------
(***************************************************************************)
(* A lowered environment on flagd.  compileIREnvironment wraps the base in *)
(* one "if" per snapshot, so the newest is outermost; its condition        *)
(* compares $flagd.timestamp, whole seconds, with the snapshot's date cut  *)
(* to whole seconds.  The clock then runs and flagd evaluates the nested   *)
(* "if"s at each instant.                                                  *)
(***************************************************************************)
EXTENDS ScheduleLowering

CONSTANTS
  TicksPerSecond,  \* instants in a second: 10^9 in the code
  MaxNow           \* bound: the clock stops here

ASSUME ClockAssumption == TicksPerSecond \in Nat \ {0} /\ MaxNow \in Nat

VARIABLES
  guards,  \* the nested "if"s, outermost first; the base is innermost
  live,    \* the compiled file is what flagd serves
  now

flagdVars == <<vars, guards, live, now>>

FlagdInit == Init /\ guards = <<>> /\ live = FALSE /\ now = 0

Unix(t) == t \div TicksPerSecond

Lower == Next /\ UNCHANGED <<guards, live, now>>

(* Mutant of Wrap: reads the schedule as it was before it was pruned.      *)
WrapUnpruned ==
  /\ phase = "lowered" /\ ~ live
  /\ Len(guards) < Len(kept)
  /\ LET s == schedule[Len(guards) + 1]
     IN guards' = <<[from |-> Unix(s.at), evaluation |-> s.evaluation]>> \o guards
  /\ UNCHANGED <<vars, live, now>>

(* Mutant of Wrap: the oldest snapshot is outermost.                       *)
WrapInside ==
  /\ phase = "lowered" /\ ~ live
  /\ Len(guards) < Len(kept)
  /\ LET s == kept[Len(guards) + 1]
     IN guards' = Append(guards, [from |-> Unix(s.at), evaluation |-> s.evaluation])
  /\ UNCHANGED <<vars, live, now>>

(* Mutant of Wrap: the date is rounded up.                                 *)
WrapRoundedUp ==
  /\ phase = "lowered" /\ ~ live
  /\ Len(guards) < Len(kept)
  /\ LET s == kept[Len(guards) + 1]
     IN guards' = <<[from |-> Unix(s.at) + 1, evaluation |-> s.evaluation]>> \o guards
  /\ UNCHANGED <<vars, live, now>>

(* One turn of the loop over env.Schedule.                                 *)
Wrap ==
  /\ phase = "lowered" /\ ~ live
  /\ Len(guards) < Len(kept)
  /\ LET s == kept[Len(guards) + 1]
     IN guards' = <<[from |-> Unix(s.at), evaluation |-> s.evaluation]>> \o guards
  /\ UNCHANGED <<vars, live, now>>

Deploy ==
  /\ phase = "lowered" /\ ~ live
  /\ Len(guards) = Len(kept)
  /\ live' = TRUE
  /\ UNCHANGED <<vars, guards, now>>

Tick == live /\ now < MaxNow /\ now' = now + 1 /\ UNCHANGED <<vars, guards, live>>

FlagdNext == Lower \/ Wrap \/ Deploy \/ Tick

(* The compiler runs to its end, and time goes by.                         *)
FlagdSpec == FlagdInit /\ [][FlagdNext]_flagdVars /\ WF_flagdVars(FlagdNext)

(* JSON logic: the first "if" whose condition holds, else the base.        *)
Holds(g) == g.from <= Unix(now)
Served ==
  IF \E i \in DOMAIN guards : Holds(guards[i])
  THEN guards[CHOOSE i \in DOMAIN guards :
                Holds(guards[i]) /\ \A j \in 1 .. i - 1 : ~ Holds(guards[j])].evaluation
  ELSE Base

-----------------------------------------------------------------------------
(* Properties                                                              *)

FlagdTypeOK ==
  /\ TypeOK
  /\ live \in BOOLEAN
  /\ now \in 0 .. MaxNow
  /\ guards \in Seq([from : Nat, evaluation : {s.evaluation : s \in Lowered}])

(* What flagd reads is whole seconds, and the dates it compares are cut to *)
(* whole seconds: it is an instant ahead, the last of the current second.  *)
FlagdClock == Unix(now) * TicksPerSecond + TicksPerSecond - 1

(* With scheduled steps after the rollout's end and its stages apart, the  *)
(* authored environment, lowered, compiled and evaluated by flagd, is on   *)
(* flagd's clock what the documentation promises of the source, at every   *)
(* instant.                                                                *)
Promise == INSTANCE SnapshotSemantics WITH
  published <- IF live THEN {[base |-> Base, snapshots |-> Source]} ELSE {},
  served <- IF live THEN {Served} ELSE {},
  now <- FlagdClock
MeetsPromise == Promise!Spec

(* With dates of any precision flagd is early, and by less than a second:  *)
(* it serves what is due at the last instant of the current second.  Dates *)
(* of whole seconds, apart, leave no room for that: each is met to the     *)
(* instant.                                                                *)
EarlyWithinTheSecond ==
  live =>
    /\ Served = InForce(Base, Lowered, FlagdClock)
    /\ Apart /\ (\A s \in Source : s.at % TicksPerSecond = 0)
       => Served = InForce(Base, Source, now)

(* Once all dates have come, what is served is the newest snapshot of the  *)
(* source, for good: with every earlier snapshot still in the file, and    *)
(* after it was lowered, pruned and nested.                                *)
SettlesOnNewest == live ~> [](Served = InForce(Base, Source, MaxNow))

(* docs/compiler-targets.md: "evaluation uses the most recent enabled step *)
(* whose date <= now".  The authored date, to the nanosecond.              *)
NeverEarly ==
  live => Served \in {Base} \cup {s.evaluation : s \in {o \in Source : o.at <= now}}
=============================================================================
