-------------------------- MODULE FlagdScheduleProofs --------------------------
(***************************************************************************)
(* Proofs about FlagdSchedule, for every environment that is lowered, any  *)
(* number of ticks in a second and any time the clock may run: the nested  *)
(* "if"s are the schedule, the newest snapshot outermost, so what flagd    *)
(* serves is what is in force on its clock, and the whole implements       *)
(* SnapshotSemantics.  That the newest snapshot is served in the end rests *)
(* on fairness and stays with TLC.                                         *)
(***************************************************************************)
EXTENDS FlagdSchedule, ScheduleLoweringProofs

-----------------------------------------------------------------------------
(* Whole seconds                                                           *)

(* An instant falls in a second at the latest iff it is not after the last *)
(* instant of that second.                                                 *)
LEMMA SameSecond ==
  ASSUME NEW t \in Nat, NEW u \in Nat
  PROVE  /\ Unix(t) \in Nat
         /\ Unix(u) * TicksPerSecond + TicksPerSecond - 1 \in Nat
         /\ Unix(t) <= Unix(u) <=> t <= Unix(u) * TicksPerSecond + TicksPerSecond - 1
<1> DEFINE d == TicksPerSecond
           a == t \div d
           b == u \div d
<1>1. d \in Nat \ {0}
  BY ClockAssumption
<1>2. /\ a \in Nat /\ a * d \in Nat /\ a * d <= t /\ t < a * d + d
      /\ b \in Nat /\ b * d \in Nat
  BY <1>1, QuotientBounds
<1>3. a = Unix(t) /\ b = Unix(u)
  BY DEF Unix
<1> HIDE DEF a, b
<1>4. CASE a <= b
  <2>1. a * d <= b * d
    BY <1>1, <1>2, <1>4, ProductsAreOrdered
  <2> QED BY <1>1, <1>2, <1>3, <1>4, <2>1
<1>5. CASE b + 1 <= a
  <2>1. b * d + d <= a * d
    BY <1>1, <1>2, <1>5, ProductIsMonotone
  <2> QED BY <1>1, <1>2, <1>3, <1>5, <2>1
<1> QED BY <1>2, <1>4, <1>5

(* flagd's clock is the last instant of the current second.                *)
LEMMA ClockFacts ==
  ASSUME now \in Nat
  PROVE  /\ FlagdClock \in Nat /\ now <= FlagdClock
         /\ \A t \in Nat : Unix(t) <= Unix(now) <=> t <= FlagdClock
<1>1. Unix(now) <= Unix(now)
  BY SameSecond
<1> QED BY <1>1, SameSecond DEF FlagdClock

(* It does not go back.                                                    *)
LEMMA ClockRuns ==
  ASSUME now \in Nat, now' \in Nat, now <= now'
  PROVE  FlagdClock \in Nat /\ FlagdClock' \in Nat /\ FlagdClock <= FlagdClock'
<1> DEFINE d == TicksPerSecond
           a == Unix(now)
           b == Unix(now')
<1>1. /\ a \in Nat /\ a * d + d - 1 \in Nat
      /\ b \in Nat /\ b * d + d - 1 \in Nat
      /\ now' <= b * d + d - 1
      /\ a <= b <=> now <= b * d + d - 1
  <2>1. b <= b
    BY SameSecond
  <2> HIDE DEF a, b
  <2> QED BY <2>1, SameSecond DEF a, b
<1>2. FlagdClock = a * d + d - 1 /\ FlagdClock' = b * d + d - 1
  BY DEF FlagdClock, Unix
<1>3. d \in Nat /\ d \in Nat \ {0}
  BY ClockAssumption
<1> HIDE DEF a, b, d
<1>4. a <= b
  BY <1>1
<1>5. a * d <= b * d
  BY <1>1, <1>3, <1>4, ProductsAreOrdered
<1> QED BY <1>1, <1>2, <1>3, <1>5

(* A date of a whole second has come as soon as its second has.            *)
LEMMA WholeSecondsAreMet ==
  ASSUME NEW t \in Nat, t % TicksPerSecond = 0, now \in Nat
  PROVE  t <= FlagdClock <=> t <= now
<1> DEFINE d == TicksPerSecond
           a == t \div d
           b == now \div d
<1>1. d \in Nat \ {0}
  BY ClockAssumption
<1>2. /\ a \in Nat /\ a * d \in Nat /\ a * d <= t /\ t < a * d + d
      /\ b \in Nat /\ b * d \in Nat /\ b * d <= now /\ now < b * d + d
  BY <1>1, QuotientBounds
<1>3. t = a * d
  <2>1. t = d * a + (t % d)
    BY <1>1
  <2>2. d * a = a * d
    BY <1>1, <1>2
  <2> QED BY <1>1, <1>2, <2>1, <2>2
<1>4. FlagdClock = b * d + d - 1 /\ FlagdClock \in Nat /\ now <= FlagdClock
  BY ClockFacts DEF FlagdClock, Unix
<1>5. ASSUME t <= FlagdClock PROVE t <= now
  <2>1. a <= b
    <3>1. Unix(t) <= Unix(now)
      BY <1>5, ClockFacts
    <3> QED BY <3>1 DEF Unix
  <2> HIDE DEF a, b, d
  <2>2. a * d <= b * d
    BY <1>1, <1>2, <2>1, ProductsAreOrdered
  <2> QED BY <1>2, <1>3, <2>2
<1> QED BY <1>4, <1>5

-----------------------------------------------------------------------------
(* The nested "if"s                                                        *)

Guard == [from : Nat, evaluation : {s.evaluation : s \in Lowered}]

(* Guard i stands for the snapshot that is i-th from the end.              *)
Nested ==
  /\ phase # "lowered" => guards = <<>> /\ live = FALSE
  /\ guards \in Seq(Guard)
  /\ Len(guards) <= Len(kept)
  /\ \A i \in 1 .. Len(guards) :
       LET s == kept[Len(guards) + 1 - i]
       IN guards[i] = [from |-> Unix(s.at), evaluation |-> s.evaluation]
  /\ live => Len(guards) = Len(kept)
  /\ live \in BOOLEAN
  /\ now \in 0 .. MaxNow

FlagdIInv == LoweredOK /\ Nested

(* Once lowered, the schedule does not change.                             *)
LEMMA LoweredIsFinal ==
  ASSUME Next
  PROVE  phase # "lowered"
BY DEF Next, LowerRollout, TooManyStages, NoStages, BeginStages, AppendStage, EndStages,
       LowerSteps, SkipDisabled, RejectDuplicate, AppendStep, EndSteps, AtStep,
       Prune, EndPrune, RejectTie, Drop, Keep, Takes, Check, Accept, Reject

(* Nothing is wrapped to begin with.                                       *)
LEMMA InitFlagdIInv == FlagdInit => FlagdIInv
<1> SUFFICES ASSUME FlagdInit PROVE FlagdIInv
  OBVIOUS
<1>1. LoweredOK
  BY InitLoweredOK DEF FlagdInit
<1>2. /\ guards = <<>> /\ live = FALSE /\ now = 0 /\ Len(guards) = 0
      /\ kept = <<>> /\ Len(kept) = 0 /\ guards \in Seq(Guard)
  BY EmptySeq DEF FlagdInit, Init
<1>3. now \in 0 .. MaxNow
  BY <1>2, ClockAssumption
<1>4. /\ 1 .. Len(guards) = {} /\ Len(guards) <= Len(kept)
      /\ live \in BOOLEAN /\ ~ live
  <2>1. 1 .. Len(guards) = {} /\ Len(guards) <= Len(kept)
    BY <1>2
  <2>2. live \in BOOLEAN /\ ~ live
    BY <1>2, Zenon
  <2> QED BY <2>1, <2>2
<1>5. \A i \in 1 .. Len(guards) : FALSE
  BY <1>4
<1>6. Nested
  BY <1>2, <1>3, <1>4, <1>5, Zenon DEF Nested
<1> QED BY <1>1, <1>6 DEF FlagdIInv

(* One turn of the loop adds the next snapshot outside all others.         *)
LEMMA WrapNested ==
  ASSUME FlagdIInv, Wrap
  PROVE  Nested'
<1> DEFINE n == Len(guards)
           s == kept[n + 1]
           g == [from |-> Unix(s.at), evaluation |-> s.evaluation]
<1>1. /\ n \in Nat /\ n < Len(kept) /\ Len(kept) \in Nat /\ guards \in Seq(Guard)
      /\ phase = "lowered" /\ phase' = phase /\ kept' = kept /\ live = FALSE /\ live' = live
      /\ now' = now /\ guards' = <<g>> \o guards
      /\ \A i \in 1 .. n : guards[i] = [from |-> Unix(kept[n + 1 - i].at),
                                        evaluation |-> kept[n + 1 - i].evaluation]
  BY ScheduleFacts, LenProperties DEF FlagdIInv, LoweredOK, Nested, Wrap, vars
<1>2. n + 1 \in 1 .. Len(kept)
  BY <1>1
<1>3. s \in Lowered /\ s.at \in Nat
  BY <1>2, ScheduleFacts DEF FlagdIInv, LoweredOK, Lowered
<1>4. g \in Guard
  <2>1. Unix(s.at) \in Nat
    BY <1>3, SameSecond
  <2> QED BY <1>3, <2>1 DEF Guard
<1>5. Guard' = Guard
  BY <1>1 DEF Guard, Lowered
<1> HIDE DEF g
<1>6. /\ <<g>> \in Seq(Guard) /\ Len(<<g>>) = 1 /\ <<g>>[1] = g
  BY <1>4
<1>7. /\ guards' \in Seq(Guard) /\ Len(guards') = n + 1
      /\ guards'[1] = g
      /\ \A i \in 2 .. n + 1 : guards'[i] = guards[i - 1]
  <2>1. /\ guards' \in Seq(Guard) /\ Len(guards') = 1 + n
        /\ \A i \in 1 .. 1 + n : guards'[i] = IF i <= 1 THEN <<g>>[i] ELSE guards[i - 1]
    BY <1>1, <1>6, ConcatProperties
  <2> QED BY <1>1, <1>6, <2>1
<1>8. ASSUME NEW i \in 1 .. n + 1
      PROVE  guards'[i] = [from |-> Unix(kept[n + 2 - i].at),
                           evaluation |-> kept[n + 2 - i].evaluation]
  <2>1. CASE i = 1
    <3>1. n + 2 - i = n + 1
      BY <1>1, <2>1
    <3> QED BY <1>7, <2>1, <3>1 DEF g
  <2>2. CASE i # 1
    <3>1. i - 1 \in 1 .. n /\ i \in 2 .. n + 1 /\ n + 1 - (i - 1) = n + 2 - i
      BY <1>1, <2>2
    <3> QED BY <1>1, <1>7, <3>1
  <2> QED BY <2>1, <2>2
<1>9. /\ Len(guards') + 1 = n + 2 /\ Len(guards') <= Len(kept')
  BY <1>1, <1>7
<1>10. \A i \in 1 .. Len(guards') :
         guards'[i] = [from |-> Unix(kept'[Len(guards') + 1 - i].at),
                       evaluation |-> kept'[Len(guards') + 1 - i].evaluation]
  BY <1>1, <1>7, <1>8, <1>9
<1>11. live' \in BOOLEAN /\ now' \in 0 .. MaxNow
  BY <1>1 DEF FlagdIInv, Nested
<1> QED BY <1>1, <1>5, <1>7, <1>9, <1>10, <1>11 DEF Nested, Unix

(* Every step of lowering, compiler and clock preserves the invariant.     *)
LEMMA NextFlagdIInv == FlagdIInv /\ [FlagdNext]_flagdVars => FlagdIInv'
<1> SUFFICES ASSUME FlagdIInv, [FlagdNext]_flagdVars PROVE FlagdIInv'
  OBVIOUS
<1>1. LoweredOK'
  <2>1. [Next]_vars
    BY DEF FlagdNext, Lower, Wrap, Deploy, Tick, flagdVars
  <2> QED BY <2>1, NextLoweredOK DEF FlagdIInv
<1> SUFFICES Nested'
  BY <1>1 DEF FlagdIInv
<1>2. CASE Lower
  <2>1. /\ guards = <<>> /\ live = FALSE /\ guards' = guards /\ live' = live /\ now' = now
    BY <1>2, LoweredIsFinal DEF Lower, FlagdIInv, Nested
  <2>2. Len(guards) = 0 /\ guards' \in Seq(Guard') /\ Len(kept') \in Nat
    BY <1>1, <2>1, EmptySeq, ScheduleFacts DEF LoweredOK, IInv, SequencesOK
  <2>3. now' \in 0 .. MaxNow
    BY <2>1 DEF FlagdIInv, Nested
  <2>4. Len(guards') = 0 /\ 1 .. Len(guards') = {} /\ Len(guards') <= Len(kept')
    BY <2>1, <2>2
  <2>5. \A i \in 1 .. Len(guards') : FALSE
    BY <2>4
  <2>6. guards' = <<>> /\ live' = FALSE /\ ~ live' /\ live' \in BOOLEAN
    BY <2>1
  <2> QED BY <2>2, <2>3, <2>4, <2>5, <2>6, Zenon DEF Nested
<1>3. CASE Wrap
  BY <1>3, WrapNested
<1>4. ASSUME UNCHANGED <<vars, guards>>, phase = "lowered" \/ live' = live,
             live' \in BOOLEAN, live' => Len(guards) = Len(kept), now' \in 0 .. MaxNow
      PROVE  Nested'
  <2>1. Guard' = Guard /\ phase' = phase /\ kept' = kept /\ guards' = guards
    BY <1>4 DEF Guard, Lowered, vars
  <2> QED BY <1>4, <2>1 DEF FlagdIInv, Nested, Unix
<1>5. CASE Deploy
  BY <1>4, <1>5 DEF Deploy, FlagdIInv, Nested
<1>6. CASE Tick
  <2>1. now' \in 0 .. MaxNow
    BY <1>6, ClockAssumption DEF Tick, FlagdIInv, Nested
  <2> QED BY <1>4, <1>6, <2>1 DEF Tick, FlagdIInv, Nested
<1>7. CASE UNCHANGED flagdVars
  BY <1>4, <1>7 DEF flagdVars, FlagdIInv, Nested
<1> QED BY <1>2, <1>3, <1>5, <1>6, <1>7 DEF FlagdNext

(* Only what is eligible counts.                                           *)
LEMMA SameEligible ==
  ASSUME NEW base, NEW S, NEW t, NEW u, {s \in S : s.at <= t} = {s \in S : s.at <= u}
  PROVE  InForce(base, S, t) = InForce(base, S, u)
<1> DEFINE Newest(E) == IF E = {} THEN base
                        ELSE (CHOOSE s \in E : \A o \in E : o.at <= s.at).evaluation
<1>1. /\ InForce(base, S, t) = Newest({s \in S : s.at <= t})
      /\ InForce(base, S, u) = Newest({s \in S : s.at <= u})
  BY DEF InForce
<1> HIDE DEF Newest
<1> QED BY <1>1

(* The invariant of the lowering holds, and the guards nest the schedule.  *)
THEOREM FlagdInvariance == FlagdSpec => []FlagdIInv
  BY InitFlagdIInv, NextFlagdIInv, PTL DEF FlagdSpec

(* The compiled file holds, from the start of its compilation on, dates in *)
(* whole seconds and evaluations of the schedule, in any environment.      *)
THEOREM FlagdTypeCorrect == FlagdSpec => []FlagdTypeOK
<1>1. FlagdIInv => FlagdTypeOK
  BY DEF FlagdIInv, LoweredOK, IInv, Nested, FlagdTypeOK, Guard
<1> QED BY <1>1, FlagdInvariance, PTL

-----------------------------------------------------------------------------
(* What flagd serves                                                       *)

(* The first "if" that holds is that of the newest snapshot which has come.*)
LEMMA ServesWhatIsInForce ==
  ASSUME FlagdIInv, live
  PROVE  Served = InForce(Base, Lowered, FlagdClock)
<1> DEFINE n == Len(kept)
           c == FlagdClock
<1>1. /\ IInv /\ n \in Nat /\ Len(guards) = n /\ DOMAIN guards = 1 .. n
      /\ now \in Nat
      /\ \A m \in 1 .. n : kept[m].at \in Nat
      /\ \A i \in 1 .. n : guards[i] = [from |-> Unix(kept[n + 1 - i].at),
                                        evaluation |-> kept[n + 1 - i].evaluation]
  BY ScheduleFacts, LenProperties, ClockAssumption DEF FlagdIInv, LoweredOK, Nested
<1>2. c \in Nat /\ \A m \in 1 .. n : Unix(kept[m].at) <= Unix(now) <=> kept[m].at <= c
  BY <1>1, ClockFacts
<1>3. \A i \in 1 .. n : /\ n + 1 - i \in 1 .. n
                        /\ Holds(guards[i]) <=> kept[n + 1 - i].at <= c
                        /\ guards[i].evaluation = kept[n + 1 - i].evaluation
  <2> SUFFICES ASSUME NEW i \in 1 .. n
               PROVE  /\ n + 1 - i \in 1 .. n
                      /\ Holds(guards[i]) <=> kept[n + 1 - i].at <= c
                      /\ guards[i].evaluation = kept[n + 1 - i].evaluation
    OBVIOUS
  <2>1. n + 1 - i \in 1 .. n
    BY <1>1
  <2> QED BY <1>1, <1>2, <2>1 DEF Holds
<1>4. CASE \E i \in 1 .. n : Holds(guards[i])
  <2> DEFINE First(i) == i \in 1 .. n /\ Holds(guards[i])
                         /\ \A j \in 1 .. i - 1 : ~ Holds(guards[j])
             D == {i \in 1 .. n : Holds(guards[i])}
  <2>1. PICK f \in D : \A j \in D : ~ (j < f)
    <3>1. D \subseteq Nat /\ D # {}
      BY <1>1, <1>4
    <3> HIDE DEF D
    <3> QED BY <3>1, LeastNumber
  <2>2. First(f)
    BY <1>1, <2>1
  <2> DEFINE i == CHOOSE k \in 1 .. n : Holds(guards[k])
                                        /\ \A j \in 1 .. k - 1 : ~ Holds(guards[j])
  <2>3. First(i)
    BY <2>2
  <2>4. Served = guards[i].evaluation
    BY <1>1, <1>4 DEF Served
  <2> HIDE DEF i
  <2> DEFINE m == n + 1 - i
  <2>5. m \in 1 .. n /\ kept[m].at <= c /\ Served = kept[m].evaluation
    BY <1>3, <2>3, <2>4
  <2>6. ASSUME NEW k \in 1 .. n PROVE kept[k].at <= kept[m].at \/ c < kept[k].at
    <3>1. CASE k < m
      <4>1. kept[k].at < kept[m].at
        BY <1>1, <2>5, <3>1, KeptIsAscending
      <4> QED BY <1>1, <2>5, <4>1
    <3>2. CASE k = m
      BY <1>1, <3>2
    <3>3. CASE m < k
      <4>1. n + 1 - k \in 1 .. n /\ n + 1 - k \in 1 .. i - 1 /\ n + 1 - (n + 1 - k) = k
        BY <1>1, <2>3, <3>3
      <4>2. ~ Holds(guards[n + 1 - k])
        BY <2>3, <4>1
      <4>3. ~ (kept[k].at <= c)
        BY <1>3, <4>1, <4>2
      <4> QED BY <1>1, <1>2, <4>3
    <3> QED BY <1>1, <2>5, <3>1, <3>2, <3>3
  <2>7. Shows(kept, c, Served)
    BY <1>1, <2>5, <2>6 DEF Shows, Rules
  <2> QED BY <1>1, <1>2, <2>7, ShownIsInForce
<1>5. CASE ~ \E i \in 1 .. n : Holds(guards[i])
  <2>1. Served = Base
    BY <1>1, <1>5 DEF Served
  <2>2. ASSUME NEW k \in 1 .. n PROVE c < kept[k].at
    <3>1. n + 1 - k \in 1 .. n /\ n + 1 - (n + 1 - k) = k
      BY <1>1
    <3>2. ~ (kept[k].at <= c)
      BY <1>3, <1>5, <3>1
    <3> QED BY <1>1, <1>2, <3>2
  <2>3. Shows(kept, c, Base)
    BY <2>2 DEF Shows
  <2> QED BY <1>1, <1>2, <2>1, <2>3, ShownIsInForce
<1> QED BY <1>4, <1>5

(* Lowering preserves the meaning, so flagd serves that of the source.     *)
LEMMA ServesThePromise ==
  ASSUME FlagdIInv, live, Apart
  PROVE  Served = InForce(Base, Source, FlagdClock)
<1>1. now \in Nat /\ phase = "lowered"
  BY ClockAssumption DEF FlagdIInv, Nested
<1>2. FlagdClock \in Nat
  BY <1>1, ClockFacts
<1> QED BY <1>1, <1>2, ServesWhatIsInForce, MeaningIsPreserved DEF FlagdIInv

(* Whatever the dates, flagd is early by less than a second and never      *)
(* late: it serves what is due at the last instant of the current second.  *)
(* Dates of whole seconds are met to the instant.                          *)
THEOREM EarlyByLessThanASecond == FlagdSpec => []EarlyWithinTheSecond
<1>1. FlagdIInv => EarlyWithinTheSecond
  <2> SUFFICES ASSUME FlagdIInv, live
               PROVE  /\ Served = InForce(Base, Lowered, FlagdClock)
                      /\ Apart /\ (\A s \in Source : s.at % TicksPerSecond = 0)
                         => Served = InForce(Base, Source, now)
    BY DEF EarlyWithinTheSecond
  <2>1. Served = InForce(Base, Lowered, FlagdClock)
    BY ServesWhatIsInForce
  <2>2. ASSUME Apart, \A s \in Source : s.at % TicksPerSecond = 0
        PROVE  Served = InForce(Base, Source, now)
    <3>1. now \in Nat /\ \A s \in Source : s.at \in Nat
      BY SourceDates, ClockAssumption DEF FlagdIInv, LoweredOK, Nested
    <3>2. \A s \in Source : s.at <= FlagdClock <=> s.at <= now
      BY <2>2, <3>1, WholeSecondsAreMet
    <3>3. {s \in Source : s.at <= FlagdClock} = {s \in Source : s.at <= now}
      BY <3>2
    <3>4. InForce(Base, Source, FlagdClock) = InForce(Base, Source, now)
      BY <3>3, SameEligible
    <3> QED BY <2>2, <3>4, ServesThePromise
  <2> QED BY <2>1, <2>2
<1> QED BY <1>1, FlagdInvariance, PTL

-----------------------------------------------------------------------------
(* The promise                                                             *)

Published == IF live THEN {[base |-> Base, snapshots |-> Source]} ELSE {}
InService == IF live THEN {Served} ELSE {}

(* A published document does not change.                                   *)
LEMMA DocumentFixed ==
  ASSUME UNCHANGED <<env, schedule>>
  PROVE  Base' = Base /\ Source' = Source
BY SourceFixed, LayoutFixed

(* What is in service is what the promise says of what is published.       *)
ServesCurrent == InService = Promise!Current(Published, FlagdClock)

(* So it is, by what flagd serves.                                         *)
LEMMA ServiceIsCurrent ==
  ASSUME FlagdIInv, live => Apart
  PROVE  ServesCurrent
<1>1. CASE live
  <2>1. Served = InForce(Base, Source, FlagdClock)
    BY <1>1, ServesThePromise
  <2>2. \A b, S, t : Promise!InForce(b, S, t) = InForce(b, S, t)
    BY DEF InForce, Promise!InForce
  <2>3. Promise!Current(Published, FlagdClock) = {InForce(Base, Source, FlagdClock)}
    BY <1>1, <2>2 DEF Published, Promise!Current
  <2> QED BY <1>1, <2>1, <2>3 DEF ServesCurrent, InService
<1>2. CASE ~ live
  BY <1>2 DEF ServesCurrent, InService, Published, Promise!Current
<1> QED BY <1>1, <1>2

(* The initial states are those of the promise.                            *)
LEMMA InitPromise == FlagdInit => Promise!Init
<1> SUFFICES ASSUME FlagdInit PROVE Promise!Init
  OBVIOUS
<1>1. now \in Nat /\ ~ live
  BY DEF FlagdInit
<1>2. FlagdClock \in Nat
  BY <1>1, ClockFacts
<1> QED BY <1>1, <1>2 DEF Promise!Init

(* Every step is one of the promise, or changes nothing of it.             *)
LEMMA NextPromise ==
  ASSUME FlagdIInv, ServesCurrent, ServesCurrent', [FlagdNext]_flagdVars, now' \in Nat
  PROVE  [Promise!Publish \/ Promise!Tick]_<<Published, FlagdClock, InService>>
<1>1. ASSUME UNCHANGED <<Published, FlagdClock>>
      PROVE  UNCHANGED <<Published, FlagdClock, InService>>
  BY <1>1 DEF ServesCurrent, Promise!Current
<1>2. ASSUME now' = now PROVE FlagdClock' = FlagdClock
  BY <1>2 DEF FlagdClock, Unix
<1>3. CASE Lower \/ Wrap
  <2>1. ~ live /\ ~ live' /\ now' = now
    BY <1>3, LoweredIsFinal DEF Lower, Wrap, FlagdIInv, Nested
  <2>2. Published' = Published
    BY <2>1 DEF Published
  <2> QED BY <1>1, <1>2, <2>1, <2>2
<1>4. CASE Deploy
  <2>1. Published = {} /\ \E d \in Published' : Published' = {d}
    BY <1>4 DEF Deploy, Published
  <2>2. FlagdClock' = FlagdClock
    BY <1>2, <1>4 DEF Deploy
  <2>3. InService' = Promise!Current(Published', FlagdClock)
    BY <2>2 DEF ServesCurrent, Promise!Current
  <2>4. Promise!Publish
    BY <2>1, <2>2, <2>3 DEF Promise!Publish, Published, InService
  <2> QED BY <2>4
<1>5. CASE Tick
  <2>1. live /\ live' /\ now' = now + 1 /\ UNCHANGED <<env, schedule>>
    BY <1>5 DEF Tick, vars
  <2>2. Published' = Published /\ Published # {}
    BY <2>1, DocumentFixed DEF Published
  <2>3. FlagdClock \in Nat /\ FlagdClock' \in Nat /\ FlagdClock <= FlagdClock'
    <3>1. now \in Nat /\ now <= now'
      BY <2>1, ClockAssumption DEF FlagdIInv, Nested
    <3> QED BY <3>1, ClockRuns
  <2>4. CASE FlagdClock' = FlagdClock
    BY <1>1, <2>2, <2>4
  <2>5. CASE FlagdClock' > FlagdClock
    <3>1. InService' = Promise!Current(Published, FlagdClock')
      BY <2>2 DEF ServesCurrent, Promise!Current
    <3> QED BY <2>2, <2>3, <2>5, <3>1 DEF Promise!Tick, Published, InService
  <2> QED BY <2>3, <2>4, <2>5
<1>6. CASE UNCHANGED flagdVars
  <2>1. live' = live /\ now' = now /\ UNCHANGED <<env, schedule>>
    BY <1>6 DEF flagdVars, vars
  <2>2. Published' = Published
    BY <2>1, DocumentFixed DEF Published
  <2> QED BY <1>1, <1>2, <2>1, <2>2
<1> QED BY <1>3, <1>4, <1>5, <1>6 DEF FlagdNext

(* The authored environment, lowered, compiled and evaluated by flagd,     *)
(* does what the documentation promises of the source, wherever what is    *)
(* published is apart.                                                     *)
THEOREM FlagdKeepsThePromise == FlagdSpec /\ [](live => Apart) => MeetsPromise
<1>1. FlagdIInv /\ (live => Apart) => ServesCurrent
  BY ServiceIsCurrent
<1>2. FlagdInit => Promise!Init
  BY InitPromise
<1>3. FlagdIInv /\ FlagdIInv' /\ ServesCurrent /\ ServesCurrent' /\ [FlagdNext]_flagdVars
      => [Promise!Publish \/ Promise!Tick]_<<Published, FlagdClock, InService>>
  <2> SUFFICES ASSUME FlagdIInv, FlagdIInv', ServesCurrent, ServesCurrent', [FlagdNext]_flagdVars
               PROVE  [Promise!Publish \/ Promise!Tick]_<<Published, FlagdClock, InService>>
    OBVIOUS
  <2>1. now' \in Nat
    BY ClockAssumption DEF FlagdIInv, Nested
  <2> QED BY <2>1, NextPromise
<1> QED
  BY <1>1, <1>2, <1>3, FlagdInvariance, PTL
  DEF FlagdSpec, MeetsPromise, Promise!Spec, Published, InService

(* In particular every environment whose rollout has room for its stages,  *)
(* and whose enabled steps come after it, is served as promised.           *)
THEOREM OrderlyKeepsThePromise ==
  ASSUME \A e \in Environments : Orderly(e)
  PROVE  FlagdSpec => MeetsPromise
<1>1. FlagdIInv => (live => Apart)
  BY OrderlyIsApart, ScheduleFacts DEF FlagdIInv, LoweredOK
<1> QED BY <1>1, FlagdInvariance, FlagdKeepsThePromise, PTL
=============================================================================
