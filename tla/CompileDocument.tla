---------------------------- MODULE CompileDocument ----------------------------
(***************************************************************************)
(* compileIRDocument of the two targets: the loop over doc.Flags, in the   *)
(* order a Go map delivers it, and for each flag the loops over the rules  *)
(* of the base and of each snapshot.  GO Feature Flag has one bucketingKey *)
(* per flag, so its compiler merges the allocation keys it meets: those of *)
(* one list of rules into "list", those of all snapshots into "sched",     *)
(* both into the key of the flag.  flagd keeps the key of each action.     *)
(*                                                                         *)
(* An action is the key it distributes by, or NoKey when it serves one     *)
(* variant, with the targets that refuse it: for its condition, if it is a *)
(* rule's, or for its weights.  Within one evaluation flagd goes from the  *)
(* default action to the first rule, here both targets go the other way:   *)
(* the difference is only which of several errors is reported.             *)
(***************************************************************************)
EXTENDS Integers, Sequences

CONSTANTS
  Flag,       \* the keys of doc.Flags
  Key,        \* allocation keys
  NoKey,      \* the empty string in mergeBucketingKeys
  Undefined,  \* the flag does not define the requested environment
  None,       \* no flag is being compiled
  Documents   \* the IR documents, as the requested environment shows them

Targets == {"flagd", "gofeatureflag"}
Keys == Key \cup {NoKey}
Actions == [key : Keys, refusedBy : SUBSET Targets]
Evaluations == [rules : Seq(Actions), default : Actions]
Environments == [base : Evaluations, schedule : Seq(Evaluations)]

(* unsafe: a variant holds an integer GO Feature Flag cannot carry.        *)
ASSUME DocumentAssumption ==
  /\ NoKey \notin Key
  /\ None \notin Flag
  /\ Undefined \notin Environments
  /\ Documents \subseteq [Flag -> [unsafe : BOOLEAN, env : Environments \cup {Undefined}]]

VARIABLES
  doc, target, allow,   \* the arguments; allow is AllowMissingEnvironment
  phase,                \* "flags", "compiled" or "failed"
  todo,                 \* flags the range over doc.Flags has not delivered
  flag,                 \* the flag being compiled, or None
  snapshot,             \* the evaluation the loop is at; 0 is the base
  at,                   \* the rule the loop is at
  bucket, list, sched,  \* the keys merged so far
  bucketing,            \* the flags in the output, each with its key
  warned                \* the flags the warnings name

arguments == <<doc, target, allow>>
cursor == <<flag, snapshot, at>>
keys == <<bucket, list, sched>>
vars == <<arguments, phase, todo, cursor, keys, bucketing, warned>>

Init ==
  /\ doc \in Documents
  /\ target \in Targets
  /\ allow \in BOOLEAN
  /\ phase = "flags"
  /\ todo = Flag
  /\ flag = None /\ snapshot = 0 /\ at = 1
  /\ bucket = NoKey /\ list = NoKey /\ sched = NoKey
  /\ bucketing = <<>>
  /\ warned = {}

(* mergeBucketingKeys.  flagd does not merge.                              *)
Merges(l, r) == target = "flagd" \/ l = NoKey \/ r = NoKey \/ l = r
Merged(l, r) == IF target = "flagd" THEN NoKey ELSE IF l = NoKey THEN r ELSE l

(* The caller is given the error alone, no output and no warnings.         *)
Fail ==
  /\ phase' = "failed"
  /\ bucketing' = <<>>
  /\ warned' = {}
  /\ UNCHANGED <<arguments, todo, cursor, keys>>

Delivered(f) == phase = "flags" /\ flag = None /\ f \in todo

(* Mutant of SkipFlag: only the first flag is warned about.                *)
SkipQuietly(f) ==
  /\ Delivered(f)
  /\ doc[f].env = Undefined
  /\ allow
  /\ todo' = todo \ {f}
  /\ warned' = IF warned = {} THEN {f} ELSE warned
  /\ UNCHANGED <<arguments, phase, cursor, keys, bucketing>>

SkipFlag(f) ==
  /\ Delivered(f)
  /\ doc[f].env = Undefined
  /\ allow
  /\ todo' = todo \ {f}
  /\ warned' = warned \cup {f}
  /\ UNCHANGED <<arguments, phase, cursor, keys, bucketing>>

MissingEnvironment(f) == Delivered(f) /\ doc[f].env = Undefined /\ ~ allow /\ Fail

RefusedFlag(f) ==
  \/ target = "gofeatureflag" /\ doc[f].unsafe
  \/ target \in doc[f].env.base.default.refusedBy

(* Mutant of BeginFlag: counts the rules from zero.                        *)
BeginFlagAtZero(f) ==
  /\ Delivered(f)
  /\ doc[f].env # Undefined
  /\ ~ RefusedFlag(f)
  /\ flag' = f /\ snapshot' = 0 /\ at' = 0
  /\ bucket' = Merged(NoKey, doc[f].env.base.default.key)
  /\ list' = NoKey /\ sched' = NoKey
  /\ UNCHANGED <<arguments, phase, todo, bucketing, warned>>

(* The default action of the base is compiled first.                       *)
BeginFlag(f) ==
  /\ Delivered(f)
  /\ doc[f].env # Undefined
  /\ ~ RefusedFlag(f)
  /\ flag' = f /\ snapshot' = 0 /\ at' = 1
  /\ bucket' = Merged(NoKey, doc[f].env.base.default.key)
  /\ list' = NoKey /\ sched' = NoKey
  /\ UNCHANGED <<arguments, phase, todo, bucketing, warned>>

RefuseFlag(f) == Delivered(f) /\ doc[f].env # Undefined /\ RefusedFlag(f) /\ Fail

env == doc[flag].env
Evaluation(s) == IF s = 0 THEN env.base ELSE env.schedule[s]
Compiling == phase = "flags" /\ flag # None
AtEvaluation == Compiling /\ snapshot <= Len(env.schedule)
AtRule == AtEvaluation /\ at <= Len(Evaluation(snapshot).rules)
AtEnd == AtEvaluation /\ at > Len(Evaluation(snapshot).rules)

Accepts(a, key) == target \notin a.refusedBy /\ Merges(key, a.key)

CompileRule ==
  /\ AtRule
  /\ Accepts(Evaluation(snapshot).rules[at], list)
  /\ list' = Merged(list, Evaluation(snapshot).rules[at].key)
  /\ at' = at + 1
  /\ UNCHANGED <<arguments, phase, todo, flag, snapshot, bucket, sched, bucketing, warned>>

RefuseRule == AtRule /\ ~ Accepts(Evaluation(snapshot).rules[at], list) /\ Fail

NextEvaluation == snapshot' = snapshot + 1 /\ at' = 1 /\ list' = NoKey /\ UNCHANGED flag

(* Mutant of EndBase: the key merged of the rules is forgotten.            *)
EndBaseOfDefault ==
  /\ AtEnd
  /\ snapshot = 0
  /\ Merges(bucket, list)
  /\ NextEvaluation
  /\ UNCHANGED <<arguments, phase, todo, bucket, sched, bucketing, warned>>

EndBase ==
  /\ AtEnd
  /\ snapshot = 0
  /\ Merges(bucket, list)
  /\ bucket' = Merged(bucket, list)
  /\ NextEvaluation
  /\ UNCHANGED <<arguments, phase, todo, sched, bucketing, warned>>

RefuseBase == AtEnd /\ snapshot = 0 /\ ~ Merges(bucket, list) /\ Fail

SnapshotMerges ==
  /\ Merges(sched, list)
  /\ Accepts(Evaluation(snapshot).default, Merged(sched, list))

EndSnapshot ==
  /\ AtEnd
  /\ snapshot > 0
  /\ SnapshotMerges
  /\ sched' = Merged(Merged(sched, list), Evaluation(snapshot).default.key)
  /\ NextEvaluation
  /\ UNCHANGED <<arguments, phase, todo, bucket, bucketing, warned>>

RefuseSnapshot == AtEnd /\ snapshot > 0 /\ ~ SnapshotMerges /\ Fail

AtLastMerge == Compiling /\ snapshot > Len(env.schedule)

(* Mutant of EndFlag: the keys of the snapshots are not compared with the  *)
(* key of the base.                                                        *)
EndFlagUnmerged ==
  /\ AtLastMerge
  /\ bucketing' = [f \in DOMAIN bucketing \cup {flag} |->
                    IF f = flag THEN Merged(bucket, sched) ELSE bucketing[f]]
  /\ todo' = todo \ {flag}
  /\ flag' = None
  /\ UNCHANGED <<arguments, phase, snapshot, at, keys, warned>>

EndFlag ==
  /\ AtLastMerge
  /\ Merges(bucket, sched)
  /\ bucketing' = [f \in DOMAIN bucketing \cup {flag} |->
                    IF f = flag THEN Merged(bucket, sched) ELSE bucketing[f]]
  /\ todo' = todo \ {flag}
  /\ flag' = None
  /\ UNCHANGED <<arguments, phase, snapshot, at, keys, warned>>

RefuseKeys == AtLastMerge /\ ~ Merges(bucket, sched) /\ Fail

Finish ==
  /\ phase = "flags"
  /\ flag = None
  /\ todo = {}
  /\ phase' = "compiled"
  /\ UNCHANGED <<arguments, todo, cursor, keys, bucketing, warned>>

RangeStep ==
  \E f \in todo : SkipFlag(f) \/ MissingEnvironment(f) \/ BeginFlag(f) \/ RefuseFlag(f)
BodyStep ==
  \/ CompileRule \/ RefuseRule
  \/ EndBase \/ RefuseBase
  \/ EndSnapshot \/ RefuseSnapshot
  \/ EndFlag \/ RefuseKeys

Next == RangeStep \/ BodyStep \/ Finish

Spec == Init /\ [][Next]_vars

-----------------------------------------------------------------------------
(* Properties                                                              *)

TypeOK ==
  /\ doc \in Documents /\ target \in Targets /\ allow \in BOOLEAN
  /\ phase \in {"flags", "compiled", "failed"}
  /\ todo \subseteq Flag
  /\ flag \in todo \cup {None}
  /\ flag # None => doc[flag].env # Undefined
  /\ snapshot \in Nat /\ at \in Nat \ {0}
  /\ bucket \in Keys /\ list \in Keys /\ sched \in Keys
  /\ DOMAIN bucketing \subseteq Flag \ todo
  /\ \A f \in DOMAIN bucketing : doc[f].env # Undefined /\ bucketing[f] \in Keys
  /\ warned \subseteq Flag \ todo

Parts(e) == {e.base} \cup {e.schedule[i] : i \in DOMAIN e.schedule}
ActionsOf(e) ==
  UNION {{p.default} \cup {p.rules[i] : i \in DOMAIN p.rules} : p \in Parts(e)}

(* GO Feature Flag buckets a whole flag by one key.  Whatever is accepted, *)
(* each distribution of the flag, of the base or of any snapshot, of a     *)
(* rule or a default action, asks for the key the file names, and a flag   *)
(* that distributes nothing names none.                                    *)
OneBucketingKey ==
  target = "gofeatureflag" =>
    \A f \in DOMAIN bucketing :
      /\ \A a \in ActionsOf(doc[f].env) : a.key \in {NoKey, bucketing[f]}
      /\ \E a \in ActionsOf(doc[f].env) : a.key = bucketing[f]

Conflict(e) ==
  \E a, b \in ActionsOf(e) : a.key # b.key /\ NoKey \notin {a.key, b.key}

Hopeless(f) ==
  IF doc[f].env = Undefined THEN ~ allow
  ELSE \/ \E a \in ActionsOf(doc[f].env) : target \in a.refusedBy
       \/ target = "gofeatureflag" /\ (doc[f].unsafe \/ Conflict(doc[f].env))

(* The verdict is the document's: compilation fails exactly if one of the  *)
(* flags cannot be compiled, whatever order the map is ranged over and     *)
(* wherever in the flag the trouble is.                                    *)
VerdictIsTheDocuments ==
  /\ phase = "failed" => \E f \in Flag : Hopeless(f)
  /\ phase = "compiled" => \A f \in Flag : ~ Hopeless(f)

(* A file that is written has exactly the flags that define the            *)
(* environment, and the warnings name exactly the others.                  *)
OutputIsComplete ==
  phase = "compiled" =>
    /\ DOMAIN bucketing = {f \in Flag : doc[f].env # Undefined}
    /\ warned = Flag \ DOMAIN bucketing
=============================================================================
