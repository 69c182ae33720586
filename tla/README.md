# A TLA+ model of ffcraft

ffcraft compiles a feature-flag document, written in YAML, for two flag
runtimes (flagd and GO Feature Flag) and to Go accessors. This directory models
the parts of it that decide what a flag *means*, and checks and proves that the
meaning survives every stage. Paths below are relative to the repository.

## The system

The program is a pipeline. Nothing runs concurrently inside a command; what
makes it hard is the number of stages that each rewrite the document, the maps
Go ranges over in no fixed order, the clock that the compiled file is read
against for months afterwards, and the file system the commands share.

    YAML --authoring--> FeatureFlagDocument --validate, normalize--> AST
         --ir.FromAST--> IR document --ir.Validate--> flagd JSON | GO Feature Flag YAML | Go
                                     \--ir.Marshal--> .pb --ir.Unmarshal--> (compile later)

| Component | State it keeps | Operations | What makes it correct |
|---|---|---|---|
| Authoring parser (`internal/authoring`) | the calls still to be made, the tree read so far | check the tree, read a node by its role, skip, refuse | reads every node it accepts; numbers keep their kind and value or are refused |
| Rule references (`internal/validate`, `internal/normalize/conditions.go`) | colours, recursion stack, joined errors | check names, find cycles, inline | accepts exactly what inlining can handle; terminates |
| Condition rewriting (`internal/normalize`, `internal/ir/normalize.go`) | the condition tree, the list of rules | simplify, prune, canonicalise, turn comparisons round | no rewriting changes which rule matches |
| Schedule lowering (`internal/ir/normalize.go`) | the schedule being built | append stages, append steps, sort, prune | what is in force at each instant stays the same |
| Values and extensions (`normalize/values.go`, `ir/normalize.go`, `numeric`) | the values of the document | normalize, lower, compile | a file holds what the author wrote |
| IR validation (`internal/ir/validate.go`) | none | limits, order, kinds, unknown fields | what it turns down has a cause in what the author wrote or how large it grew |
| Codecs (`ir/codec.go`, `normalizedyaml`) | the bytes between two programs | encode, decode | nothing is lost on the way, also of a newer schema |
| flagd compiler (`internal/compiler/flagd`) | the nested expression | wrap snapshots and rules | newest elapsed snapshot, first matching rule |
| GO Feature Flag compiler (`internal/compiler/gofeatureflag`) | the bucketing key of the flag | compile rules and steps, merge keys | one key per flag, right for all its distributions |
| Capability matrix (`internal/capability`) | a table | look up | agrees with the compilers |
| Runtime evaluator (`internal/runtimeeval`) | none | evaluate a condition | the reference meaning of a condition |
| Commands (`cmd/ffcompile`, `cmd/ffcodegen`) | files, what is open, what was loaded | build, compile, normalize, go | a success is whole, a failure leaves the last output |
| Code generation (`internal/codegen`) | fields by path; in the generated code, the attributes of a call | infer and override context fields, compile flags, call an accessor | every attribute a flag reads has a field and arrives; the file compiles |
| Runtime identity (`internal/runtimeidentity`) | tables of evidence | check | used by tests only |

Components pass values to one another by function calls; the only shared state
is the file system, between commands. The hazards this exposes the code to are
listed in `PROJECT.json` at their lines, with the properties that cover each.

## The modules

`Rollout` and `Conditions` hold pure definitions, the others are state machines.

**`AuthoringParser`** (`parser.go`, `authoring.go`, `conditions.go`, `values.go`, `extensions.go`,
`yamlutil.go`). A YAML tree is a function from paths to nodes, a path being
the keys and indexes the code's messages print. `CheckTree` is `validateYAMLTree`. After it the
recursive descent is a list of calls, `todo`: `Read` takes the first, looks at one
node in its role (what the function called there expects) and puts the calls that function makes
in front of the others. `Skip` is an optional field that is absent, or present and not
looked at, as the code does with all but the first kind of an action. `Refuse` is the first error, which ends the parse. The grammar
is data: `Strict`, `Choices`, `Open`, `Lists` and `Pairs` have one entry for each function.
A scalar is its lexical form and a number; `TaggedFloat` and `Scalar` say what yaml.v3 and the
code's own grammar of numbers make of it, with the widths of int64 and uint64.

**`ValueTransport`** extends the parser with what becomes of variant values and extensions:
`Normalize` (`normalize/values.go`), where everything below an object becomes a Go value,
`Lower` (`ir/normalize.go`), `ValidateIR` (`ir/validate.go`), `EncodeProtobuf` /
`EncodeYaml` / `Decode` (`ir/codec.go`, `normalizedyaml/codec.go`) and `Compile`
(the variant values of both compilers). Sizes are checked in three places: `SchemaTakes` has what the schemas say of a
node (texts, keys, fields, items; an authored variant may have a longer text than one of the IR, and an extension
is held to the IR's limit from the start), `SmallEnough` what `validateExtensions` and the IR's schema say of a whole scope
(variants, namespaces, payload). The length of a text is a number, the long names and keys are sets, a payload is
counted in values, and characters and bytes are one unit. `Evolve` is the environment: a writer with a newer
schema has put a field into a message, which protobuf keeps as an unknown field. The normalized YAML
is a view that commands only write; that `Decode` reads it again is the codec's own `Unmarshal`.

**`GeneratedAccessors`** (`codegen/compile_ir.go`, `ir_support.go`, `templates/go.tmpl`). The first half visits
flags and environments in any order, as `range` over a map does: `VisitEnvironment` adds
the fields of its conditions, `Override` applies the configuration, `CompileFlag` makes the accessors.
`Imports` and `Declared` are the conditions in the template. The second half
is the generated code: `Call` lists the writes of `toAttributes` and
`withTargetingKeyAttributes`, `SetPath` makes them one by one, `Send` calls the provider.

**`RuleGraph`** (`validate.go:172-268`, `conditions.go:10-121`). A document is a
graph: `refs` gives the names the condition of each rule mentions, in the order
the code meets them, `entry` those of one flag. `CheckEntry` is
`validateConditionRefs`. `detectRuleCycles` is a search by steps: `stack` and
`next` are the recursion of its closure `dfs`, `color` its map of states, `roots`
what the `range` over `doc.Rules` has still to deliver, in any order. As in the
code an unknown name in a flag is joined to the errors and the search still
runs. `Inline` and `ReturnInlined` are the recursion of `normalizeCondition`.

**`Rollout`** (`normalize.go:144-186, 545-566`). Weights and instants of the stages of a
progressive rollout and the canonical form of weights. The code rounds a
float64 quotient; where the exact value is half-way between two integers the
error of the division decides, so `Rounded` admits both.

**`ScheduleLowering`** (`normalize.go:54-186`, and what `ir.Validate` checks of it).
`environment()` by steps: `AppendStage`, then `SkipDisabled` / `AppendStep` /
`RejectDuplicate` for each scheduled step, then pruning. `sort.Slice` is not
stable, so `Drop`, `Keep` and `RejectTie` take any of the earliest entries left.
An evaluation is a list of rules, left whole, and an action. The allocation
key of a distribution is left out: the distributions of one environment here
share one. Dates are exact integers; the code computes the date of a stage
with a float64 product, which may differ by less than a microsecond over a year.

**`SnapshotSemantics`** is the abstract specification: at every instant the newest
snapshot whose date has come is in force. **`FlagdSchedule`** extends the lowering
with `compileIREnvironment` (`flagd/compile_ir.go:57-77`), a running clock and the
evaluation of the nested expression, and implements `SnapshotSemantics` under the
refinement mapping `Promise`: the document is the authored environment once
it is live, `served` is what the expression evaluates to, and the clock is the last instant of the current second.

**`Conditions`** has the condition trees (`ast/condition.go`), nested to a bound `MaxHeight`, and each function over them: `simplify`
(`simplify.go`; `Combined` is its case of an all or any), `Lowers`, `lower`, `rawCondition` and `canonical` (`ir/normalize.go:238-453`), `Valid`
(`ir/validate.go:187-362`), `Evaluate` (`runtimeeval/evaluate.go`), `Compiles` and
`Compiled` (both compilers) and the capability matrix. Kinds of leaf that differ only in
which target supports them are one opaque leaf. The parser lets every operator be applied to anything, so a leaf
also says what it is applied to, its operands: `fit`; `unfit` when they are not what the lowering asks for (two literals, a text to `gt`, a
number to `starts_with`), where `rawCondition` returns an error; `malformed` when they are, but `ir.Validate`
refuses the path or a literal (`semver_gt` with `abc`, `in` with `[1, "a"]`, a text over the limit). **`ConditionPipeline`** takes the
rules of an evaluation through the stages: pruning entry by entry, lowering (`FailToLower` is the first error, after which
there is nothing to validate), validation of the number of rules and of each condition, compilation rule by rule in the order of the target.
A leaf that is simplified away, in a constant group or behind a rule that always matches, is never looked at, as in the code.

**`CompileDocument`** (both `compile_ir.go`, `ir_helpers.go`). The loop over `doc.Flags`
in any order and, for each flag, the loops over its rules and snapshots, with
the keys `mergeBucketingKeys` has collected. `refusedBy` stands for all the
reasons a compiler has to refuse an action: its condition, its weights.

**`Commands`** (both `main.go`). Each command is a process with a program counter:
load, dump, compile, open (which truncates), write in blocks, close. A file is
a sequence of blocks that say what they were made from, so a torn file, a
hole and a mixture are visible. Which commands there are and which files they share is a makefile (`Options`), chosen at the start. A command may be killed between any two steps,
a write may fail half-way, a failed command may be run again, and the author
may save another source at any time (saving is one step). A torn file may fail to parse or parse as
something else; nothing is assumed of it. Reading a file is one step. The config
of ffcodegen and the warnings on stderr are left out.

Which module stands on which: `ScheduleLowering` uses `Rollout`; `FlagdSchedule` extends it and
instantiates `SnapshotSemantics`; `ConditionPipeline` extends `Conditions`; `ValueTransport` extends
`AuthoringParser`. `RuleGraph`, `CompileDocument`, `Commands` and `GeneratedAccessors` stand alone, because
the component they model sees the others through a finished value.

The `MC*` modules give the constants their values for TLC. The operators
described as mutants in the modules are plausible mistakes in the definition that
follows each; no specification uses them. They show which property would notice.

## What the runs check

| Run | Question | Bounds |
|---|---|---|
| `rules` | does validation accept exactly the documents that inlining survives, and do both end? | 3 rules, 1 undefined name, 2 references each |
| `lowering` | does lowering keep the meaning, fail for a cause only, and never shrink a rollout? | 3 steps on dates 0..3, up to 4 stages, 4 evaluations; rollouts of 5 to 14 stages over 5 and over 1000 instants, with 0 or 2 steps behind; schedules of at most 13 |
| `newest_step` | *violated*: is the newest eligible step used? | 2 steps |
| `flagd_schedule` | does flagd serve what the documentation promises, at each second, and how early with dates inside one? | 3 steps on 5 whole seconds, 2 steps on 7 instants; 3 instants to a second, up to 3 stages, clock 0..13 |
| `flagd_early` | *violated*: is a step never served before its date? | 2 steps |
| `conditions` | does every list of rules keep its meaning, with every operator, leaf and nesting? | one rule with any condition of two levels; lists of 2 rules over 28 conditions, with every operand, and lists of 3; trees up to height 3, depth limit 2, 3 children, 2 rules (694,276 states) |
| `document` | one bucketing key, and a verdict free of map order? | 2 flags, 2 keys, 2 rules, 2 snapshots |
| `commands` | what is in the files after kills, failed writes and edits, also when dump and output are one path? | 2 makefiles of 3 commands, 2 troubles, 5 paths |
| `authoring` | is anything ignored by the parser; do values and extensions arrive as written; what is refused? | one document of the whole grammar, and each that has one node replaced (by more than 40 others), a key added or left out; int64 is -5..4, uint64 0..6, 2^53 is 2, nesting 2, texts of 8 (10 in an authored variant), 3 children, 6 values in a namespace, 2 encodings (450,796 states) |
| `lossless_ingress` | *violated*: is a value that cannot be represented refused? | as above |
| `accessors` | what does the generated file hold, and what does the provider get? | 1 or 2 flags with a schedule or a second environment, 4 paths, one below another and one `targetingKey`, 7 conditions, 6 configurations (36,482 states) |
| `decimal_fields` | *violated*: does a decimal comparison make a float64 field? | as above |

Why these are enough. A cycle needs one rule, a diamond three with two
references; an undefined name may be mentioned by the flag or by a rule it does
not use. In the lowering a wrong comparison shows with a stage and two steps,
one on each side of it; ties, too many stages for the interval and the limit all
occur. A nesting in the wrong order needs two snapshots. In a condition
each rewriting looks at a node and its children, so two levels of
nesting show it every pair, and the leaf level a third. A key conflict needs two
parts of one flag and a second flag shows leftovers of the first. A second
trouble hits the run that repairs the first. The functions of the parser look at one node
and its keys at a time, so a document that has every function's node and
differs in one place at a time shows each of them every node; the widths are as small as their
order allows (weights and stages inside int64, int64 inside uint64, 2^53 inside int64), and the numbers and sizes tried
lie on both sides of each. A field's type needs two uses in conflict, an attribute lost two
paths of which one is a prefix of the other.

The runs stop when a document is done, hence no check for deadlock; `EventuallyDecided`
and `SettlesOnNewest` state what must happen.

**Fairness.** `RuleGraph` assumes weak fairness of its whole next-state relation: one
sequential program, preempted by nothing, that goes on as long as it can. `FlagdSpec`
assumes the same of the compiler and the clock. No other specification needs any.

## What they show

The properties hold, with four exceptions.

* `NewestStepUsed`. `environment()` leaves out a step that equals the snapshot appended
  last. With a progressive rollout, or after the pruning, that need not be the
  snapshot in force before it, and a scheduled return to the old state can
  disappear. Example of the run: the rollout reaches *on* at 1; steps say *off* at 0 and
  *off* at 2; the step at 2 is taken for a repetition and *on* is
  served for ever. `LoweringPreservesMeaning` says where this cannot happen: no enabled
  step dated up to the end of the rollout, and no two stages on one date.
* `NeverEarly`. flagd dates are cut to seconds, so a step dated inside a second is served up
  to one second early; `EarlyWithinTheSecond` shows that this is all.
* `LosslessIngress`. In a variant or a condition a plain number that cannot be converted is read as
  a string: an integer beyond int64 up to 2^64 - 1 becomes the string of its digits. The safety
  specification wants an error, and an extension gives one (`ExtensionsArriveWhole`).
* `DecimalsInferFloat`. The type of a context field is that of the use met first in two maps. An attribute compared
  with 1 in one rule and with 0.5 in another is int64 or float64, from run to run.
  `FieldsFollowTheirUses` says what does not depend on the order: which fields there are, and their type where
  the author overrides it or all uses agree.

Other things worth knowing, which the properties state: the GO Feature Flag and
flagd verdicts do not depend on map order, though the error reported does; a rule cycle in
rules no flag uses still rejects the document; a rounded rollout may have weights that add
up to 101 and still never shrinks; a torn output file is left after a kill, and a
repeated command repairs it, while a chained command may be fed another
document only if someone else writes the file between them. `MeaningKept` leaves one
case to the target: numeric comparisons and inequalities
of a missing attribute are emitted without a guard. `ContextArrives`: of two paths of which one
is a prefix of the other only the longer arrives, unless the shorter holds a map; and where the caller
left such a map nil, the call panics. The targeting key wins over the field of its path.

Met on the way and not the subject of a run: `docs/compiler-targets.md:17` says that flagd does not support
arrays at the top of a variant, which its compiler accepts; section 7 of
`docs/runtime-safety-test-spec.md` wants nested unsafe integers refused when authored, and only the
GO Feature Flag compiler refuses them. `RefusedForCause` therefore states what the code refuses, which is less than these
documents list, and says so. `docs/ffcodegen.md:198` and `:212` give every rollout and stickiness flag an explicit
`targetingKey` parameter; a flag whose only stickiness is `targetingKey` gets none, because
`flagIRTargetingKeyPaths` (`codegen/compile_ir.go:437`) leaves that path out and `flagIRRequiresTargetingKey` asks whether any path is left. Its
accessor hands over an empty key, and the provider buckets by nothing. The run `accessors` has this flag;
`ContextArrives` states that a key is handed over exactly where there is another path, which is the code's behaviour and not the document's.

## What is proved

The proofs hold for all values of the constants under the named assumptions `RuleAssumption`,
`LoweringAssumption`, `ClockAssumption`, `ConditionAssumption`, `PipelineAssumption`, `DocumentAssumption`, `ParserAssumption`, `TransportAssumption`, `PathAssumption`,
`AccessorAssumption` and `CommandAssumption`, which TLC evaluates in the runs too. They say what an
earlier stage has established or what a value looks like; none bounds a size.

**`RuleGraphProofs`**: `TypeCorrect`, `NoCyclePasses`, `NoUndefinedPasses`, `InliningIsSafe`,
`NoFalseAlarm`, `RejectionHasDefect`. `AcceptedIsAcyclic` alone is not inductive: it says nothing before
the search is over. The invariant says what the colours mean: grey rules are the
stack and the stack is a chain of references; what the loop of a grey rule has passed is
black; black rules mention black rules, and every non-empty set of black rules
has a member that mentions none of the set. The last part is acyclicity without
paths, so no induction over paths is needed: when a rule turns black it is new to
every set, and none of the older ones mentions it. `InliningIsSafe` then
follows from the set of rules on the path, which would be a set where each one is mentioned by another.
A cycle that is reported is the part of the stack above the rule met again; `ErrorsHaveCause`
remembers, for each error joined so far, the defect it was joined for. Together they make the verdict
a function of the document.

**`ScheduleLoweringProofs`**: `LoweringTypeCorrect`, `ScheduleIsCanonical`, `RolloutGrows`, `FailuresAreCaused`,
`RolloutsComplete`, `MeaningPreserved` and `OrderlyFailsForItsSize`, for any environment and any outcome of
the unstable sort. First comes the arithmetic. `GcdIsGreatest`: Euclid's loop returns the greatest common divisor, by
a least second argument for which it would not. So the weights of a stage divided by their divisor are a canonical
distribution (`CanonicalSplit`), rounding and division leave the target's share growing
(`StagesNeverShrink`, `CanonicalStagesNeverShrink`), and the dates of the stages ascend (`StagesComeInOrder`). Then the
invariants, each resting on those before it:

* `IInv`: types, and that what pruning has still to take is not older than what it kept, which
  the choice of an earliest entry preserves.
* `LaidOut`: entry *k* of the schedule is stage *k*, and behind the stages come enabled steps in ascending
  order. So two entries of one date are two stages, or a stage and a step.
* `Pruned`: at the date of every entry taken, what was kept shows (`Shows`) what that entry says,
  unless another of its date disagrees (`Agreed`). An entry that is dropped repeats the one in force; one that is
  kept is newer than all before it. `RolloutCompletes` follows, for the last stage is alone at its date.
* `Covered`: each enabled step is in force at its date in the schedule before sorting, also when it was left out
  as a repetition; this needs that no step comes before the end of the rollout, and
  `NewestStepUsed` is violated where one does. With `Pruned` this is `LoweringPreservesMeaning`, at every instant.
* `Failed`: a failure has its cause. That `ir.Validate` never refuses a pruned schedule rests on
  the canonical weights, that the limit counts distinct snapshots on an injection of what is kept into the source.

`Apart`, the premise of `LoweringPreservesMeaning`, is a condition on the schedule. `OrderlyIsApart` derives it from
one on the document, `Orderly`: the rollout lasts at least as many instants (nanoseconds in the code) as it has stages, and the enabled
steps come after its end.

**`FlagdScheduleProofs`**: `FlagdTypeCorrect`, `EarlyByLessThanASecond`, `FlagdKeepsThePromise` and
`OrderlyKeepsThePromise`, for any environment, number of instants in a second and length of time. The invariant
`Nested` says that guard *i* stands for the *i*-th snapshot from the end, so the first that holds is the newest
whose date has come; whole seconds are compared as instants are with the last instant of
the current second (`SameSecond`). The refinement follows step by step: lowering and wrapping change nothing of the
promise, `Deploy` publishes, a tick is one of the promise when it begins a second and a stutter when not.

**`CompileDocumentProofs`**: `DocumentTypeCorrect`, `BucketsByOneKey`,
`VerdictIsDetermined`, `OutputAccountsForFlags`, for any number of flags, rules and
snapshots. The invariant says at each point of the nested loops what each accumulated key
covers: the rules seen so far agree with `list`, the snapshots left behind with `sched`, the
base with `bucket`; and that every accumulated key is the key of some action, so that
two keys that do not merge are a conflict in the document.

**`ValueTransportProofs`** begins with the parser alone: `ParserTypeCorrect` and `NothingIsIgnored`, for any tree. The argument is a frontier: every
node of the tree is read already, or lies at or below a call still to be made, and of a node that was
read all children are read, skipped on purpose or called for. When no call is
left nothing is ahead of the frontier. On it rest `TransportTypeCorrect`, `NothingIsIgnoredOnTheWay`, `ValuesAlwaysArriveWhole`,
`ExtensionsAlwaysArriveWhole`, `NewerFieldsAreNeverLost`, `RefusedOnlyForCause`. `RolesFit` says that a node
was read in a role that admits its kind; `ValuesFollow` what each stage has made of each node, so that the file's
value at a path is the author's through every form in between; `UnknownFollows` where a newer writer's
field is now. The number of encodings, the widths and the limits are arbitrary. `RefusedOnlyForCause` also
has to carry sizes from the IR back to the tree of the author: what is on its way are whole subtrees with all their siblings
(`DocumentHoldsKin`, `DocumentHoldsParents`), so a node has the neighbours and a namespace the size it was written with
(`SameNeighbours`, `SameSizes`).

**`GeneratedAccessorsProofs`**: `AccessorTypeCorrect`, `StructFollowsConditions`, `FilesAreWhole`,
`CallsCarryTheirContext`. While the maps are ranged over, the fields are the paths read by the environments
already behind (`FieldsAreUses`), each of the type of one of its uses or of an override (`TypesFollow`); this does
not mention the order. A call is described by the writes made so far: they come before those left (`InOrder`), each attribute is the
value of one of them (`Made`), and a write that no later one disturbs is in place (`Arrived`). A longer path sorts behind
its prefix, so a path that nothing extends is disturbed by a key at most.

**`CommandsProofs`**: `CommandTypeCorrect`, `SuccessLeavesWholeFiles`, `ChainsKeepDocuments`, `FailuresLeaveOutput`, for
any number of commands, any makefile and any number of troubles. A file with one writer
is, while that command has it open, exactly the blocks before its offset (`OpenIsPrefix`), whatever was there before; a
command that writes its output has a document its target takes; and a command that is done
never runs again, so the file another one reads after it stays.

**`ConditionPipelineProofs`**: `PipelineTypeCorrect`, `PipelineKeepsMeaning`, `RulesAreNormal`,
`RejectionsHaveCause` and `VerdictsMatchMatrix`, for any list of rules, conditions nested to any `MaxHeight` and
any limits `MaxDepth`, `MaxChildren` and `RulesMax`. It has three parts.

* *Recursion.* The functions of `Conditions` are recursive, so that each satisfies its own equation has to be shown
  first. `RankedRecursion` does so for any recursion that looks at elements of smaller rank only; the rank of a tree is
  its height, the first level of `Trees` it is in (`TreeRecursion`, `TreeInduction`). Most are easy, because they
  look at the parts of a node. `simplify` is not: below a negation it simplifies what it has just simplified.
  `SimplifyStays` bounds the result by the height of the condition, and `UnderNegation` then finds
  the operand of a doubled negation low enough. `Compiled` grows: three levels for one of an authored condition.
* *One condition.* `SimplifyingIsFaithful`, `LoweringIsFaithful` and `CompilingIsFaithful` follow the meaning through the stages, and
  `SimplifiedIsNormal`, `RejectedForCause` and `MatrixIsTrue` give the shape and the verdicts. No stage invents operands: those of a simplified or
lowered condition are among the author's (`LoweringAddsNoOperands`), so a leaf at fault is one that was written. The cases that take work are flattening
  (`FlattenedMeans`: an all holds when all that is flattened into it does), the evaluator's counting of children
  (`EvaluateGroups`), a comparison turned around (`MirrorTurns`) and the clauses for exactly one of *n*
  (`ExactlyOneMeans`).
* *The list.* `PipelineInv`: the rules kept, followed by those not yet looked at, choose the author's action
  (`ChoiceKept`). For an entry that is dropped or kept this is `OneRuleOn`, on a list with a rule in the place of another; a rule that
  always matches makes what is behind it irrelevant (`RuleDecides`). `StillOpen` says that while the loop
  over a base list goes on, no rule kept always matches, which `NormalForm` needs to be inductive. `AllLowered` and
  `TurnedDown` remember why a list was turned down, `InStep` that what is compiled is the
  translation of the last rules for flagd, of the first for GO Feature Flag, and `Settled` how compilation ended.

`MeaningKept` claims the choice of a target only where `Determined`: what a native comparison makes of a missing attribute is
the target's. The proof shows it of the expression under `Evaluate`, whatever the context.

**Only model-checked.** Liveness (`EventuallyDecided`, `SettlesOnNewest`), which is out of the
prover's reach. Every invariant of a passing run is a theorem.

## What is not modelled

* `internal/runtimeidentity`, `internal/capability/value.go` and `internal/validate/normalized.go`:
  tables and stateless checks that no command reaches; tests compare them with the runtimes.
* Of the parser: only the first document of a YAML stream is read, as in the code. Unusual spellings of a boolean
  that `strconv.ParseBool` takes are not among the scalars; an explicitly tagged scalar counts as a quoted one.
  `nodeToAny` is called by nothing.
* Limits outside rules, conditions, schedules, variants and extensions: the keys of flags, names of
  environments, numbers of flags. Within a leaf of a condition, which limit its operands break. UTF-8 validity. `ValidateExtension`,
  an entry for owners of extensions.
* The errors of `relativeWeights` and of an unknown action in `ir/normalize.go:209-236`: authoring validation rules them out.
* Reading normalized YAML written by hand: no command has it as an input.
* The spelling of generated identifiers and literals, two names that `toExportedName` makes
  equal, attribute paths joined with dots, and the configuration file of `ffcodegen`.
* The JSON logic and the queries as texts; semantic versions, string operators and collections in conditions are one kind of
  opaque leaf.
* What flagd and GO Feature Flag do with a file, beyond the operators the compilers rely on. How GO Feature Flag
  merges a scheduled step over the flag is its own code, so whether a step without
  targeting clears the rules before it is not decided here. Nor is what a caller of the generated
  code does to the map it put into a context, which `setPath` writes into.
* The generated protobuf code and the examples.

## Plan

Done, in this order: rule references; schedule lowering and flagd; conditions; the document loop;
commands; the parser and the transport of values; code generation; proofs for all of them.
Next:

1. The schedule on GO Feature Flag under an external model of its merge, should its behaviour be fixed by a test.
2. Validation of actions and distributions (`validate.go:39-162`) and the evidence matrix of `internal/runtimeidentity`.
