------------------------- MODULE GeneratedAccessors -------------------------
(***************************************************************************)
(* internal/codegen: an IR document becomes a Go package with a context    *)
(* struct, one field per attribute a condition reads, and one accessor per *)
(* flag.  Flags and environments are Go maps, visited in any order.  The   *)
(* second half is the generated code at work: an accessor lays the fields  *)
(* of the struct out as nested attributes, mirrors the targeting key into  *)
(* the paths other than targetingKey that its flag buckets by, and calls   *)
(* the provider.                                                           *)
(*                                                                         *)
(* A path is a sequence of segments.  A condition is the sequence of its   *)
(* leaves other than constants, in the order they are visited.             *)
(***************************************************************************)
EXTENDS Integers, Sequences, FiniteSets, Functions

CONSTANTS
  Documents,  \* valid IR documents: flag -> [variants: name -> kind,
              \*   environments: name -> evaluations, the base first]
  Configs,    \* [defaults, overrides, fallbacks, infer]
  PathOrder   \* every path, in the order of their dotted strings

KeyPath == <<"targetingKey">>
Extends(p, q) == Len(q) < Len(p) /\ SubSeq(p, 1, Len(q)) = q

IsList(s) == s \in Seq(Range(s))
Paths == Range(PathOrder)
Place(p) == CHOOSE i \in DOMAIN PathOrder : PathOrder[i] = p

(* "user" sorts before "user.id".                                          *)
ASSUME PathAssumption ==
  /\ IsList(PathOrder)
  /\ \A i, j \in DOMAIN PathOrder :
       /\ IsList(PathOrder[i]) /\ PathOrder[i] # <<>>
       /\ PathOrder[i] = PathOrder[j] => i = j
       /\ Extends(PathOrder[i], PathOrder[j]) => j < i

(* What the IR gives a compiler; <<>> is no path.                          *)
IsEvaluation(evaluation) ==
  /\ evaluation.default.key \in Paths \cup {<<>>}
  /\ IsList(evaluation.rules)
  /\ \A i \in DOMAIN evaluation.rules :
       /\ evaluation.rules[i].action.key \in Paths \cup {<<>>}
       /\ IsList(evaluation.rules[i].condition)
       /\ \A j \in DOMAIN evaluation.rules[i].condition :
            evaluation.rules[i].condition[j].path \in Paths

ASSUME AccessorAssumption ==
  /\ \A d \in Documents : \A f \in DOMAIN d : \A e \in DOMAIN d[f].environments :
       /\ IsList(d[f].environments[e])
       /\ \A k \in DOMAIN d[f].environments[e] : IsEvaluation(d[f].environments[e][k])
  /\ \A c \in Configs :
       /\ IsList(c.overrides)
       /\ \A i \in DOMAIN c.overrides : c.overrides[i].path \in Paths \cup {<<>>}

-----------------------------------------------------------------------------
(* Types of fields                                                         *)

FieldTypes == {"string", "bool", "int", "int64", "float64", "[]string", "[]bool", "[]int",
               "[]int64", "[]float64", "[]any", "map[string]any"}

(* Mutant of FieldType: an unknown type goes into the file as it is.       *)
TypeAsGiven(t) == t

(* normalizeFieldType: what Go has no name for is a string.                *)
FieldType(t) == IF t \in FieldTypes THEN t ELSE "string"

ScalarType == [bool |-> "bool", int |-> "int64", double |-> "float64", string |-> "string",
               null |-> "any"]
SliceType == [bool |-> "[]bool", int |-> "[]int64", double |-> "[]float64",
              string |-> "[]string", null |-> "[]any"]

(* collectIRContextFieldsFromCondition on one leaf.                        *)
Inferred(leaf) ==
  CASE leaf.form = "contains" -> SliceType[leaf.literals[1]]
    [] leaf.form \in {"match", "semver"} -> "string"
    [] leaf.form = "presence" -> "any"
    [] OTHER -> ScalarType[leaf.literals[1]]

DefaultKey == [t \in {"string", "bool", "int64", "float64"} |->
                 CASE t = "int64" -> "int" [] t = "float64" -> "float" [] OTHER -> t]
SliceKey == [t \in {"[]string", "[]bool", "[]int64", "[]float64", "[]any"} |->
               CASE t = "[]string" -> "string" [] t = "[]bool" -> "bool"
                 [] t = "[]int64" -> "int" [] t = "[]float64" -> "float" [] OTHER -> "any"]

(* applyContextDefaults                                                    *)
WithDefaults(t, defaults) ==
  IF t \in DOMAIN DefaultKey /\ DefaultKey[t] \in DOMAIN defaults.scalars
  THEN defaults.scalars[DefaultKey[t]]
  ELSE IF t \in DOMAIN SliceKey /\ SliceKey[t] \in DOMAIN defaults.slices
       THEN defaults.slices[SliceKey[t]]
       ELSE t

(* validateContextDefaults                                                 *)
ValidDefaults(defaults) ==
  /\ DOMAIN defaults.scalars \subseteq Range(DefaultKey)
  /\ DOMAIN defaults.slices \subseteq Range(SliceKey)
  /\ Range(defaults.scalars) \cup Range(defaults.slices) \subseteq FieldTypes

-----------------------------------------------------------------------------
(* What a flag needs                                                       *)

Evaluations(flag) == UNION {Range(flag.environments[e]) : e \in DOMAIN flag.environments}
Actions(evaluation) ==
  {evaluation.default} \cup {evaluation.rules[i].action : i \in DOMAIN evaluation.rules}

(* flagIRUsesContext                                                       *)
UsesContext(flag) ==
  \E evaluation \in Evaluations(flag) :
    \E i \in DOMAIN evaluation.rules : evaluation.rules[i].condition # <<>>

(* Mutant of TargetingKeyPaths: scheduled evaluations are not looked at.   *)
BaseKeyPaths(flag) ==
  {a.key : a \in UNION {Actions(flag.environments[e][1]) : e \in DOMAIN flag.environments}}
    \ {<<>>, KeyPath}

(* flagIRTargetingKeyPaths; a serve action has no key, and targetingKey    *)
(* itself is left out.                                                     *)
TargetingKeyPaths(flag) ==
  {a.key : a \in UNION {Actions(evaluation) : evaluation \in Evaluations(flag)}}
    \ {<<>>, KeyPath}

Requires(flag) == TargetingKeyPaths(flag) # {}

Base(flag, e) == flag.environments[e][1].default

(* inferredLegacyAccessor: what every environment serves by default.       *)
InferredFallback(flag) ==
  LET first == CHOOSE e \in DOMAIN flag.environments : TRUE
  IN IF \A e \in DOMAIN flag.environments : Base(flag, e).serve = Base(flag, first).serve
     THEN Base(flag, first).serve ELSE "none"

KindOf(flag) == flag.variants[CHOOSE v \in DOMAIN flag.variants : TRUE]

-----------------------------------------------------------------------------
VARIABLES
  document, config,
  phase,      \* "fields", "flags", "generated", "call", "sent", and the ends
              \* "rejected", "missing_key", "panicked"
  flagsLeft,  \* flags that the loop in progress has not visited
  envsLeft,   \* environments of the flag being visited
  overridden, \* how many overrides have been applied
  fields,     \* path -> type
  accessors,  \* flag -> [kind, fallback, usesContext, keyPaths]
  call,       \* the flag of the call under way
  writes,     \* attributes still to be set, with their values
  attributes, \* path -> value; a value is known by the path of its field
  targeted    \* whether EvaluationContext.TargetingKey is set

gen == <<document, config, flagsLeft, envsLeft, overridden, fields, accessors>>
run == <<call, writes, attributes, targeted>>
vars == <<gen, phase, run>>

Init ==
  /\ document \in Documents
  /\ config \in Configs
  /\ phase = IF ValidDefaults(config.defaults) THEN "fields" ELSE "rejected"
  /\ flagsLeft = DOMAIN document
  /\ envsLeft = {}
  /\ overridden = 0
  /\ fields = <<>>
  /\ accessors = <<>>
  /\ call = "none"
  /\ writes = {}
  /\ attributes = <<>>
  /\ targeted = FALSE

-----------------------------------------------------------------------------
(* collectIRContextFields                                                  *)

VisitFlag(f) ==
  /\ phase = "fields"
  /\ envsLeft = {}
  /\ f \in flagsLeft
  /\ flagsLeft' = flagsLeft \ {f}
  /\ envsLeft' = {<<f, e>> : e \in DOMAIN document[f].environments}
  /\ UNCHANGED <<document, config, phase, overridden, fields, accessors, run>>

(* Where the leaves of an environment are: evaluation, rule, leaf.         *)
Places(evaluations) ==
  UNION {UNION {{<<k, i, j>> : j \in DOMAIN evaluations[k].rules[i].condition} :
                  i \in DOMAIN evaluations[k].rules} : k \in DOMAIN evaluations}
LeafAt(evaluations, at) == evaluations[at[1]].rules[at[2]].condition[at[3]]
Before(a, b) ==
  \/ a[1] < b[1]
  \/ a[1] = b[1] /\ a[2] < b[2]
  \/ a[1] = b[1] /\ a[2] = b[2] /\ a[3] <= b[3]

(* The first leaf that reads path.                                         *)
FirstUse(evaluations, path) ==
  LET uses == {at \in Places(evaluations) : LeafAt(evaluations, at).path = path}
  IN LeafAt(evaluations, CHOOSE at \in uses : \A other \in uses : Before(at, other))

(* Mutant of VisitEnvironment: the schedule is left out.                   *)
VisitBase(f, e) ==
  /\ phase = "fields"
  /\ <<f, e>> \in envsLeft
  /\ envsLeft' = envsLeft \ {<<f, e>>}
  /\ LET evaluations == SubSeq(document[f].environments[e], 1, 1)
         read == {LeafAt(evaluations, at).path : at \in Places(evaluations)}
     IN fields' = [p \in DOMAIN fields \cup read |->
                     IF p \in DOMAIN fields THEN fields[p]
                     ELSE FieldType(WithDefaults(Inferred(FirstUse(evaluations, p)),
                                                 config.defaults))]
  /\ UNCHANGED <<document, config, phase, flagsLeft, overridden, accessors, run>>

(* A path already known keeps the type of the use met first.               *)
VisitEnvironment(f, e) ==
  /\ phase = "fields"
  /\ <<f, e>> \in envsLeft
  /\ envsLeft' = envsLeft \ {<<f, e>>}
  /\ LET evaluations == document[f].environments[e]
         read == {LeafAt(evaluations, at).path : at \in Places(evaluations)}
     IN fields' = [p \in DOMAIN fields \cup read |->
                     IF p \in DOMAIN fields THEN fields[p]
                     ELSE FieldType(WithDefaults(Inferred(FirstUse(evaluations, p)),
                                                 config.defaults))]
  /\ UNCHANGED <<document, config, phase, flagsLeft, overridden, accessors, run>>

(* Mutant of OverriddenType: the type inferred from the conditions stays.  *)
TypeMetFirst(o) == IF o.path \in DOMAIN fields THEN fields[o.path] ELSE FieldType(o.type)

OverriddenType(o) ==
  IF o.type # "none" THEN o.type
  ELSE IF o.path \in DOMAIN fields THEN fields[o.path] ELSE "string"

Override ==
  /\ phase = "fields"
  /\ flagsLeft = {} /\ envsLeft = {}
  /\ overridden < Len(config.overrides)
  /\ LET o == config.overrides[overridden + 1]
     IN IF o.path = <<>> \/ (o.type # "none" /\ o.type \notin FieldTypes)
        THEN phase' = "rejected" /\ UNCHANGED <<fields, overridden>>
        ELSE /\ fields' = [p \in DOMAIN fields \cup {o.path} |->
                             IF p = o.path THEN OverriddenType(o) ELSE fields[p]]
             /\ overridden' = overridden + 1
             /\ UNCHANGED phase
  /\ UNCHANGED <<document, config, flagsLeft, envsLeft, accessors, run>>

FieldsDone ==
  /\ phase = "fields"
  /\ flagsLeft = {} /\ envsLeft = {}
  /\ overridden = Len(config.overrides)
  /\ phase' = "flags"
  /\ flagsLeft' = DOMAIN document
  /\ UNCHANGED <<document, config, envsLeft, overridden, fields, accessors, run>>

(* compileIRFlag                                                           *)
Fallback(f) == IF config.infer THEN InferredFallback(document[f]) ELSE config.fallbacks[f]

CompileFlag(f) ==
  /\ phase = "flags"
  /\ f \in flagsLeft
  /\ IF KindOf(document[f]) = "null" \/ Fallback(f) \notin DOMAIN document[f].variants
     THEN phase' = "rejected" /\ UNCHANGED <<flagsLeft, accessors>>
     ELSE /\ flagsLeft' = flagsLeft \ {f}
          /\ accessors' = [g \in DOMAIN accessors \cup {f} |->
               IF g # f THEN accessors[g]
               ELSE [kind |-> KindOf(document[f]), fallback |-> Fallback(f),
                     usesContext |-> UsesContext(document[f]),
                     keyPaths |-> TargetingKeyPaths(document[f])]]
          /\ UNCHANGED phase
  /\ UNCHANGED <<document, config, envsLeft, overridden, fields, run>>

Generate ==
  /\ phase = "flags"
  /\ flagsLeft = {}
  /\ phase' = "generated"
  /\ UNCHANGED <<gen, run>>

-----------------------------------------------------------------------------
(* What the template writes, and what it needs.                            *)

Collections == {"object", "list"}
SomeRequires == \E f \in DOMAIN accessors : accessors[f].keyPaths # {}
SomeCollection == \E f \in DOMAIN accessors : accessors[f].kind \in Collections

(* Mutant of HasErrors: only collections wrap an error.                    *)
HasCollectionErrors == SomeCollection
HasErrors ==
  \E f \in DOMAIN accessors : accessors[f].keyPaths # {} \/ accessors[f].kind \in Collections
HasContextFields == DOMAIN fields # {}
HasAttributePaths == HasContextFields \/ SomeRequires

Imports ==
  {"context"}
    \cup (IF HasErrors THEN {"errors"} ELSE {})
    \cup (IF SomeRequires \/ SomeCollection THEN {"fmt"} ELSE {})
    \cup (IF HasAttributePaths THEN {"strings"} ELSE {})

Declared ==
  (IF HasContextFields THEN {"EvalContext", "setPath"} ELSE {})
    \cup (IF HasAttributePaths /\ ~ HasContextFields THEN {"setPath"} ELSE {})
    \cup (IF SomeRequires
          THEN {"ErrMissingTargetingKey", "withTargetingKeyAttributes"} ELSE {})
    \cup (IF SomeCollection
          THEN {"ErrInvalidObjectValue", "ErrInvalidListValue", "asObjectValue", "asListValue"}
          ELSE {})

-----------------------------------------------------------------------------
(* A call of a generated accessor                                          *)

(* The value of the targeting key; that of a field is known by its path.   *)
Key == <<>>

(* toAttributes: one setPath per field of the struct.                      *)
FieldWrites == {[path |-> p, from |-> p] : p \in DOMAIN fields}

(* withTargetingKeyAttributes                                              *)
KeyWrites(f) == {[path |-> p, from |-> Key] : p \in accessors[f].keyPaths}

(* Mutant of ComesBefore: paths in no order of their own.                  *)
ComesBeforeUnsorted(v, w) ==
  IF (v.from = Key) = (w.from = Key) THEN Place(v.path) > Place(w.path) ELSE w.from = Key

(* The struct and the key paths are sorted; the keys come after the struct.*)
ComesBefore(v, w) ==
  IF (v.from = Key) = (w.from = Key) THEN Place(v.path) < Place(w.path) ELSE w.from = Key

(* targetingGuard and attrsSetup; an accessor without key paths takes no   *)
(* targeting key.                                                          *)
Call(f, keyGiven) ==
  /\ phase = "generated"
  /\ call' = f
  /\ IF accessors[f].keyPaths # {} /\ ~ keyGiven
     THEN phase' = "missing_key" /\ UNCHANGED <<writes, targeted>>
     ELSE /\ phase' = "call"
          /\ targeted' = (accessors[f].keyPaths # {})
          /\ writes' = (IF accessors[f].usesContext THEN FieldWrites ELSE {}) \cup KeyWrites(f)
  /\ UNCHANGED <<gen, attributes>>

(* The values that are maps: fields of the caller's of that type.          *)
IsMap(p) == attributes[p] \in DOMAIN fields /\ fields[attributes[p]] = "map[string]any"

(* Mutant of InTheWay: every value above a path is taken for a map.        *)
NothingInTheWay(path) == {}

(* setPath puts a new map where it finds no map on its way down.           *)
InTheWay(path) == {p \in DOMAIN attributes : Extends(path, p) /\ ~ IsMap(p)}

(* A map of the caller's that the path leads through may be nil.           *)
Through(path) == {p \in DOMAIN attributes : Extends(path, p)} \ InTheWay(path)

(* Lost when the path itself gets a value.                                 *)
Under(path) == {p \in DOMAIN attributes : Extends(p, path)}

SetPath(w, nil) ==
  /\ phase = "call"
  /\ w \in writes
  /\ \A v \in writes \ {w} : ComesBefore(w, v)
  /\ IF nil /\ Through(w.path) # {}
     THEN phase' = "panicked" /\ UNCHANGED <<attributes, writes>>
     ELSE /\ attributes' =
               [p \in (DOMAIN attributes \ (InTheWay(w.path) \cup Under(w.path)))
                         \cup {w.path} |->
                  IF p = w.path THEN w.from ELSE attributes[p]]
          /\ writes' = writes \ {w}
          /\ UNCHANGED phase
  /\ UNCHANGED <<gen, call, targeted>>

Send ==
  /\ phase = "call"
  /\ writes = {}
  /\ phase' = "sent"
  /\ UNCHANGED <<gen, run>>

Next ==
  \/ \E f \in flagsLeft : VisitFlag(f) \/ CompileFlag(f)
  \/ \E fe \in envsLeft : VisitEnvironment(fe[1], fe[2])
  \/ Override \/ FieldsDone \/ Generate
  \/ \E f \in DOMAIN accessors, keyGiven \in BOOLEAN : Call(f, keyGiven)
  \/ \E w \in writes, nil \in BOOLEAN : SetPath(w, nil)
  \/ Send

Spec == Init /\ [][Next]_vars

-----------------------------------------------------------------------------
(* Properties                                                              *)

Done == phase \in {"generated", "call", "sent", "missing_key", "panicked"}

Leaves(flag) ==
  UNION {{LeafAt(flag.environments[e], at) : at \in Places(flag.environments[e])} :
           e \in DOMAIN flag.environments}
AllLeaves == UNION {Leaves(document[f]) : f \in DOMAIN document}
Overridden == {o.path : o \in Range(config.overrides)}

TypeOK ==
  /\ document \in Documents /\ config \in Configs
  /\ phase \in {"fields", "flags", "generated", "call", "sent", "rejected", "missing_key",
                "panicked"}
  /\ DOMAIN fields \subseteq Paths
  /\ Range(fields) \subseteq FieldTypes
  /\ DOMAIN accessors \subseteq DOMAIN document
  /\ DOMAIN attributes \subseteq Paths
  /\ targeted \in BOOLEAN

(* The context struct has a field for every attribute that a condition of  *)
(* any flag reads in any environment, now or once a scheduled evaluation   *)
(* takes over, and for every override; it has no other.  The type of a     *)
(* field does not hang on the order in which Go visits its maps: where the *)
(* author overrides it, it is the override; where all uses of an attribute *)
(* ask for one type, it is that type.                                      *)
FieldsFollowTheirUses ==
  Done =>
    /\ DOMAIN fields = {leaf.path : leaf \in AllLeaves} \cup Overridden
    /\ \A p \in DOMAIN fields :
         LET chosen ==
               {o.type : o \in {x \in Range(config.overrides) : x.path = p /\ x.type # "none"}}
             asked == {FieldType(WithDefaults(Inferred(leaf), config.defaults)) :
                         leaf \in {x \in AllLeaves : x.path = p}}
         IN /\ Cardinality(chosen) = 1 => fields[p] \in chosen
            /\ chosen = {} /\ Cardinality(asked) = 1 => fields[p] \in asked

(* Whatever mix of flags a document has, the generated file uses exactly   *)
(* the packages it imports, and declares what its accessors refer to.      *)
UsedPackages ==
  {"context"}
    \cup (IF "ErrMissingTargetingKey" \in Declared \/ "ErrInvalidObjectValue" \in Declared
          THEN {"errors"} ELSE {})
    \cup (IF SomeRequires \/ "asObjectValue" \in Declared THEN {"fmt"} ELSE {})
    \cup (IF "setPath" \in Declared THEN {"strings"} ELSE {})
UsedNames ==
  UNION {(IF accessors[f].usesContext THEN {"EvalContext", "setPath"} ELSE {})
           \cup (IF accessors[f].keyPaths # {}
                 THEN {"withTargetingKeyAttributes", "ErrMissingTargetingKey", "setPath"}
                 ELSE {})
           \cup (IF accessors[f].kind = "object" THEN {"asObjectValue"} ELSE {})
           \cup (IF accessors[f].kind = "list" THEN {"asListValue"} ELSE {}) :
         f \in DOMAIN accessors}
GeneratedFileIsWhole == Done => Imports = UsedPackages /\ UsedNames \subseteq Declared

Longest(p) == \A q \in DOMAIN fields \cup accessors[call].keyPaths : ~ Extends(q, p)

(* What the provider gets.  Each attribute that a condition of the flag    *)
(* reads arrives as the caller's field, unless it lies above or below      *)
(* another path; then the longer path wins, and the key wins over both.    *)
(* docs/ffcodegen.md: the targeting key is mirrored "into that attribute   *)
(* path"; so it is for every path other than targetingKey that an action   *)
(* of the flag buckets by, in any environment, now or later, and exactly   *)
(* where there is such a path the provider gets a targeting key as well.   *)
(* A flag that buckets by targetingKey alone is thus called without any    *)
(* key: the code does so, though docs/ffcodegen.md:212 has every rollout   *)
(* and stickiness take one.  Nothing is sent, because the call panics,     *)
(* only where a path leads through a field that is a map and that the      *)
(* caller left nil.                                                        *)
ContextArrives ==
  /\ phase = "sent" =>
       /\ \A p \in {leaf.path : leaf \in Leaves(document[call])} :
            /\ Longest(p)
            /\ \A q \in accessors[call].keyPaths : q # p /\ ~ Extends(p, q)
            => p \in DOMAIN attributes /\ attributes[p] = p
       /\ \A p \in UNION {{a.key : a \in Actions(x)} : x \in Evaluations(document[call])} :
            p \notin {<<>>, KeyPath} /\ Longest(p) =>
              p \in DOMAIN attributes /\ attributes[p] = Key
       /\ targeted <=> \E x \in Evaluations(document[call]) : \E a \in Actions(x) :
                         a.key \notin {<<>>, KeyPath}
  /\ phase = "panicked" =>
       \E p \in DOMAIN fields : fields[p] = "map[string]any" /\ ~ Longest(p)

(* docs/ffcodegen.md: "decimal comparisons and equality infer `float64`".  *)
DecimalsInferFloat ==
  Done /\ config.defaults.scalars = <<>> =>
    \A leaf \in AllLeaves :
      /\ leaf.form \in {"comparison", "equality"}
      /\ leaf.literals[1] = "double"
      /\ leaf.path \notin Overridden
      => fields[leaf.path] = "float64"
=============================================================================
