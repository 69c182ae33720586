--------------------------- MODULE AuthoringParser ---------------------------
(***************************************************************************)
(* internal/authoring: a YAML tree is read into an authoring document by   *)
(* recursive descent, one function per kind of node.  validateYAMLTree     *)
(* walks the whole tree first; then each function reads the nodes its      *)
(* grammar names, and the first error ends the parse.                      *)
(*                                                                         *)
(* A tree is a function from paths to nodes; a path is the sequence of the *)
(* keys and indexes that lead to the node, as in the code's messages.  A   *)
(* mapping or a sequence lists its kids; a scalar has a lexical form and a *)
(* number that tells one text of that form from another.  What a function  *)
(* of the parser expects to find is called a role.                         *)
(***************************************************************************)
EXTENDS Integers, Sequences, FiniteSets, Functions

CONSTANTS
  Sources,     \* the YAML trees; kids are listed in the order of sortedKeys
  ComplexKey,  \* stands for a key that is no scalar
  IntMax,      \* 2^63 - 1 in the code
  UintMax,     \* 2^64 - 1: what yaml.v3 takes for an integer
  WeightMax,   \* 2^32 - 1
  StagesMax    \* 1024

Below(p, k) == Append(p, k)
Parent(p) == SubSeq(p, 1, Len(p) - 1)

(* A tree has a root, and the kids of a node are the nodes below it.       *)
IsTree(t) ==
  /\ <<>> \in DOMAIN t
  /\ \A p \in DOMAIN t :
       /\ p \in Seq(Range(p))
       /\ t[p].kind \in {"map", "seq", "scalar", "alias", "custom"}
       /\ t[p].kind = "scalar" => t[p].n \in Int
       /\ t[p].kind \in {"map", "seq"} =>
            /\ t[p].kids \in Seq(Range(t[p].kids))
            /\ \A i \in DOMAIN t[p].kids :
                 IF t[p].kids[i] = ComplexKey THEN t[p].kind = "map"
                 ELSE Below(p, t[p].kids[i]) \in DOMAIN t
       /\ p # <<>> => /\ Parent(p) \in DOMAIN t
                      /\ t[Parent(p)].kind \in {"map", "seq"}
                      /\ p[Len(p)] \in Range(t[Parent(p)].kids)

ASSUME ParserAssumption ==
  /\ IntMax \in Nat /\ UintMax \in Nat /\ WeightMax \in Nat /\ StagesMax \in Nat
  /\ \A t \in Sources : IsTree(t)

-----------------------------------------------------------------------------
(* The grammar: the fields of each strict mapping in the order they are    *)
(* read, with the role of their values.                                    *)

DocumentFields ==
  << <<"version", "text">>, <<"variant_sets", "variant_sets">>, <<"rules", "conditions">>,
     <<"distributions", "distributions">>, <<"extensions", "extensions">>,
     <<"flags", "flags">> >>
DistributionFields == << <<"stickiness", "text">>, <<"weights", "weights">> >>
FlagFields ==
  << <<"key", "text">>, <<"variant_set", "text">>, <<"default_variant", "text">>,
     <<"extensions", "extensions">>, <<"environments", "environments">> >>
EnvironmentFields ==
  << <<"serve", "text">>, <<"rules", "entries">>, <<"default_action", "action">>,
     <<"scheduled_rollouts", "steps">>, <<"extensions", "extensions">> >>
ActionFields ==
  << <<"serve", "text">>, <<"distribute", "text">>, <<"progressive_rollout", "rollout">> >>
EntryFields ==
  << <<"if", "condition">>, <<"serve", "text">>, <<"distribute", "text">>,
     <<"progressive_rollout", "rollout">> >>
RolloutFields ==
  << <<"variant", "text">>, <<"stickiness", "text">>, <<"start", "text">>,
     <<"end", "text">>, <<"steps", "stages">> >>
StepFields ==
  << <<"name", "text">>, <<"description", "text">>, <<"disabled", "bool">>,
     <<"date", "text">>, <<"rules", "entries">>, <<"default_action", "action">> >>

Strict == [document |-> DocumentFields, distribution |-> DistributionFields,
           flag |-> FlagFields, environment |-> EnvironmentFields, entry |-> EntryFields,
           action |-> ActionFields, rollout |-> RolloutFields, step |-> StepFields]

(* Mappings of one key, which says how its value is read.                  *)
Operators ==
  [o \in {"rule", "literal_bool", "not", "all_of", "any_of", "one_of", "eq", "ne", "gt", "gte",
          "lt", "lte", "in", "contains", "string_contains", "starts_with", "ends_with",
          "semver_gt", "semver_gte", "semver_lt", "semver_lte"} |->
   CASE o = "rule" -> "text"
     [] o = "literal_bool" -> "bool"
     [] o = "not" -> "condition"
     [] o \in {"all_of", "any_of", "one_of"} -> "condition_list"
     [] o \in {"eq", "ne", "gt", "gte", "lt", "lte", "in", "contains"} -> "operands"
     [] OTHER -> "value_and_text"]
Choices == [condition |-> Operators, value |-> [var |-> "text"]]

(* Mappings whose keys are the author's own.                               *)
Open == [r \in {"variant_sets", "conditions", "distributions", "variant_set", "weights",
                "environments", "extensions", "variant", "extension"} |->
  CASE r = "variant_sets" -> "variant_set" [] r = "variant_set" -> "variant"
    [] r = "conditions" -> "condition" [] r = "distributions" -> "distribution"
    [] r = "weights" -> "weight" [] r = "environments" -> "environment"
    [] r = "extensions" -> "extension" [] OTHER -> r]

Lists == [r \in {"flags", "entries", "steps", "condition_list", "value", "variant",
                 "extension"} |->
  CASE r = "flags" -> "flag" [] r = "entries" -> "entry" [] r = "steps" -> "step"
    [] r = "condition_list" -> "condition" [] OTHER -> r]

Pairs == [r \in {"operands", "value_and_text"} |->
  IF r = "operands" THEN <<"value", "value">> ELSE <<"value", "text">>]

Free == {"value", "variant", "extension"}   \* roles that take any kind of node
Texts == {"text", "bool", "weight", "stages"}
Roles == DOMAIN Strict \cup DOMAIN Choices \cup DOMAIN Open \cup DOMAIN Lists \cup DOMAIN Pairs \cup Texts

FieldNames(role) == {f[1] : f \in Range(Strict[role])}
ActionKinds == {f[1] : f \in Range(ActionFields)}

-----------------------------------------------------------------------------
(* Scalars.  The forms: null, ~ (also the empty text), true or false, a    *)
(* JSON integer, one with leading zeros, hexadecimal and the like, a JSON  *)
(* decimal, one beyond float64, another float of YAML (.inf), other text.  *)
ScalarForms == {"null", "tilde", "bool", "int", "padded", "hex", "float", "huge_float",
                "other_float", "text"}

InInt64(n) == -IntMax - 1 <= n /\ n <= IntMax

(* What yaml.v3 tags !!float: integers beyond 64 bits too.                 *)
TaggedFloat(s) ==
  s.plain /\ \/ s.form \in {"float", "other_float"}
             \/ s.form = "int" /\ (s.n > UintMax \/ s.n < -IntMax - 1)

(* validateYAMLTree on one node; a core tag written out (!!int 5) is not   *)
(* told from a quoted scalar.                                              *)
Admitted(node) ==
  /\ node.kind \notin {"alias", "custom"}
  /\ node.kind = "scalar" => (TaggedFloat(node) => node.form = "float")

(* parseScalarValue, and parseScalarVariantValue: what is no null, boolean *)
(* or number in the code's grammar is a string, and so is a number whose   *)
(* conversion fails.                                                       *)
Scalar(s) ==
  [n |-> s.n,
   kind |-> IF ~ s.plain THEN "string"
            ELSE CASE s.form = "null" -> "null"
                   [] s.form = "bool" -> "bool"
                   [] s.form = "int" /\ InInt64(s.n) -> "int"
                   [] s.form = "float" -> "double"
                   [] OTHER -> "string"]

Digits(s) == s.form \in {"int", "padded"}

(* Mutant of ReadableScalar: an extension falls back to strings.           *)
ReadableAsString(s, role) ==
  CASE role = "bool" -> s.form = "bool" \/ (s.form = "int" /\ s.n \in {0, 1})
    [] role = "weight" -> Digits(s) /\ 0 < s.n /\ s.n <= WeightMax
    [] role = "stages" -> Digits(s) /\ 1 <= s.n /\ s.n <= StagesMax
    [] OTHER -> role \in Texts \cup Free

(* scalarString, scalarBool, scalarUint32 and scalarInt look at the text   *)
(* alone, quoted or not; an extension refuses numbers it cannot keep.      *)
ReadableScalar(s, role) ==
  CASE role = "bool" -> s.form = "bool" \/ (s.form = "int" /\ s.n \in {0, 1})
    [] role = "weight" -> Digits(s) /\ 0 < s.n /\ s.n <= WeightMax
    [] role = "stages" -> Digits(s) /\ 1 <= s.n /\ s.n <= StagesMax
    [] role = "extension" ->
         s.plain => s.form # "huge_float" /\ (s.form = "int" => InInt64(s.n))
    [] OTHER -> role \in Texts \cup Free

MadeOf(node, role) ==
  CASE node.kind = "map" /\ role \in Free -> [kind |-> "object", n |-> 0]
    [] node.kind = "seq" /\ role \in Free -> [kind |-> "list", n |-> 0]
    [] node.kind = "scalar" /\ role \in Free -> Scalar(node)
    [] node.kind = "scalar" /\ role \notin Free -> [kind |-> role, n |-> node.n]
    [] OTHER -> [kind |-> "message", n |-> 0]

-----------------------------------------------------------------------------
(* Mappings and sequences                                                  *)

(* mapping: every key is a scalar and occurs once.                         *)
Mapping(node) ==
  /\ ComplexKey \notin Range(node.kids)
  /\ \A i, j \in DOMAIN node.kids : node.kids[i] = node.kids[j] => i = j

(* Mutant of Consistent: an action may have several kinds.                 *)
ConsistentMostly(role, keys) ==
  /\ keys \subseteq FieldNames(role)
  /\ role = "document" => "flags" \in keys
  /\ role = "environment" /\ "serve" \in keys =>
       keys \cap {"rules", "default_action", "scheduled_rollouts"} = {}
  /\ role = "entry" => "if" \in keys
  /\ role \in {"entry", "action"} => keys \cap ActionKinds # {}

(* strictMapping, required fields, and fields that exclude each other.     *)
Consistent(role, keys) ==
  /\ keys \subseteq FieldNames(role)
  /\ role = "document" => "flags" \in keys
  /\ role = "environment" /\ "serve" \in keys =>
       keys \cap {"rules", "default_action", "scheduled_rollouts"} = {}
  /\ role = "entry" => "if" \in keys
  /\ role \in {"entry", "action"} => Cardinality(keys \cap ActionKinds) = 1

(* Mutant of IsRead: an absent field is read as a node of its own.         *)
IsReadUnasked(role, keys, k) ==
  /\ role = "environment" /\ "serve" \in keys => k \in {"serve", "extensions"}
  /\ role \in {"entry", "action"} /\ k \in ActionKinds => k \in keys

(* Which of its fields a function goes on to read: a fixed environment is  *)
(* read no further, and an action is of the first kind it has.             *)
IsRead(role, keys, k) ==
  /\ k \in keys
  /\ role = "environment" /\ "serve" \in keys => k \in {"serve", "extensions"}
  /\ role \in {"entry", "action"} /\ k \in ActionKinds =>
       LET i == CHOOSE i \in DOMAIN ActionFields : ActionFields[i][1] = k
       IN \A j \in 1 .. i - 1 : ActionFields[j][1] \notin keys

ReadableMap(node, role) ==
  /\ Mapping(node)
  /\ role \in DOMAIN Strict \cup DOMAIN Choices \cup DOMAIN Open
  /\ role \in DOMAIN Strict => Consistent(role, Range(node.kids))
  /\ role \in DOMAIN Choices => Len(node.kids) = 1 /\ node.kids[1] \in DOMAIN Choices[role]
  /\ role \in {"extensions", "extension"} => "" \notin Range(node.kids)

ReadableList(node, role) ==
  /\ role \in DOMAIN Lists \cup DOMAIN Pairs
  /\ role \in DOMAIN Pairs => Len(node.kids) = 2

Readable(node, role) ==
  CASE node.kind = "map" -> ReadableMap(node, role)
    [] node.kind = "seq" -> ReadableList(node, role)
    [] OTHER -> ReadableScalar(node, role)

Item(p, role, read) == [path |-> p, role |-> role, read |-> read]

(* The calls a function makes on the nodes below the one at p, in order;   *)
(* the fields of a strict mapping that it does not read included.          *)
Calls(p, node, role) ==
  CASE node.kind = "map" /\ role \in DOMAIN Strict ->
         [i \in DOMAIN Strict[role] |->
            LET field == Strict[role][i]
            IN Item(Below(p, field[1]), field[2], IsRead(role, Range(node.kids), field[1]))]
    [] node.kind = "map" /\ role \in DOMAIN Choices ->
         <<Item(Below(p, node.kids[1]), Choices[role][node.kids[1]], TRUE)>>
    [] node.kind = "map" /\ role \in DOMAIN Open ->
         [i \in DOMAIN node.kids |-> Item(Below(p, node.kids[i]), Open[role], TRUE)]
    [] node.kind = "seq" /\ role \in DOMAIN Lists ->
         [i \in DOMAIN node.kids |-> Item(Below(p, node.kids[i]), Lists[role], TRUE)]
    [] node.kind = "seq" /\ role \in DOMAIN Pairs ->
         [i \in 1 .. 2 |-> Item(Below(p, node.kids[i]), Pairs[role][i], TRUE)]
    [] OTHER -> <<>>

-----------------------------------------------------------------------------
VARIABLES
  source,  \* the YAML tree
  phase,   \* "check", "parse", "parsed" or "rejected"
  todo,    \* the calls still to be made, the next one first
  ast      \* what was made of each node that was read

vars == <<source, phase, todo, ast>>

Init ==
  /\ source \in Sources
  /\ phase = "check"
  /\ todo = <<>>
  /\ ast = <<>>

CheckTree ==
  /\ phase = "check"
  /\ IF \A p \in DOMAIN source : Admitted(source[p])
     THEN phase' = "parse" /\ todo' = <<Item(<<>>, "document", TRUE)>>
     ELSE phase' = "rejected" /\ UNCHANGED todo
  /\ UNCHANGED <<source, ast>>

Node(item) == source[item.path]

Read ==
  /\ phase = "parse"
  /\ todo # <<>>
  /\ Head(todo).read
  /\ LET item == Head(todo)
     IN /\ Readable(Node(item), item.role)
        /\ ast' = [p \in DOMAIN ast \cup {item.path} |->
                     IF p = item.path THEN MadeOf(Node(item), item.role) ELSE ast[p]]
        /\ todo' = Calls(item.path, Node(item), item.role) \o Tail(todo)
  /\ UNCHANGED <<source, phase>>

(* An optional field that is not there, or not looked at.                  *)
Skip ==
  /\ phase = "parse"
  /\ todo # <<>>
  /\ ~ Head(todo).read
  /\ todo' = Tail(todo)
  /\ UNCHANGED <<source, phase, ast>>

Refuse ==
  /\ phase = "parse"
  /\ todo # <<>>
  /\ Head(todo).read
  /\ ~ Readable(Node(Head(todo)), Head(todo).role)
  /\ phase' = "rejected"
  /\ UNCHANGED <<source, todo, ast>>

Finish ==
  /\ phase = "parse"
  /\ todo = <<>>
  /\ phase' = "parsed"
  /\ UNCHANGED <<source, todo, ast>>

Next == CheckTree \/ Read \/ Skip \/ Refuse \/ Finish

Spec == Init /\ [][Next]_vars

-----------------------------------------------------------------------------
(* Properties                                                              *)

TypeOK ==
  /\ phase \in {"check", "parse", "parsed", "rejected"}
  /\ todo \in Seq(Range(todo))
  /\ \A i \in DOMAIN todo :
       /\ todo[i].role \in Roles
       /\ todo[i].read => todo[i].path \in DOMAIN source
  /\ DOMAIN ast \subseteq DOMAIN source

(* Nothing an author wrote is left out silently: when parsing succeeds,    *)
(* every node of the tree was read.  Fields the grammar does not know are  *)
(* refused, and so are fields it knows and would not look at.              *)
NothingIgnored == phase = "parsed" => DOMAIN source \subseteq DOMAIN ast

Written(p) == source[p].kind = "scalar" /\ source[p].plain
              /\ source[p].form \in {"int", "float", "huge_float"}
Kept(p) == ast[p].kind = (IF source[p].form = "int" THEN "int" ELSE "double")

InExtension(p) ==
  \/ Len(p) > 1 /\ p[1] = "extensions"
  \/ Len(p) > 3 /\ p[1] = "flags" /\ p[3] = "extensions"
  \/ Len(p) > 5 /\ p[1] = "flags" /\ p[3] = "environments" /\ p[5] = "extensions"

(* docs/runtime-safety-test-spec.md: ffcraft "MUST NOT convert an input    *)
(* representation into its normalized IR if that conversion changes a      *)
(* semantically significant value without reporting an error".  A number   *)
(* in a variant or in a condition that is parsed stays a number.           *)
LosslessIngress ==
  phase = "parsed" =>
    \A p \in DOMAIN ast : Written(p) /\ ast[p].kind \in {"string", "int", "double"} => Kept(p)
=============================================================================
