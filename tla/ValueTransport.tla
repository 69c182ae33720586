--------------------------- MODULE ValueTransport ---------------------------
(***************************************************************************)
(* What becomes of the variant values and the extensions of a parsed       *)
(* document: normalize turns the variants into AST values, the IR takes    *)
(* both over and is validated, it travels as protobuf or as normalized     *)
(* YAML from one program to the next, and a compiler writes the variants   *)
(* into the file of its target.  Below an object the AST holds plain Go    *)
(* values (any), so each of those is converted twice.                      *)
(*                                                                         *)
(* On the wire a newer writer may have put fields into a message that this *)
(* program's schema does not know.                                         *)
(*                                                                         *)
(* Sizes are told apart no further than by the limits put on them: the     *)
(* number of a text stands for its length too (the digits of a number      *)
(* count for less than a long text), keys and names that are too long are  *)
(* two given sets, and the payload of a namespace is counted in values     *)
(* instead of bytes.                                                       *)
(***************************************************************************)
EXTENDS AuthoringParser

CONSTANTS
  SafeMax,   \* 2^53 - 1, the largest integer a JSON number is trusted with
  MaxDepth,  \* 64, the deepest nesting of a variant or of an extension
  TextMax,   \* 256 bytes, the longest text the IR takes
  AuthoredTextMax, \* 1024 characters, the longest text of an authored variant
  KidsMax,   \* 256 fields, items, variants of a flag or namespaces of a scope
  PayloadMax,      \* 1 MiB, the largest namespace
  LongNames, \* names of variant sets, variants and namespaces beyond 128 bytes
  LongKeys,  \* object keys beyond 256 bytes
  MaxTrips   \* how often the model encodes the document (bound)

ASSUME TransportAssumption ==
  /\ SafeMax \in Nat /\ MaxDepth \in Nat /\ MaxTrips \in Nat
  /\ TextMax \in Nat /\ AuthoredTextMax \in Nat /\ TextMax <= AuthoredTextMax
  /\ KidsMax \in Nat /\ PayloadMax \in Nat

VARIABLES
  stage,    \* how far the document is: "authored", "normalized", "lowered",
            \* "valid", "encoded", "written", or "refused"
  flag,     \* the variant set the flag names, and the target compiled for
  values,   \* path -> value, of the flag's variants and of all extensions
  wire,     \* the encoding of an encoded document: "protobuf" or "yaml"
  unknown,  \* the messages that hold fields this schema does not know
  added,    \* the messages a newer writer has added such a field to
  trips     \* encodings so far

tvars == <<stage, flag, values, wire, unknown, added, trips>>

Targets == {"flagd", "gofeatureflag"}
NoFlag == [set |-> "none", target |-> "none"]
VariantSetNames == {p[2] : p \in {q \in DOMAIN ast : Len(q) = 2 /\ q[1] = "variant_sets"}}

(* The nodes of a variant set; a path's third element names the variant.   *)
Of(set) == {p \in DOMAIN ast : Len(p) > 2 /\ p[1] = "variant_sets" /\ p[2] = set}
Extensions == {p \in DOMAIN ast : InExtension(p)}
Roots(ps) == {p \in ps : p[1] = "variant_sets" /\ Len(p) = 3}

(* How deep a node lies in its variant or in its namespace.                *)
Depth(p) ==
  Len(p) - (CASE p[1] = "variant_sets" -> 3
              [] p[1] = "extensions" -> 2
              [] p[1] = "flags" /\ p[3] = "extensions" -> 4
              [] OTHER -> 6)
InObject(p) == \E k \in 3 .. Len(p) - 1 : ast[SubSeq(p, 1, k)].kind = "object"

-----------------------------------------------------------------------------
GoType == [null |-> "nil", bool |-> "bool", string |-> "string", int |-> "int64",
           double |-> "float64", object |-> "map", list |-> "slice"]

(* normalizeVariantValue, and astVariantAny below an object.  The parser   *)
(* has made IR messages of the extensions already.                         *)
Normalized(p) ==
  IF ~ InExtension(p) /\ InObject(p) THEN [ast[p] EXCEPT !.kind = GoType[@]] ELSE ast[p]

(* Mutant of IRKind: variantAny reads an int64 as a string.                *)
IRKindUntyped(k) ==
  CASE k = "nil" -> "null" [] k = "int64" -> "string" [] k = "float64" -> "double"
    [] k = "map" -> "object" [] k = "slice" -> "list" [] OTHER -> k

(* variant, and variantAny: the kinds of the IR.                           *)
IRKind(k) ==
  CASE k = "nil" -> "null" [] k = "int64" -> "int" [] k = "float64" -> "double"
    [] k = "map" -> "object" [] k = "slice" -> "list" [] OTHER -> k

(* The nodes beside a node, with it, and those of the subtree at it.       *)
Siblings(tree, p) == {q \in DOMAIN tree : Parent(q) = Parent(p)}
Subtree(tree, p) == {q \in DOMAIN tree : Len(q) >= Len(p) /\ SubSeq(q, 1, Len(p)) = p}

(* What the schema of a value message says of one node, where texts may    *)
(* be as long as textMax: the fields of an object and the items of a list  *)
(* are counted, the variants of a set and the namespaces of a scope not.   *)
SchemaTakes(tree, p, textMax) ==
  /\ tree[p].kind = "string" => tree[p].n <= textMax
  /\ Depth(p) = 0 => p[Len(p)] \notin {""} \cup LongNames
  /\ Depth(p) > 0 =>
       /\ tree[Parent(p)].kind = "object" => p[Len(p)] \notin {""} \cup LongKeys
       /\ Cardinality(Siblings(tree, p)) <= KidsMax

(* The variants of a flag, the namespaces of a scope and what is in each.  *)
SmallEnough(tree, p) ==
  Depth(p) = 0 =>
    /\ Cardinality(Siblings(tree, p)) <= KidsMax
    /\ InExtension(p) => Cardinality(Subtree(tree, p)) <= PayloadMax

(* Mutant of WithinLimits: one level less.                                 *)
WithinFewerLimits(p) ==
  Depth(p) < MaxDepth /\ SchemaTakes(values, p, TextMax) /\ SmallEnough(values, p)

(* The IR's schema, validateVariantDepth, validateExtensions and           *)
(* validateExtensionDepth on one node.                                     *)
WithinLimits(p) ==
  Depth(p) <= MaxDepth /\ SchemaTakes(values, p, TextMax) /\ SmallEnough(values, p)

(* Mutant of Homogeneous: kinds as a file shows them.                      *)
HomogeneousInJson ==
  \A p, q \in Roots(DOMAIN values) :
    LET k == values[p].kind
        l == values[q].kind
    IN k = l \/ {k, l} = {"int", "double"}

Homogeneous == \A p, q \in Roots(DOMAIN values) : values[p].kind = values[q].kind

IsSafe(n) == -SafeMax <= n /\ n <= SafeMax

(* Mutant of Transportable: lists are not searched.                        *)
TransportableOutsideLists(p) ==
  values[p].kind = "int" /\ (Depth(p) > 0 => values[Parent(p)].kind # "list") =>
    IsSafe(values[p].n)

(* validateIRNumericVariant on one node.                                   *)
Transportable(p) == values[p].kind = "int" => IsSafe(values[p].n)

(* JSON has one kind of number.                                            *)
Json(v) == [v EXCEPT !.kind = IF @ \in {"int", "double"} THEN "number" ELSE @]

-----------------------------------------------------------------------------
(* The codecs                                                              *)

(* Mutant of CoreUnknown: only the document itself is looked at.           *)
RootUnknown == unknown \cap {<<>>}

(* rejectUnknownMessage: extension messages are opaque, with all that is   *)
(* in them; <<>> stands for any core message that is no variant value.     *)
CoreUnknown == unknown \ Extensions

(* Mutant of ExtensionUnknown: the values in a namespace are not searched. *)
NamespaceUnknown == {p \in unknown \cap Extensions : Depth(p) = 0}

(* extensionHasUnknown, over every scope.                                  *)
ExtensionUnknown == unknown \cap Extensions

(* A reader that keeps numbers as binary64 sees the even neighbour of an   *)
(* odd integer beyond 2^53.                                                *)
Binary64(n) == IF -SafeMax - 1 <= n /\ n <= SafeMax + 1 THEN n ELSE (n \div 2) * 2

(* Mutant of Literal: integers as encoding/json would write them.          *)
LiteralOfGo(v) == IF v.kind \in {"int", "double"} THEN "number" ELSE "text"

(* protojson puts an int64 into a JSON string.                             *)
Literal(v) == IF v.kind = "double" THEN "number" ELSE "text"

(* normalizedyaml.Marshal: through a generic JSON value, where a number is *)
(* a float64; normalizeNumericLexemes makes the text an integer again, and *)
(* the field's name (int_value, double_value) carries the kind.            *)
Yaml(v) == IF v.kind = "int" /\ Literal(v) = "number" THEN [v EXCEPT !.n = Binary64(@)] ELSE v

Acceptable ==
  /\ CoreUnknown = {}
  /\ Homogeneous
  /\ \A p \in DOMAIN values : WithinLimits(p)

-----------------------------------------------------------------------------
(* What validate.Validate wants of a variant set, used or not: a name, a   *)
(* variant, and that the authoring schema takes each value.                *)
NamedAndFilled(set) ==
  /\ set \notin {""} \cup LongNames
  /\ Of(set) # {}
  /\ \A p \in Of(set) : SchemaTakes(ast, p, AuthoredTextMax)

Normalize(set) ==
  /\ phase = "parsed"
  /\ stage = "authored"
  /\ flag' = [flag EXCEPT !.set = set]
  /\ IF \/ \E s \in VariantSetNames : ~ NamedAndFilled(s)
        \/ \E p \in Extensions : ~ SchemaTakes(ast, p, TextMax)
     THEN stage' = "refused" /\ UNCHANGED values
     ELSE /\ stage' = "normalized"
          /\ values' = [p \in Of(set) \cup Extensions |-> Normalized(p)]
  /\ UNCHANGED <<wire, unknown, added, trips>>

Lower ==
  /\ stage = "normalized"
  /\ stage' = "lowered"
  /\ values' = [p \in DOMAIN values |-> [values[p] EXCEPT !.kind = IRKind(@)]]
  /\ UNCHANGED <<flag, wire, unknown, added, trips>>

ValidateIR ==
  /\ stage = "lowered"
  /\ stage' = IF Acceptable THEN "valid" ELSE "refused"
  /\ UNCHANGED <<flag, values, wire, unknown, added, trips>>

(* ir.Marshal: unknown fields of an extension stay in it.                  *)
EncodeProtobuf ==
  /\ stage = "valid"
  /\ trips < MaxTrips
  /\ trips' = trips + 1
  /\ stage' = "encoded"
  /\ wire' = "protobuf"
  /\ UNCHANGED <<flag, values, unknown, added>>

(* normalizedyaml.Marshal: YAML has no place for unknown fields.           *)
EncodeYaml ==
  /\ stage = "valid"
  /\ trips < MaxTrips
  /\ trips' = trips + 1
  /\ IF ExtensionUnknown # {}
     THEN stage' = "refused" /\ UNCHANGED <<values, wire, unknown>>
     ELSE /\ stage' = "encoded"
          /\ wire' = "yaml"
          /\ values' = [p \in DOMAIN values |-> Yaml(values[p])]
          /\ unknown' = {}
  /\ UNCHANGED <<flag, added>>

(* A writer with a newer schema adds a field to a message (once).          *)
Evolve(p) ==
  /\ stage = "encoded"
  /\ wire = "protobuf"
  /\ added = {}
  /\ added' = {p}
  /\ unknown' = unknown \cup {p}
  /\ UNCHANGED <<stage, flag, values, wire, trips>>

(* ir.Unmarshal, normalizedyaml.Unmarshal: both end in Validate.           *)
Decode ==
  /\ stage = "encoded"
  /\ stage' = IF Acceptable THEN "valid" ELSE "refused"
  /\ wire' = "none"
  /\ UNCHANGED <<flag, values, unknown, added, trips>>

(* CompileIR: the extensions are left out.                                 *)
Compile(target) ==
  /\ stage = "valid"
  /\ flag' = [flag EXCEPT !.target = target]
  /\ IF target = "gofeatureflag" /\ \E p \in Of(flag.set) : ~ Transportable(p)
     THEN stage' = "refused" /\ UNCHANGED values
     ELSE stage' = "written" /\ values' = [p \in Of(flag.set) |-> Json(values[p])]
  /\ UNCHANGED <<wire, unknown, added, trips>>

Carry ==
  \/ \E set \in VariantSetNames : Normalize(set)
  \/ Lower
  \/ ValidateIR
  \/ EncodeProtobuf
  \/ EncodeYaml
  \/ \E p \in {<<>>} \cup DOMAIN values : Evolve(p)
  \/ Decode
  \/ \E target \in Targets : Compile(target)

TransportInit ==
  /\ Init
  /\ stage = "authored"
  /\ flag = NoFlag
  /\ values = <<>>
  /\ wire = "none"
  /\ unknown = {}
  /\ added = {}
  /\ trips = 0

TransportNext ==
  \/ Next /\ UNCHANGED tvars
  \/ Carry /\ UNCHANGED vars

TransportSpec == TransportInit /\ [][TransportNext]_<<vars, tvars>>

-----------------------------------------------------------------------------
(* Properties                                                              *)

TransportTypeOK ==
  /\ TypeOK
  /\ stage \in {"authored", "normalized", "lowered", "valid", "encoded", "written", "refused"}
  /\ flag \in {NoFlag} \cup [set : VariantSetNames, target : Targets \cup {"none"}]
  /\ DOMAIN values \subseteq DOMAIN ast
  /\ wire \in {"none", "protobuf", "yaml"}
  /\ unknown \subseteq {<<>>} \cup DOMAIN ast
  /\ added \subseteq {<<>>} \cup DOMAIN ast
  /\ trips \in 0 .. MaxTrips

Seen(v) == IF v.kind = "number" THEN [v EXCEPT !.n = Binary64(@)] ELSE v

(* What a file carries is what the author wrote, node by node, whatever    *)
(* encodings the document went through, and what a GO Feature Flag relay   *)
(* reads from its file is the same again: a number it would round is       *)
(* refused, however deep it is nested.  A typed accessor can read each     *)
(* variant of its flag: 1 and 1.0 are two kinds although a file shows one. *)
ValuesArriveWhole ==
  stage = "written" =>
    /\ DOMAIN values = Of(flag.set)
    /\ \A p \in DOMAIN values :
         /\ values[p] = Json(ast[p])
         /\ flag.target = "gofeatureflag" /\ ast[p].kind = "int" => Seen(values[p]).n = ast[p].n
    /\ \A p, q \in Roots(DOMAIN values) : ast[p].kind = ast[q].kind

(* An extension is opaque to the tools and survives them.  Each of its     *)
(* numbers is refused by the parser or is that number, of its kind, in     *)
(* every program that reads the document.                                  *)
ExtensionsArriveWhole ==
  stage = "valid" =>
    \A p \in Extensions :
      /\ values[p] = ast[p]
      /\ Written(p) => Kept(p)

(* What a newer writer has added is never lost: in an extension it is      *)
(* still there in every program that goes on with the document (YAML has   *)
(* no place for it, so the dump is refused), and with a core message that  *)
(* says something it does not understand no program goes on.               *)
NewerFieldsAreNotLost ==
  stage = "valid" => unknown = added /\ added \subseteq Extensions

(* What is too large or lies too deep, in the flag's variants and in the   *)
(* extensions; an unused variant set only has to suit the authoring schema.*)
TooLargeOrDeep(p) ==
  Depth(p) > MaxDepth \/ ~ SchemaTakes(ast, p, TextMax) \/ ~ SmallEnough(ast, p)

(* As far as variant sets and extensions go, a document is refused only    *)
(* for what its author can see: a variant set without a variant, variants  *)
(* of several kinds, an empty or overlong name or key, an overlong text,   *)
(* too many fields, items, variants or namespaces, too large a namespace,  *)
(* nesting beyond the limit, or, for GO Feature Flag, an integer in a      *)
(* variant that binary64 would not keep exact; or for what a newer writer  *)
(* has added.  This is less than two documents list: flagd is handed       *)
(* top-level lists that docs/compiler-targets.md:17 calls unsupported, and *)
(* integers that docs/runtime-safety-test-spec.md (section 7) refuses in   *)
(* nested values wherever they go are refused for GO Feature Flag alone.   *)
RefusedForCause ==
  stage = "refused" =>
    \/ added # {}
    \/ \E s \in VariantSetNames :
         \/ s \in {""} \cup LongNames
         \/ Of(s) = {}
         \/ \E p \in Of(s) : ~ SchemaTakes(ast, p, AuthoredTextMax)
    \/ \E p, q \in Roots(Of(flag.set)) : ast[p].kind # ast[q].kind
    \/ \E p \in Of(flag.set) \cup Extensions : TooLargeOrDeep(p)
    \/ /\ flag.target = "gofeatureflag"
       /\ \E p \in Of(flag.set) : ast[p].kind = "int" /\ (ast[p].n > SafeMax \/ ast[p].n < -SafeMax)
=============================================================================
