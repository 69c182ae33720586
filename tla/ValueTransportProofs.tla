------------------------- MODULE ValueTransportProofs -------------------------
(***************************************************************************)
(* What AuthoringParser promises of any tree, and ValueTransport of        *)
(* variants, extensions and unknown fields, for every tree and every       *)
(* limit.                                                                  *)
(*                                                                         *)
(* The parser only ever goes down, so its invariant is about the frontier: *)
(* each kid of a node that was read was read itself or waits in todo to be *)
(* read.  When todo is empty the nodes read are closed downwards and hold  *)
(* the root, and a node of least depth among the unread ones cannot exist. *)
(*                                                                         *)
(* It reads every node of a variant set or of an extension in the role its *)
(* path calls for, so its AST holds values there and nothing else          *)
(* (RolesFit).  From there on each stage holds the author's values, in the *)
(* kinds of that stage (ValuesFollow), and the unknown fields are those a  *)
(* newer writer added (UnknownFollows).                                    *)
(***************************************************************************)
EXTENDS ValueTransport, FiniteSetTheorems, SequenceTheorems, WellFoundedInduction, TLAPS

-----------------------------------------------------------------------------
(* The frontier of the parser                                              *)

Waiting(p) == \E i \in DOMAIN todo : todo[i].read /\ todo[i].path = p

Covered(p) == p \in DOMAIN ast \/ Waiting(p)

Branches(p) == source[p].kind \in {"map", "seq"}

RootIsCovered == phase \in {"parse", "parsed"} => Covered(<<>>)

KidsAreCovered ==
  \A p \in DOMAIN ast : Branches(p) =>
    \A i \in DOMAIN source[p].kids : Covered(Below(p, source[p].kids[i]))

DoneIsDone == phase = "parsed" => todo = <<>>

NothingYet == phase = "check" => DOMAIN ast = {}

IInv ==
  /\ source \in Sources
  /\ TypeOK
  /\ RootIsCovered
  /\ KidsAreCovered
  /\ DoneIsDone
  /\ NothingYet

-----------------------------------------------------------------------------
(* Sequences                                                               *)

(* One sequence put before the rest of another, with the elements of both. *)
Joined(c, s, t) ==
  /\ c \in Seq(Range(c))
  /\ \A i \in DOMAIN c : (\E j \in DOMAIN s : c[i] = s[j]) \/ (\E j \in DOMAIN t : c[i] = t[j])
  /\ \A j \in DOMAIN s : \E i \in DOMAIN c : c[i] = s[j]
  /\ \A j \in DOMAIN t : j = 1 \/ \E i \in DOMAIN c : c[i] = t[j]

LEMMA ConcatTail ==
  ASSUME NEW s, s \in Seq(Range(s)), NEW t, t \in Seq(Range(t)), t # <<>>,
         NEW c, c = s \o Tail(t)
  PROVE  Joined(c, s, t)
<1> DEFINE T == Range(s) \cup Range(t)
<1>1. s \in Seq(T) /\ t \in Seq(T)
  OBVIOUS
<1>2. Len(t) \in Nat /\ Len(t) > 0 /\ Len(s) \in Nat
  BY <1>1
<1>3. /\ Tail(t) \in Seq(T)
      /\ Len(Tail(t)) = Len(t) - 1
      /\ \A i \in 1 .. Len(t) - 1 : Tail(t)[i] = t[i + 1]
  BY <1>1, <1>2
<1>4. /\ c \in Seq(T)
      /\ Len(c) = Len(s) + Len(t) - 1
      /\ \A i \in 1 .. Len(s) : c[i] = s[i]
      /\ \A i \in 1 .. Len(t) - 1 : c[Len(s) + i] = t[i + 1]
  BY <1>1, <1>2, <1>3
<1>5. DOMAIN c = 1 .. Len(c) /\ DOMAIN s = 1 .. Len(s) /\ DOMAIN t = 1 .. Len(t)
  BY <1>1, <1>4
<1>6. c \in Seq(Range(c))
  BY <1>4, SeqOfRange
<1>7. ASSUME NEW i \in DOMAIN c
      PROVE  (\E j \in DOMAIN s : c[i] = s[j]) \/ (\E j \in DOMAIN t : c[i] = t[j])
  <2>1. CASE i \in 1 .. Len(s)
    BY <2>1, <1>4, <1>5
  <2>2. CASE i \notin 1 .. Len(s)
    <3>1. i - Len(s) \in 1 .. Len(t) - 1
      BY <2>2, <1>2, <1>4, <1>5
    <3>2. c[Len(s) + (i - Len(s))] = t[(i - Len(s)) + 1]
      BY <3>1, <1>4
    <3>3. Len(s) + (i - Len(s)) = i /\ (i - Len(s)) + 1 \in DOMAIN t
      BY <3>1, <1>2, <1>5
    <3> QED
      BY <3>2, <3>3
  <2> QED
    BY <2>1, <2>2
<1>8. ASSUME NEW j \in DOMAIN s PROVE \E i \in DOMAIN c : c[i] = s[j]
  <2>1. j \in DOMAIN c
    BY <1>2, <1>4, <1>5
  <2> QED
    BY <2>1, <1>4, <1>5
<1>9. ASSUME NEW j \in DOMAIN t, j # 1 PROVE \E i \in DOMAIN c : c[i] = t[j]
  <2>1. j - 1 \in 1 .. Len(t) - 1 /\ Len(s) + (j - 1) \in DOMAIN c /\ (j - 1) + 1 = j
    BY <1>2, <1>4, <1>5, <1>9
  <2> DEFINE k == j - 1
  <2>2. c[Len(s) + k] = t[k + 1]
    BY <2>1, <1>4
  <2> QED
    BY <2>1, <2>2
<1> QED
  BY <1>6, <1>7, <1>8, <1>9 DEF Joined

(* What comes after the first element is the rest.                         *)
LEMMA TailKeeps ==
  ASSUME NEW t, t \in Seq(Range(t)), t # <<>>
  PROVE  /\ Tail(t) \in Seq(Range(Tail(t)))
         /\ \A i \in DOMAIN Tail(t) : \E j \in DOMAIN t : Tail(t)[i] = t[j]
         /\ \A j \in DOMAIN t : j = 1 \/ \E i \in DOMAIN Tail(t) : Tail(t)[i] = t[j]
         /\ Head(t) = t[1] /\ 1 \in DOMAIN t
<1>1. /\ Len(t) \in Nat /\ Len(t) > 0 /\ DOMAIN t = 1 .. Len(t)
      /\ Tail(t) \in Seq(Range(t))
      /\ Len(Tail(t)) = Len(t) - 1
      /\ DOMAIN Tail(t) = 1 .. Len(t) - 1
      /\ \A i \in 1 .. Len(t) - 1 : Tail(t)[i] = t[i + 1]
  OBVIOUS
<1>2. Tail(t) \in Seq(Range(Tail(t)))
  BY <1>1, SeqOfRange
<1>3. ASSUME NEW i \in DOMAIN Tail(t) PROVE \E j \in DOMAIN t : Tail(t)[i] = t[j]
  <2>1. i + 1 \in DOMAIN t /\ Tail(t)[i] = t[i + 1]
    BY <1>1
  <2> QED
    BY <2>1
<1>4. ASSUME NEW j \in DOMAIN t, j # 1 PROVE \E i \in DOMAIN Tail(t) : Tail(t)[i] = t[j]
  <2>1. j - 1 \in DOMAIN Tail(t) /\ (j - 1) + 1 = j
    BY <1>1, <1>4
  <2>2. Tail(t)[j - 1] = t[j]
    BY <2>1, <1>1
  <2> QED
    BY <2>1, <2>2
<1>5. Head(t) = t[1] /\ 1 \in DOMAIN t
  BY <1>1
<1> QED
  BY <1>2, <1>3, <1>4, <1>5

(* A path is its parent's path and one key more.                           *)
LEMMA PathIsBelowParent ==
  ASSUME NEW p, p \in Seq(Range(p)), p # <<>>
  PROVE  /\ Below(Parent(p), p[Len(p)]) = p
         /\ Len(p) \in Nat /\ Len(Parent(p)) = Len(p) - 1
<1>1. Len(p) \in Nat /\ Len(p) > 0 /\ p[Len(p)] \in Range(p)
  BY DEF Range
<1>2. /\ Parent(p) \in Seq(Range(p))
      /\ Len(Parent(p)) = Len(p) - 1
      /\ \A i \in 1 .. Len(p) - 1 : Parent(p)[i] = p[i]
  <2> DEFINE n == Len(p) - 1
             q == SubSeq(p, 1, n)
  <2>1. n \in Nat /\ \A i \in 1 .. n : p[i] \in Range(p)
    BY <1>1 DEF Range
  <2>2. /\ q \in Seq(Range(p))
        /\ Len(q) = IF 1 <= n THEN n - 1 + 1 ELSE 0
        /\ \A i \in 1 .. n - 1 + 1 : q[i] = p[1 + i - 1]
    BY <2>1, SubSeqProperties
  <2>3. Len(q) = n /\ \A i \in 1 .. n : q[i] = p[i]
    <3> HIDE DEF n, q
    <3> QED
      BY <2>1, <2>2
  <2> QED
    BY <2>2, <2>3 DEF Parent
<1>3. /\ Append(Parent(p), p[Len(p)]) \in Seq(Range(p))
      /\ Len(Append(Parent(p), p[Len(p)])) = Len(p)
      /\ \A i \in 1 .. Len(p) : Append(Parent(p), p[Len(p)])[i] = p[i]
  BY <1>1, <1>2
<1>4. Append(Parent(p), p[Len(p)]) = p
  BY <1>3, SeqEqual
<1> QED
  BY <1>1, <1>2, <1>4 DEF Below

-----------------------------------------------------------------------------
(* The grammar                                                             *)

StrictRoles == {"document", "distribution", "flag", "environment", "entry", "action",
                "rollout", "step"}
OpenRoles == {"variant_sets", "conditions", "distributions", "variant_set", "weights",
              "environments", "extensions", "variant", "extension"}
ListRoles == {"flags", "entries", "steps", "condition_list", "value", "variant", "extension"}
PairRoles == {"operands", "value_and_text"}

(* The roles there are, and that each has one kind of mapping or list.     *)
LEMMA RolesByKind ==
  /\ DOMAIN Strict = StrictRoles
  /\ DOMAIN Choices = {"condition", "value"}
  /\ DOMAIN Open = OpenRoles
  /\ DOMAIN Lists = ListRoles
  /\ DOMAIN Pairs = PairRoles
  /\ Roles = StrictRoles \cup {"condition", "value"} \cup OpenRoles \cup ListRoles \cup PairRoles
               \cup {"text", "bool", "weight", "stages"}
<1>1. DOMAIN Strict = StrictRoles
  BY DEF Strict, StrictRoles
<1>2. DOMAIN Choices = {"condition", "value"}
  BY DEF Choices
<1>3. DOMAIN Open = OpenRoles
  BY DEF Open, OpenRoles
<1>4. DOMAIN Lists = ListRoles
  BY DEF Lists, ListRoles
<1>5. DOMAIN Pairs = PairRoles
  BY DEF Pairs, PairRoles
<1> QED
  BY <1>1, <1>2, <1>3, <1>4, <1>5 DEF Roles, Texts

(* Fields in the order they are read, each with a role of the grammar.     *)
FieldList(fs) ==
  /\ \E n \in Nat : DOMAIN fs = 1 .. n
  /\ \A i \in DOMAIN fs : fs[i][2] \in Roles

LEMMA StrictFields ==
  ASSUME NEW role \in DOMAIN Strict
  PROVE  FieldList(Strict[role])
<1>1. {"text", "bool", "variant_sets", "conditions", "distributions", "extensions", "flags",
       "weights", "environments", "entries", "action", "steps", "rollout", "condition",
       "stages"} \subseteq Roles
  BY RolesByKind DEF StrictRoles, OpenRoles, ListRoles
<1>2. FieldList(DocumentFields)
  <2>1. DOMAIN DocumentFields = 1 .. 6
    BY DEF DocumentFields
  <2>2. \A i \in DOMAIN DocumentFields : DocumentFields[i][2] \in
          {"text", "variant_sets", "conditions", "distributions", "extensions", "flags"}
    <3>1. /\ DocumentFields[1][2] = "text" /\ DocumentFields[2][2] = "variant_sets"
          /\ DocumentFields[3][2] = "conditions" /\ DocumentFields[4][2] = "distributions"
          /\ DocumentFields[5][2] = "extensions" /\ DocumentFields[6][2] = "flags"
      BY DEF DocumentFields
    <3>2. \A i \in 1 .. 6 : i = 1 \/ i = 2 \/ i = 3 \/ i = 4 \/ i = 5 \/ i = 6
      OBVIOUS
    <3> QED
      BY <2>1, <3>1, <3>2
  <2> QED
    BY <1>1, <2>1, <2>2 DEF FieldList
<1>3. FieldList(DistributionFields)
  <2>1. DOMAIN DistributionFields = 1 .. 2
    BY DEF DistributionFields
  <2>2. \A i \in DOMAIN DistributionFields : DistributionFields[i][2] \in
          {"text", "weights"}
    BY DEF DistributionFields
  <2> QED
    BY <1>1, <2>1, <2>2 DEF FieldList
<1>4. FieldList(FlagFields)
  <2>1. DOMAIN FlagFields = 1 .. 5
    BY DEF FlagFields
  <2>2. \A i \in DOMAIN FlagFields : FlagFields[i][2] \in
          {"text", "extensions", "environments"}
    BY DEF FlagFields
  <2> QED
    BY <1>1, <2>1, <2>2 DEF FieldList
<1>5. FieldList(EnvironmentFields)
  <2>1. DOMAIN EnvironmentFields = 1 .. 5
    BY DEF EnvironmentFields
  <2>2. \A i \in DOMAIN EnvironmentFields : EnvironmentFields[i][2] \in
          {"text", "entries", "action", "steps", "extensions"}
    BY DEF EnvironmentFields
  <2> QED
    BY <1>1, <2>1, <2>2 DEF FieldList
<1>6. FieldList(EntryFields)
  <2>1. DOMAIN EntryFields = 1 .. 4
    BY DEF EntryFields
  <2>2. \A i \in DOMAIN EntryFields : EntryFields[i][2] \in
          {"condition", "text", "rollout"}
    BY DEF EntryFields
  <2> QED
    BY <1>1, <2>1, <2>2 DEF FieldList
<1>7. FieldList(ActionFields)
  <2>1. DOMAIN ActionFields = 1 .. 3
    BY DEF ActionFields
  <2>2. \A i \in DOMAIN ActionFields : ActionFields[i][2] \in
          {"text", "rollout"}
    BY DEF ActionFields
  <2> QED
    BY <1>1, <2>1, <2>2 DEF FieldList
<1>8. FieldList(RolloutFields)
  <2>1. DOMAIN RolloutFields = 1 .. 5
    BY DEF RolloutFields
  <2>2. \A i \in DOMAIN RolloutFields : RolloutFields[i][2] \in
          {"text", "stages"}
    BY DEF RolloutFields
  <2> QED
    BY <1>1, <2>1, <2>2 DEF FieldList
<1>9. FieldList(StepFields)
  <2>1. DOMAIN StepFields = 1 .. 6
    BY DEF StepFields
  <2>2. \A i \in DOMAIN StepFields : StepFields[i][2] \in
          {"text", "bool", "entries", "action"}
    BY DEF StepFields
  <2> QED
    BY <1>1, <2>1, <2>2 DEF FieldList
<1>10. \A r \in StrictRoles :
         Strict[r] \in {DocumentFields, DistributionFields, FlagFields, EnvironmentFields,
                        EntryFields, ActionFields, RolloutFields, StepFields}
  BY DEF Strict, StrictRoles
<1> QED
  BY <1>2, <1>3, <1>4, <1>5, <1>6, <1>7, <1>8, <1>9, <1>10, RolesByKind

(* What a mapping of one key, an open mapping, a list and a pair lead to.  *)
LEMMA ChosenRoles ==
  ASSUME NEW role \in DOMAIN Choices, NEW k \in DOMAIN Choices[role]
  PROVE  Choices[role][k] \in Roles
<1>1. {"text", "bool", "condition", "condition_list", "operands", "value_and_text"} \subseteq Roles
  BY RolesByKind DEF ListRoles, PairRoles
<1>2. \A o \in DOMAIN Operators :
        Operators[o] \in {"text", "bool", "condition", "condition_list", "operands", "value_and_text"}
  BY DEF Operators
<1>3. Choices["condition"] = Operators /\ Choices["value"] = [var |-> "text"]
  BY DEF Choices
<1>4. CASE role = "condition"
  BY <1>1, <1>2, <1>3, <1>4
<1>5. CASE role = "value"
  <2>1. DOMAIN [var |-> "text"] = {"var"} /\ [var |-> "text"].var = "text"
    OBVIOUS
  <2> QED
    BY <1>1, <1>3, <1>5, <2>1
<1> QED
  BY <1>4, <1>5, RolesByKind

LEMMA OpenLeadsOn ==
  ASSUME NEW role \in DOMAIN Open
  PROVE  Open[role] \in Roles
BY RolesByKind DEF Open, StrictRoles, OpenRoles, ListRoles, PairRoles

LEMMA ListsLeadOn ==
  ASSUME NEW role \in DOMAIN Lists
  PROVE  Lists[role] \in Roles
BY RolesByKind DEF Lists, StrictRoles, OpenRoles, ListRoles, PairRoles

LEMMA PairsLeadOn ==
  ASSUME NEW role \in DOMAIN Pairs, NEW i \in 1 .. 2
  PROVE  Pairs[role][i] \in Roles
<1>1. Pairs[role] = <<"value", "value">> \/ Pairs[role] = <<"value", "text">>
  BY DEF Pairs
<1>2. i = 1 \/ i = 2
  OBVIOUS
<1>3. Pairs[role][i] \in {"value", "text"}
  BY <1>1, <1>2
<1> QED
  BY <1>3, RolesByKind

(* A mapping that is consistent has no field that would not be read.       *)
LEMMA ConsistentIsRead ==
  ASSUME NEW role \in DOMAIN Strict, NEW keys, Consistent(role, keys), NEW k \in keys
  PROVE  IsRead(role, keys, k)
<1>1. ASSUME role = "environment", "serve" \in keys
      PROVE  k \in {"serve", "extensions"}
  <2>1. FieldNames(role) = {"serve", "rules", "default_action", "scheduled_rollouts", "extensions"}
    BY <1>1 DEF FieldNames, Strict, EnvironmentFields, Range
  <2> QED
    BY <1>1, <2>1 DEF Consistent
<1>2. ASSUME role \in {"entry", "action"}, k \in ActionKinds,
             NEW i \in DOMAIN ActionFields, ActionFields[i][1] = k,
             NEW j \in 1 .. i - 1
      PROVE  ActionFields[j][1] \notin keys
  <2>1. Cardinality(keys \cap ActionKinds) = 1
    BY <1>2 DEF Consistent
  <2>2. keys \cap ActionKinds = {k}
    <3>1. ActionKinds = {"serve", "distribute", "progressive_rollout"}
      BY DEF ActionKinds, ActionFields, Range
    <3>2. /\ IsFiniteSet({"serve"})
          /\ IsFiniteSet({"serve"} \cup {"distribute"})
          /\ IsFiniteSet({"serve"} \cup {"distribute"} \cup {"progressive_rollout"})
      BY FS_Singleton, FS_AddElement
    <3>3. IsFiniteSet(keys \cap ActionKinds)
      <4>1. ActionKinds = {"serve"} \cup {"distribute"} \cup {"progressive_rollout"}
        BY <3>1
      <4> QED
        BY <3>2, <4>1, FS_Subset
    <3> QED
      BY <2>1, <3>3, <1>2, FS_Singleton
  <2>3. j \in DOMAIN ActionFields /\ ActionFields[j][1] # ActionFields[i][1]
    <3>1. DOMAIN ActionFields = 1 .. 3
      BY DEF ActionFields
    <3>2. /\ ActionFields[1][1] = "serve"
          /\ ActionFields[2][1] = "distribute"
          /\ ActionFields[3][1] = "progressive_rollout"
      BY DEF ActionFields
    <3>3. j < i /\ i \in {1, 2, 3} /\ j \in {1, 2, 3}
      BY <1>2, <3>1
    <3> QED
      BY <3>1, <3>2, <3>3
  <2>4. ActionFields[j][1] \in ActionKinds
    BY <2>3 DEF ActionKinds, Range
  <2> QED
    BY <2>2, <2>3, <2>4, <1>2
<1>3. ASSUME k \in ActionKinds PROVE \E i \in DOMAIN ActionFields : ActionFields[i][1] = k
  BY <1>3 DEF ActionKinds, Range
<1> QED
  BY <1>1, <1>2, <1>3 DEF IsRead

-----------------------------------------------------------------------------
(* The calls made on the nodes below one                                   *)

(* Every call is on a node of the tree and for a role of the grammar, and  *)
(* every kid of a node that can be read is the subject of one.             *)
CallsCover(t, p, calls) ==
  /\ \E n \in Nat : DOMAIN calls = 1 .. n
  /\ calls \in Seq(Range(calls))
  /\ \A i \in DOMAIN calls : /\ calls[i].role \in Roles
                             /\ calls[i].read => calls[i].path \in DOMAIN t
  /\ t[p].kind \in {"map", "seq"} =>
       \A k \in DOMAIN t[p].kids :
         \E i \in DOMAIN calls : calls[i].read /\ calls[i].path = Below(p, t[p].kids[k])

(* A function on 1 .. n is a sequence of its values.                       *)
LEMMA ListIsSeq ==
  ASSUME NEW n \in Nat, NEW f, f = [i \in 1 .. n |-> f[i]]
  PROVE  f \in Seq(Range(f)) /\ DOMAIN f = 1 .. n
<1>1. f \in [1 .. n -> Range(f)]
  BY DEF Range
<1> QED
  BY <1>1

LEMMA CallsGoDown ==
  ASSUME NEW t, IsTree(t), NEW p \in DOMAIN t, NEW role, Readable(t[p], role)
  PROVE  CallsCover(t, p, Calls(p, t[p], role))
<1> DEFINE node == t[p]
           kids == node.kids
           calls == Calls(p, node, role)
<1>1. ASSUME node.kind \in {"map", "seq"}
      PROVE  /\ Len(kids) \in Nat /\ DOMAIN kids = 1 .. Len(kids)
             /\ \A i \in DOMAIN kids : kids[i] # ComplexKey \/ node.kind = "seq" =>
                  Below(p, kids[i]) \in DOMAIN t
  BY <1>1 DEF IsTree
<1>2. ASSUME node.kind = "map" PROVE ReadableMap(node, role)
  BY <1>2 DEF Readable
<1>3. ASSUME node.kind = "seq" PROVE ReadableList(node, role)
  BY <1>3 DEF Readable
<1>4. ASSUME node.kind = "map", NEW i \in DOMAIN kids PROVE Below(p, kids[i]) \in DOMAIN t
  <2>1. kids[i] # ComplexKey
    BY <1>2, <1>4 DEF ReadableMap, Mapping, Range
  <2> QED
    BY <1>1, <1>4, <2>1
<1>5. CASE node.kind = "map" /\ role \in DOMAIN Strict
  <2> DEFINE fields == Strict[role]
             keys == Range(kids)
  <2>1. /\ \E n \in Nat : DOMAIN fields = 1 .. n
        /\ \A i \in DOMAIN fields : fields[i][2] \in Roles
    BY <1>5, StrictFields DEF FieldList
  <2>2. calls = [i \in DOMAIN fields |->
                   [path |-> Below(p, fields[i][1]), role |-> fields[i][2],
                    read |-> IsRead(role, keys, fields[i][1])]]
    <3>1. role \notin DOMAIN Choices /\ role \notin DOMAIN Open /\ node.kind # "seq"
      BY <1>5, RolesByKind DEF StrictRoles, OpenRoles
    <3>2. calls = [i \in DOMAIN Strict[role] |->
                     LET field == Strict[role][i]
                     IN Item(Below(p, field[1]), field[2], IsRead(role, Range(node.kids), field[1]))]
      BY <1>5, <3>1 DEF Calls
    <3> QED
      BY <3>2 DEF Item
  <2>3. Consistent(role, keys)
    BY <1>2, <1>5 DEF ReadableMap
  <2> HIDE DEF calls, fields
  <2>4. calls \in Seq(Range(calls)) /\ DOMAIN calls = DOMAIN fields
    BY <2>1, <2>2, ListIsSeq
  <2>5. ASSUME NEW i \in DOMAIN calls, calls[i].read PROVE calls[i].path \in DOMAIN t
    <3>1. fields[i][1] \in keys
      BY <2>2, <2>4, <2>5 DEF IsRead
    <3>2. PICK j \in DOMAIN kids : kids[j] = fields[i][1]
      BY <3>1 DEF Range
    <3> QED
      BY <1>4, <1>5, <2>2, <2>4, <3>2
  <2>6. ASSUME NEW k \in DOMAIN kids
        PROVE  \E i \in DOMAIN calls : calls[i].read /\ calls[i].path = Below(p, kids[k])
    <3>1. kids[k] \in keys
      BY DEF Range
    <3>2. kids[k] \in FieldNames(role)
      BY <2>3, <3>1 DEF Consistent
    <3>3. PICK i \in DOMAIN fields : fields[i][1] = kids[k]
      BY <3>2 DEF FieldNames, Range, fields
    <3>4. IsRead(role, keys, kids[k])
      BY <1>5, <2>3, <3>1, ConsistentIsRead
    <3> QED
      BY <2>2, <2>4, <3>3, <3>4
  <2>7. \A i \in DOMAIN calls : calls[i].role \in Roles
    BY <2>1, <2>2, <2>4
  <2> QED
    BY <2>1, <2>4, <2>5, <2>6, <2>7 DEF CallsCover, calls
<1>6. CASE node.kind = "map" /\ role \in DOMAIN Choices
  <2>1. Len(kids) = 1 /\ kids[1] \in DOMAIN Choices[role]
    BY <1>2, <1>6 DEF ReadableMap
  <2>2. role \notin DOMAIN Strict /\ role \notin DOMAIN Open /\ node.kind # "seq"
    BY <1>6, RolesByKind DEF StrictRoles, OpenRoles
  <2> DEFINE item == [path |-> Below(p, kids[1]), role |-> Choices[role][kids[1]], read |-> TRUE]
  <2>3. calls = <<item>>
    BY <1>6, <2>2 DEF Calls, Item
  <2>4. item.role \in Roles
    BY <1>6, <2>1, ChosenRoles
  <2>5. DOMAIN kids = {1} /\ item.path \in DOMAIN t
    BY <1>1, <1>4, <1>6, <2>1
  <2>6. item.read /\ item.path = Below(p, kids[1])
    OBVIOUS
  <2> HIDE DEF calls, item
  <2>7. DOMAIN calls = 1 .. 1 /\ calls[1] = item /\ calls \in Seq({item})
    BY <2>3
  <2>8. calls \in Seq(Range(calls))
    BY <2>7, SeqOfRange
  <2>9. \A i \in DOMAIN calls : i = 1
    BY <2>7
  <2> QED
    BY <2>4, <2>5, <2>6, <2>7, <2>8, <2>9 DEF CallsCover, calls
<1>7. CASE node.kind = "map" /\ role \in DOMAIN Open
  <2>1. role \notin DOMAIN Strict /\ role \notin DOMAIN Choices
    BY <1>7, RolesByKind DEF StrictRoles, OpenRoles
  <2>2. calls = [i \in DOMAIN kids |-> [path |-> Below(p, kids[i]), role |-> Open[role], read |-> TRUE]]
    BY <1>7, <2>1 DEF Calls, Item
  <2>3. Open[role] \in Roles
    BY <1>7, OpenLeadsOn
  <2> HIDE DEF calls
  <2>4. calls \in Seq(Range(calls)) /\ DOMAIN calls = DOMAIN kids
    BY <1>1, <1>7, <2>2, ListIsSeq
  <2> QED
    BY <1>1, <1>4, <1>7, <2>2, <2>3, <2>4 DEF CallsCover, calls
<1>8. CASE node.kind = "seq" /\ role \in DOMAIN Lists
  <2>1. calls = [i \in DOMAIN kids |-> [path |-> Below(p, kids[i]), role |-> Lists[role], read |-> TRUE]]
    <3>1. role \notin DOMAIN Pairs /\ node.kind # "map"
      BY <1>8, RolesByKind DEF ListRoles, PairRoles
    <3> QED
      BY <1>8, <3>1 DEF Calls, Item
  <2>2. Lists[role] \in Roles
    BY <1>8, ListsLeadOn
  <2> HIDE DEF calls
  <2>3. calls \in Seq(Range(calls)) /\ DOMAIN calls = DOMAIN kids
    BY <1>1, <1>8, <2>1, ListIsSeq
  <2> QED
    BY <1>1, <1>8, <2>1, <2>2, <2>3 DEF CallsCover, calls
<1>9. CASE node.kind = "seq" /\ role \in DOMAIN Pairs
  <2>1. role \notin DOMAIN Lists /\ Len(kids) = 2
    BY <1>3, <1>9, RolesByKind DEF ListRoles, PairRoles, ReadableList
  <2>2. calls = [i \in 1 .. 2 |-> [path |-> Below(p, kids[i]), role |-> Pairs[role][i], read |-> TRUE]]
    BY <1>9, <2>1 DEF Calls, Item
  <2>3. \A i \in 1 .. 2 : Pairs[role][i] \in Roles
    BY <1>9, PairsLeadOn
  <2> HIDE DEF calls
  <2>4. calls \in Seq(Range(calls)) /\ DOMAIN calls = DOMAIN kids /\ DOMAIN kids = 1 .. 2
    BY <1>1, <1>9, <2>1, <2>2, ListIsSeq
  <2> QED
    BY <1>1, <1>9, <2>2, <2>3, <2>4 DEF CallsCover, calls
<1>10. CASE node.kind \notin {"map", "seq"}
  <2>1. calls = <<>>
    BY <1>10 DEF Calls
  <2> QED
    BY <1>10, <2>1 DEF CallsCover
<1> QED
  BY <1>2, <1>3, <1>5, <1>6, <1>7, <1>8, <1>9, <1>10 DEF ReadableMap, ReadableList

-----------------------------------------------------------------------------
(* The invariant                                                           *)

LEMMA InitIInv == Init => IInv
<1> SUFFICES ASSUME Init PROVE IInv
  OBVIOUS
<1>1. DOMAIN ast = {} /\ todo = <<>> /\ todo \in Seq(Range(todo))
  BY DEF Init
<1> QED
  BY <1>1 DEF Init, IInv, TypeOK, RootIsCovered, KidsAreCovered, DoneIsDone, NothingYet

LEMMA CheckTreeIInv == IInv /\ CheckTree => IInv'
<1> SUFFICES ASSUME IInv, CheckTree PROVE IInv'
  OBVIOUS
<1> USE DEF IInv, TypeOK, RootIsCovered, KidsAreCovered, DoneIsDone, NothingYet
<1>1. CASE phase' = "rejected" /\ UNCHANGED todo
  BY <1>1 DEF CheckTree, Branches, Covered, Waiting
<1>2. CASE phase' = "parse" /\ todo' = <<Item(<<>>, "document", TRUE)>>
  <2> DEFINE root == [path |-> <<>>, role |-> "document", read |-> TRUE]
  <2>1. todo' = <<root>>
    BY <1>2 DEF Item
  <2>2. root.role \in Roles
    BY RolesByKind DEF StrictRoles
  <2>3. root.path \in DOMAIN source
    BY ParserAssumption DEF IsTree
  <2>4. root.read /\ root.path = <<>>
    OBVIOUS
  <2> HIDE DEF root
  <2>5. DOMAIN todo' = {1} /\ todo'[1] = root /\ todo' \in Seq({root})
    BY <2>1
  <2>6. todo' \in Seq(Range(todo'))
    BY <2>5, SeqOfRange
  <2>7. TypeOK'
    BY <1>2, <2>2, <2>3, <2>5, <2>6 DEF CheckTree
  <2>8. Waiting(<<>>)'
    BY <2>4, <2>5 DEF Waiting
  <2>9. KidsAreCovered'
    BY DEF CheckTree, NothingYet
  <2> QED
    BY <1>2, <2>7, <2>8, <2>9 DEF CheckTree, Covered
<1> QED
  BY <1>1, <1>2 DEF CheckTree

LEMMA ReadIInv == IInv /\ Read => IInv'
<1> SUFFICES ASSUME IInv, Read PROVE IInv'
  OBVIOUS
<1> USE DEF IInv
<1> DEFINE item == Head(todo)
           t == source
           calls == Calls(item.path, Node(item), item.role)
<1>1. todo # <<>> /\ todo \in Seq(Range(todo)) /\ item.read
  BY DEF Read, TypeOK
<1>2. item = todo[1] /\ 1 \in DOMAIN todo
  BY <1>1, TailKeeps
<1>3. item.path \in DOMAIN t /\ Node(item) = t[item.path]
  BY <1>1, <1>2 DEF TypeOK, Node
<1>4. CallsCover(t, item.path, calls)
  <2>1. IsTree(t)
    BY ParserAssumption
  <2>2. Readable(t[item.path], item.role)
    BY <1>3 DEF Read
  <2> QED
    BY <1>3, <2>1, <2>2, CallsGoDown
<1>5. /\ todo' = calls \o Tail(todo)
      /\ DOMAIN ast' = DOMAIN ast \cup {item.path}
      /\ UNCHANGED <<source, phase>>
      /\ phase = "parse"
  BY DEF Read
<1> HIDE DEF item, calls
<1>6. Joined(todo', calls, todo)
  <2>1. calls \in Seq(Range(calls))
    BY <1>4 DEF CallsCover
  <2>2. todo' = calls \o Tail(todo)
    BY <1>5
  <2> QED
    BY ONLY <1>1, <2>1, <2>2, ConcatTail
<1>7. ASSUME NEW p, Covered(p) PROVE Covered(p)'
  <2> SUFFICES ASSUME Waiting(p) PROVE Covered(p)'
    BY <1>5, <1>7 DEF Covered
  <2>1. PICK j \in DOMAIN todo : todo[j].read /\ todo[j].path = p
    BY DEF Waiting
  <2>2. CASE j = 1
    BY <1>2, <1>5, <2>1, <2>2 DEF Covered
  <2>3. CASE j # 1
    <3>1. PICK i \in DOMAIN todo' : todo'[i] = todo[j]
      BY <1>6, <2>3 DEF Joined
    <3> QED
      BY <2>1, <3>1 DEF Covered, Waiting
  <2> QED
    BY <2>2, <2>3
<1>8. TypeOK'
  BY <1>3, <1>4, <1>5, <1>6 DEF TypeOK, CallsCover, Joined
<1>9. RootIsCovered'
  BY <1>5, <1>7 DEF RootIsCovered
<1>10. KidsAreCovered'
  <2> SUFFICES ASSUME NEW p \in DOMAIN ast', Branches(p), NEW i \in DOMAIN source[p].kids
               PROVE  Covered(Below(p, source[p].kids[i]))'
    BY <1>5 DEF KidsAreCovered, Branches
  <2>1. PICK kid : kid = Below(p, source[p].kids[i])
    OBVIOUS
  <2>2. CASE p \in DOMAIN ast
    <3>1. Covered(kid)
      BY <2>1, <2>2 DEF KidsAreCovered
    <3>2. Covered(kid)'
      BY <1>7, <3>1
    <3> QED
      BY <1>5, <2>1, <3>2
  <2>3. CASE p = item.path
    <3>1. PICK j \in DOMAIN calls : calls[j].read /\ calls[j].path = kid
      BY <1>4, <2>1, <2>3 DEF CallsCover, Branches
    <3>2. PICK k \in DOMAIN todo' : todo'[k] = calls[j]
      BY <1>6 DEF Joined
    <3>3. Covered(kid)'
      BY <3>1, <3>2 DEF Covered, Waiting
    <3> QED
      BY <1>5, <2>1, <3>3
  <2> QED
    BY <1>5, <2>2, <2>3
<1> QED
  BY <1>5, <1>8, <1>9, <1>10 DEF DoneIsDone, NothingYet

LEMMA SkipIInv == IInv /\ Skip => IInv'
<1> SUFFICES ASSUME IInv, Skip PROVE IInv'
  OBVIOUS
<1> USE DEF IInv
<1>1. /\ todo # <<>> /\ todo \in Seq(Range(todo)) /\ ~ Head(todo).read
      /\ phase = "parse" /\ todo' = Tail(todo) /\ UNCHANGED <<source, phase, ast>>
  BY DEF Skip, TypeOK
<1>2. /\ todo' \in Seq(Range(todo'))
      /\ \A i \in DOMAIN todo' : \E j \in DOMAIN todo : todo'[i] = todo[j]
      /\ \A j \in DOMAIN todo : j = 1 \/ \E i \in DOMAIN todo' : todo'[i] = todo[j]
      /\ Head(todo) = todo[1]
  BY <1>1, TailKeeps
<1>3. \A p : Waiting(p) => Waiting(p)'
  BY <1>1, <1>2 DEF Waiting
<1>4. TypeOK'
  BY <1>1, <1>2 DEF TypeOK
<1>5. RootIsCovered' /\ KidsAreCovered'
  BY <1>1, <1>3 DEF RootIsCovered, KidsAreCovered, Branches, Covered
<1> QED
  BY <1>1, <1>4, <1>5 DEF DoneIsDone, NothingYet

LEMMA NextIInv == IInv /\ [Next]_vars => IInv'
<1> SUFFICES ASSUME IInv, [Next]_vars PROVE IInv'
  OBVIOUS
<1>1. CASE Refuse
  BY <1>1 DEF Refuse, IInv, TypeOK, RootIsCovered, KidsAreCovered, DoneIsDone, NothingYet, Branches, Covered, Waiting
<1>2. CASE Finish
  BY <1>2 DEF Finish, IInv, TypeOK, RootIsCovered, KidsAreCovered, DoneIsDone, NothingYet, Branches, Covered, Waiting
<1>3. CASE UNCHANGED vars
  BY <1>3 DEF vars, IInv, TypeOK, RootIsCovered, KidsAreCovered, DoneIsDone, NothingYet, Branches, Covered, Waiting
<1> QED
  BY <1>1, <1>2, <1>3, CheckTreeIInv, ReadIInv, SkipIInv DEF Next

LEMMA SpecIInv == Spec => []IInv
BY InitIInv, NextIInv, PTL DEF Spec

-----------------------------------------------------------------------------
(* A set of numbers has a least one.                                       *)
LEMMA LeastNumber ==
  ASSUME NEW D, D \subseteq Nat, D # {}
  PROVE  \E d \in D : \A e \in D : ~ (e < d)
<1>1. \E d \in D : \A e \in D : <<e, d>> \notin OpToRel(<, Nat)
  BY NatLessThanWellFounded, WFMin
<1> QED
  BY <1>1 DEF OpToRel

(* A tree of which the root is read, and with a node each of its kids, is  *)
(* read to its leaves.                                                     *)
LEMMA ClosedIsWhole ==
  ASSUME NEW t, IsTree(t), NEW done, <<>> \in done,
         \A p \in done : t[p].kind \in {"map", "seq"} =>
           \A i \in DOMAIN t[p].kids : Below(p, t[p].kids[i]) \in done
  PROVE  DOMAIN t \subseteq done
<1> SUFFICES ASSUME DOMAIN t \ done # {} PROVE FALSE
  OBVIOUS
<1> DEFINE unread == DOMAIN t \ done
           depths == {Len(p) : p \in unread}
<1>1. \A p \in DOMAIN t : p \in Seq(Range(p)) /\ Len(p) \in Nat
  BY DEF IsTree
<1>2. depths \subseteq Nat /\ depths # {}
  BY <1>1
<1>3. PICK d \in depths : \A e \in depths : ~ (e < d)
  <2> HIDE DEF depths
  <2> QED
    BY <1>2, LeastNumber
<1>4. PICK p \in unread : Len(p) = d
  BY <1>3
<1>5. p # <<>> /\ p \in Seq(Range(p))
  BY <1>1, <1>4
<1>6. /\ Parent(p) \in DOMAIN t
      /\ t[Parent(p)].kind \in {"map", "seq"}
      /\ p[Len(p)] \in Range(t[Parent(p)].kids)
  BY <1>4, <1>5 DEF IsTree
<1>7. Below(Parent(p), p[Len(p)]) = p /\ Len(p) \in Nat /\ Len(Parent(p)) = Len(p) - 1
  BY <1>5, PathIsBelowParent
<1>8. Parent(p) \in done
  <2> SUFFICES ASSUME Parent(p) \notin done PROVE FALSE
    OBVIOUS
  <2>1. Len(Parent(p)) \in depths /\ Len(Parent(p)) \in Nat
    BY <1>1, <1>6
  <2>2. Len(Parent(p)) < d /\ d \in Nat
    BY <1>4, <1>7
  <2> QED
    BY <1>3, <2>1, <2>2
<1>9. PICK i \in DOMAIN t[Parent(p)].kids : t[Parent(p)].kids[i] = p[Len(p)]
  BY <1>6 DEF Range
<1> QED
  BY <1>4, <1>6, <1>7, <1>8, <1>9

LEMMA IInvNothingIgnored == IInv => NothingIgnored
<1> SUFFICES ASSUME IInv, phase = "parsed" PROVE DOMAIN source \subseteq DOMAIN ast
  BY DEF NothingIgnored
<1>1. IsTree(source)
  BY ParserAssumption DEF IInv
<1>2. \A p : ~ Waiting(p)
  BY DEF IInv, DoneIsDone, Waiting
<1>3. /\ <<>> \in DOMAIN ast
      /\ \A p \in DOMAIN ast : source[p].kind \in {"map", "seq"} =>
           \A i \in DOMAIN source[p].kids : Below(p, source[p].kids[i]) \in DOMAIN ast
  BY <1>2 DEF IInv, RootIsCovered, KidsAreCovered, Branches, Covered
<1> HIDE DEF IInv
<1> QED
  BY <1>1, <1>3, ClosedIsWhole

(* Every call of the parser is on a node that exists and for a role of its *)
(* grammar, whatever tree it is given.                                     *)
THEOREM ParserTypeCorrect == Spec => []TypeOK
<1>1. IInv => TypeOK
  BY DEF IInv
<1> QED
  BY <1>1, SpecIInv, PTL

(* A document that parses was read to its last node, whatever its size and *)
(* whatever keys its author chose.                                         *)
THEOREM NothingIsIgnored == Spec => []NothingIgnored
BY SpecIInv, IInvNothingIgnored, PTL

-----------------------------------------------------------------------------
(* Values on their way                                                     *)

(* The role of the nodes on the way to a variant or an extension.          *)
FitsAt(n, p, role) ==
  /\ n = 0 => role = "document"
  /\ n = 1 /\ p[1] = "variant_sets" => role = "variant_sets"
  /\ n = 2 /\ p[1] = "variant_sets" => role = "variant_set"
  /\ n > 2 /\ p[1] = "variant_sets" => role = "variant"
  /\ n = 1 /\ p[1] = "extensions" => role = "extensions"
  /\ n = 1 /\ p[1] = "flags" => role = "flags"
  /\ n = 2 /\ p[1] = "flags" => role = "flag"
  /\ n = 3 /\ p[1] = "flags" /\ p[3] = "extensions" => role = "extensions"
  /\ n = 3 /\ p[1] = "flags" /\ p[3] = "environments" => role = "environments"
  /\ n = 4 /\ p[1] = "flags" /\ p[3] = "environments" => role = "environment"
  /\ n = 5 /\ p[1] = "flags" /\ p[3] = "environments" /\ p[5] = "extensions" =>
       role = "extensions"
  /\ n > 1 /\ p[1] = "extensions" => role = "extension"
  /\ n > 3 /\ p[1] = "flags" /\ p[3] = "extensions" => role = "extension"
  /\ n > 5 /\ p[1] = "flags" /\ p[3] = "environments" /\ p[5] = "extensions" =>
       role = "extension"

Fits(p, role) == FitsAt(Len(p), p, role)

(* The role of a kid, as far as it matters for these.                      *)
LeadsTo(role, k, kidRole) ==
  /\ role = "document" => /\ k = "variant_sets" => kidRole = "variant_sets"
                          /\ k = "extensions" => kidRole = "extensions"
                          /\ k = "flags" => kidRole = "flags"
  /\ role = "variant_sets" => kidRole = "variant_set"
  /\ role \in {"variant_set", "variant"} => kidRole = "variant"
  /\ role = "flags" => kidRole = "flag"
  /\ role = "flag" => /\ k = "extensions" => kidRole = "extensions"
                      /\ k = "environments" => kidRole = "environments"
  /\ role = "environments" => kidRole = "environment"
  /\ role = "environment" => (k = "extensions" => kidRole = "extensions")
  /\ role \in {"extensions", "extension"} => kidRole = "extension"

TodoFits == \A i \in DOMAIN todo : todo[i].read => Fits(todo[i].path, todo[i].role)

AstFits ==
  \A p \in DOMAIN ast : \E role \in Roles :
    /\ Fits(p, role)
    /\ Readable(source[p], role)
    /\ ast[p] = MadeOf(source[p], role)

TreeIsAdmitted == phase \in {"parse", "parsed"} => \A p \in DOMAIN source : Admitted(source[p])

RolesFit == TodoFits /\ AstFits /\ TreeIsAdmitted

-----------------------------------------------------------------------------
(* Roles follow paths                                                      *)

LEMMA FitsOneDeeper ==
  ASSUME NEW n \in Nat, NEW p, NEW q, NEW k, NEW role, NEW kidRole,
         \A i \in 1 .. n : q[i] = p[i], q[n + 1] = k,
         FitsAt(n, p, role), LeadsTo(role, k, kidRole)
  PROVE  FitsAt(n + 1, q, kidRole)
<1>0. LeadsTo(role, k, kidRole)
  OBVIOUS
<1>00. FitsAt(n, p, role)
  OBVIOUS
<1>1. CASE n = 0
  <2>1. q[1] = k
    BY <1>1
  <2>2. FitsAt(0, p, role)
    BY <1>1
  <2>3. FitsAt(1, q, kidRole)
    BY ONLY <1>0, <2>1, <2>2 DEF FitsAt, LeadsTo
  <2> QED
    BY <1>1, <2>3
<1>2. CASE n = 1
  <2>1. q[1] = p[1]
    BY <1>2
  <2>2. FitsAt(1, p, role)
    BY <1>2
  <2>3. FitsAt(2, q, kidRole)
    BY ONLY <1>0, <2>1, <2>2 DEF FitsAt, LeadsTo
  <2> QED
    BY <1>2, <2>3
<1>3. CASE n = 2
  <2>1. q[1] = p[1] /\ q[3] = k
    BY <1>3
  <2>2. FitsAt(2, p, role)
    BY <1>3
  <2>3. FitsAt(3, q, kidRole)
    BY ONLY <1>0, <2>1, <2>2 DEF FitsAt, LeadsTo
  <2> QED
    BY <1>3, <2>3
<1>4. CASE n = 3
  <2>1. q[1] = p[1] /\ q[3] = p[3]
    BY <1>4
  <2>2. FitsAt(3, p, role)
    BY <1>4
  <2>3. FitsAt(4, q, kidRole)
    BY ONLY <1>0, <2>1, <2>2 DEF FitsAt, LeadsTo
  <2> QED
    BY <1>4, <2>3
<1>5. CASE n = 4
  <2>1. q[1] = p[1] /\ q[3] = p[3] /\ q[5] = k
    BY <1>5
  <2>2. FitsAt(4, p, role)
    BY <1>5
  <2>3. FitsAt(5, q, kidRole)
    BY ONLY <1>0, <2>1, <2>2 DEF FitsAt, LeadsTo
  <2> QED
    BY <1>5, <2>3
<1>6. CASE n > 4
  <2>1. q[1] = p[1] /\ q[3] = p[3] /\ q[5] = p[5]
    BY <1>6
  <2> QED
    BY ONLY n \in Nat, <1>0, <1>00, <1>6, <2>1 DEF FitsAt, LeadsTo
<1> QED
  BY <1>1, <1>2, <1>3, <1>4, <1>5, <1>6

LEMMA FitsBelow ==
  ASSUME NEW p, p \in Seq(Range(p)), NEW role, Fits(p, role),
         NEW k, NEW kidRole, LeadsTo(role, k, kidRole)
  PROVE  Fits(Below(p, k), kidRole)
<1> DEFINE n == Len(p)
           q == Append(p, k)
<1>1. /\ n \in Nat /\ Len(q) = n + 1
      /\ \A i \in 1 .. n : q[i] = p[i]
      /\ q[n + 1] = k
  OBVIOUS
<1>2. FitsAt(n, p, role)
  BY DEF Fits
<1> HIDE DEF n, q
<1>3. FitsAt(n + 1, q, kidRole)
  BY <1>1, <1>2, FitsOneDeeper
<1> QED
  BY <1>1, <1>3 DEF Fits, Below, q

(* What the fields of the strict mappings on the way lead to.              *)
LEMMA FieldsLeadTo ==
  ASSUME NEW role \in DOMAIN Strict, NEW i \in DOMAIN Strict[role]
  PROVE  LeadsTo(role, Strict[role][i][1], Strict[role][i][2])
<1> DEFINE f == Strict[role][i]
<1>1. CASE role = "document"
  <2>1. Strict[role] = DocumentFields
    BY <1>1 DEF Strict
  <2>2. /\ f[1] = "variant_sets" => f[2] = "variant_sets"
        /\ f[1] = "extensions" => f[2] = "extensions"
        /\ f[1] = "flags" => f[2] = "flags"
    <3>1. DOMAIN DocumentFields = 1 .. 6
      BY DEF DocumentFields
    <3>2. i = 1 \/ i = 2 \/ i = 3 \/ i = 4 \/ i = 5 \/ i = 6
      BY <2>1, <3>1
    <3>3. /\ DocumentFields[1] = <<"version", "text">>
          /\ DocumentFields[2] = <<"variant_sets", "variant_sets">>
          /\ DocumentFields[3] = <<"rules", "conditions">>
          /\ DocumentFields[4] = <<"distributions", "distributions">>
          /\ DocumentFields[5] = <<"extensions", "extensions">>
          /\ DocumentFields[6] = <<"flags", "flags">>
      BY DEF DocumentFields
    <3>4. f = DocumentFields[i]
      BY <2>1
    <3> HIDE DEF f
    <3> QED
      BY <3>2, <3>3, <3>4
  <2> QED
    BY <1>1, <2>2 DEF LeadsTo
<1>2. CASE role = "flag"
  <2>1. Strict[role] = FlagFields
    BY <1>2 DEF Strict
  <2>2. /\ f[1] = "extensions" => f[2] = "extensions"
        /\ f[1] = "environments" => f[2] = "environments"
    BY <2>1 DEF FlagFields
  <2> QED
    BY <1>2, <2>2 DEF LeadsTo
<1>3. CASE role = "environment"
  <2>1. Strict[role] = EnvironmentFields
    BY <1>3 DEF Strict
  <2>2. f[1] = "extensions" => f[2] = "extensions"
    BY <2>1 DEF EnvironmentFields
  <2> QED
    BY <1>3, <2>2 DEF LeadsTo
<1>4. CASE role \notin {"document", "flag", "environment"}
  <2>1. role \in {"distribution", "entry", "action", "rollout", "step"}
    BY <1>4, RolesByKind DEF StrictRoles
  <2> QED
    BY <2>1 DEF LeadsTo
<1> QED
  BY <1>1, <1>2, <1>3, <1>4

(* Every call of the parser that is made follows the path.                 *)
LEMMA CallsFit ==
  ASSUME NEW node, node.kind \in {"map", "seq"} => node.kids \in Seq(Range(node.kids)),
         NEW p, p \in Seq(Range(p)), NEW role, Readable(node, role), Fits(p, role),
         NEW i \in DOMAIN Calls(p, node, role)
  PROVE  Fits(Calls(p, node, role)[i].path, Calls(p, node, role)[i].role)
<1> DEFINE call == Calls(p, node, role)[i]
<1> SUFFICES \E k, kidRole : /\ call.path = Below(p, k) /\ call.role = kidRole
                          /\ LeadsTo(role, k, kidRole)
  BY FitsBelow
<1>1. CASE node.kind = "map" /\ role \in DOMAIN Strict
  <2>1. role \notin DOMAIN Choices /\ role \notin DOMAIN Open /\ node.kind # "seq"
    BY <1>1, RolesByKind DEF StrictRoles, OpenRoles
  <2>2. i \in DOMAIN Strict[role] /\ call.path = Below(p, Strict[role][i][1])
        /\ call.role = Strict[role][i][2]
    BY <1>1, <2>1 DEF Calls, Item
  <2> QED
    BY <1>1, <2>2, FieldsLeadTo
<1>2. CASE node.kind = "map" /\ role \in DOMAIN Choices
  <2>1. role \notin DOMAIN Strict /\ role \notin DOMAIN Open /\ node.kind # "seq"
    BY <1>2, RolesByKind DEF StrictRoles, OpenRoles
  <2>2. call.path = Below(p, node.kids[1])
    BY <1>2, <2>1 DEF Calls, Item
  <2>3. LeadsTo(role, node.kids[1], call.role)
    BY <1>2, RolesByKind DEF LeadsTo
  <2> QED
    BY <2>2, <2>3
<1>3. CASE node.kind = "map" /\ role \in DOMAIN Open
  <2>1. role \notin DOMAIN Strict /\ role \notin DOMAIN Choices /\ node.kind # "seq"
    BY <1>3, RolesByKind DEF StrictRoles, OpenRoles
  <2>2. call.path = Below(p, node.kids[i]) /\ call.role = Open[role]
    BY <1>3, <2>1 DEF Calls, Item
  <2>3. LeadsTo(role, node.kids[i], Open[role])
    BY <1>3, RolesByKind DEF LeadsTo, Open, OpenRoles
  <2> QED
    BY <2>2, <2>3
<1>4. CASE node.kind = "seq" /\ role \in DOMAIN Lists
  <2>1. role \notin DOMAIN Pairs /\ node.kind # "map"
    BY <1>4, RolesByKind DEF ListRoles, PairRoles
  <2>2. call.path = Below(p, node.kids[i]) /\ call.role = Lists[role]
    BY <1>4, <2>1 DEF Calls, Item
  <2>3. LeadsTo(role, node.kids[i], Lists[role])
    BY <1>4, RolesByKind DEF LeadsTo, Lists, ListRoles
  <2> QED
    BY <2>2, <2>3
<1>5. CASE node.kind = "seq" /\ role \in DOMAIN Pairs
  <2>1. role \notin DOMAIN Lists /\ node.kind # "map"
    BY <1>5, RolesByKind DEF ListRoles, PairRoles
  <2>2. call.path = Below(p, node.kids[i])
    BY <1>5, <2>1 DEF Calls, Item
  <2>3. LeadsTo(role, node.kids[i], call.role)
    BY <1>5, RolesByKind DEF LeadsTo, PairRoles
  <2> QED
    BY <2>2, <2>3
<1>6. CASE node.kind \notin {"map", "seq"}
  BY <1>6 DEF Calls
<1> QED
  BY <1>1, <1>2, <1>3, <1>4, <1>5, <1>6 DEF Readable, ReadableMap, ReadableList

LEMMA InitRoles == Init => RolesFit
BY DEF Init, RolesFit, TodoFits, AstFits, TreeIsAdmitted

LEMMA CheckTreeRoles == IInv /\ RolesFit /\ CheckTree => RolesFit'
<1> SUFFICES ASSUME IInv, RolesFit, CheckTree PROVE RolesFit'
  OBVIOUS
<1>1. AstFits' /\ UNCHANGED <<source, ast>>
  BY DEF CheckTree, IInv, NothingYet, RolesFit, AstFits
<1>2. CASE phase' = "rejected" /\ UNCHANGED todo
  BY <1>1, <1>2 DEF RolesFit, TodoFits, TreeIsAdmitted
<1>3. CASE /\ \A p \in DOMAIN source : Admitted(source[p])
           /\ phase' = "parse"
           /\ todo' = <<Item(<<>>, "document", TRUE)>>
  <2> DEFINE root == [path |-> <<>>, role |-> "document", read |-> TRUE]
  <2>1. todo' = <<root>>
    BY <1>3 DEF Item
  <2>2. Len(<<>>) = 0 /\ root.path = <<>> /\ root.role = "document"
    OBVIOUS
  <2>3. FitsAt(0, <<>>, "document")
    BY DEF FitsAt
  <2>4. Fits(root.path, root.role)
    BY <2>2, <2>3 DEF Fits
  <2> HIDE DEF root
  <2>5. DOMAIN todo' = {1} /\ todo'[1] = root
    BY <2>1
  <2>6. TodoFits'
    BY <2>4, <2>5 DEF TodoFits
  <2> QED
    BY <1>1, <1>3, <2>6 DEF RolesFit, TreeIsAdmitted
<1> QED
  BY <1>2, <1>3 DEF CheckTree

LEMMA ReadRoles == IInv /\ RolesFit /\ Read => RolesFit'
<1> SUFFICES ASSUME IInv, RolesFit, Read PROVE RolesFit'
  OBVIOUS
<1> DEFINE item == Head(todo)
           calls == Calls(item.path, Node(item), item.role)
<1>1. todo # <<>> /\ todo \in Seq(Range(todo)) /\ item.read
  BY DEF Read, IInv, TypeOK
<1>2. item = todo[1] /\ 1 \in DOMAIN todo
  BY <1>1, TailKeeps
<1>3. /\ item.path \in DOMAIN source /\ Node(item) = source[item.path] /\ item.role \in Roles
      /\ Fits(item.path, item.role)
  BY <1>1, <1>2 DEF IInv, TypeOK, Node, RolesFit, TodoFits
<1>4. /\ Readable(source[item.path], item.role)
      /\ todo' = calls \o Tail(todo)
      /\ ast' = [p \in DOMAIN ast \cup {item.path} |->
                   IF p = item.path THEN MadeOf(source[item.path], item.role) ELSE ast[p]]
      /\ UNCHANGED <<source, phase>>
  BY <1>3 DEF Read
<1>5. IsTree(source)
  BY ParserAssumption DEF IInv
<1>6. CallsCover(source, item.path, calls)
  BY <1>3, <1>4, <1>5, CallsGoDown
<1>7. \A i \in DOMAIN calls : Fits(calls[i].path, calls[i].role)
  <2>1. item.path \in Seq(Range(item.path))
    BY <1>3, <1>5 DEF IsTree
  <2>2. Node(item).kind \in {"map", "seq"} => Node(item).kids \in Seq(Range(Node(item).kids))
    BY <1>3, <1>5 DEF IsTree
  <2> QED
    BY <1>3, <1>4, <2>1, <2>2, CallsFit
<1> HIDE DEF item, calls
<1>8. Joined(todo', calls, todo)
  <2>1. calls \in Seq(Range(calls)) /\ todo' = calls \o Tail(todo)
    BY <1>4, <1>6 DEF CallsCover
  <2> QED
    BY ONLY <1>1, <2>1, ConcatTail
<1>9. TodoFits'
  BY <1>7, <1>8 DEF TodoFits, Joined, RolesFit
<1>10. AstFits'
  <2> SUFFICES ASSUME NEW p \in DOMAIN ast'
               PROVE  \E role \in Roles : /\ Fits(p, role)
                                          /\ Readable(source[p], role)
                                          /\ ast'[p] = MadeOf(source[p], role)
    BY <1>4 DEF AstFits
  <2>1. CASE p = item.path
    BY <1>3, <1>4, <2>1
  <2>2. CASE p # item.path
    <3>1. p \in DOMAIN ast /\ ast'[p] = ast[p]
      BY <1>4, <2>2
    <3> QED
      BY <3>1 DEF RolesFit, AstFits
  <2> QED
    BY <2>1, <2>2
<1> QED
  BY <1>4, <1>9, <1>10 DEF RolesFit, TreeIsAdmitted

LEMMA SkipRoles == IInv /\ RolesFit /\ Skip => RolesFit'
<1> SUFFICES ASSUME IInv, RolesFit, Skip PROVE RolesFit'
  OBVIOUS
<1>1. /\ todo # <<>> /\ todo \in Seq(Range(todo))
      /\ todo' = Tail(todo) /\ UNCHANGED <<source, phase, ast>>
  BY DEF Skip, IInv, TypeOK
<1>2. \A i \in DOMAIN todo' : \E j \in DOMAIN todo : todo'[i] = todo[j]
  BY <1>1, TailKeeps
<1>3. TodoFits'
  BY <1>2 DEF TodoFits, RolesFit
<1> QED
  BY <1>1, <1>3 DEF RolesFit, AstFits, TreeIsAdmitted

LEMMA NextRoles == IInv /\ RolesFit /\ [Next]_vars => RolesFit'
<1> SUFFICES ASSUME IInv, RolesFit, [Next]_vars PROVE RolesFit'
  OBVIOUS
<1>1. CASE Refuse
  BY <1>1 DEF Refuse, RolesFit, TodoFits, AstFits, TreeIsAdmitted
<1>2. CASE Finish
  BY <1>2 DEF Finish, RolesFit, TodoFits, AstFits, TreeIsAdmitted
<1>3. CASE UNCHANGED vars
  BY <1>3 DEF vars, RolesFit, TodoFits, AstFits, TreeIsAdmitted
<1> QED
  BY <1>1, <1>2, <1>3, CheckTreeRoles, ReadRoles, SkipRoles DEF Next

-----------------------------------------------------------------------------
(* What the parser has made of variants and extensions                     *)

DataKinds == {"null", "bool", "string", "int", "double", "object", "list"}
Values == [kind : DataKinds, n : Int]

InVariant(p) == Len(p) > 2 /\ p[1] = "variant_sets"

LEMMA FitsVariant ==
  ASSUME NEW p, NEW role, Fits(p, role), InVariant(p)
  PROVE  role = "variant"
BY DEF Fits, FitsAt, InVariant

LEMMA FitsExtension ==
  ASSUME NEW p, NEW role, Fits(p, role), InExtension(p)
  PROVE  role = "extension"
BY DEF Fits, FitsAt, InExtension

LEMMA MadeOfScalar ==
  ASSUME NEW node, node.kind = "scalar", NEW role \in Free
  PROVE  MadeOf(node, role) = Scalar(node)
<1>1. node.kind # "map" /\ node.kind # "seq"
  OBVIOUS
<1> HIDE DEF Scalar
<1> QED
  BY <1>1 DEF MadeOf

LEMMA MadeIsValue ==
  ASSUME NEW node, NEW role \in {"variant", "extension"},
         node.kind \in {"map", "seq", "scalar"}, node.kind = "scalar" => node.n \in Int
  PROVE  MadeOf(node, role) \in Values
<1>1. role \in Free
  BY DEF Free
<1>2. CASE node.kind = "map"
  BY <1>1, <1>2 DEF MadeOf, Values, DataKinds
<1>3. CASE node.kind = "seq"
  BY <1>1, <1>3 DEF MadeOf, Values, DataKinds
<1>4. CASE node.kind = "scalar"
  <2>1. MadeOf(node, role) = Scalar(node)
    BY <1>1, <1>4, MadeOfScalar
  <2>2. Scalar(node) \in Values
    BY <1>4 DEF Scalar, Values, DataKinds
  <2> QED
    BY <2>1, <2>2
<1> QED
  BY <1>2, <1>3, <1>4

LEMMA AstIsData ==
  ASSUME IInv, RolesFit, phase = "parsed", NEW p \in DOMAIN ast, InVariant(p) \/ InExtension(p)
  PROVE  ast[p] \in Values
<1>1. PICK role \in Roles : Fits(p, role) /\ ast[p] = MadeOf(source[p], role)
  BY DEF RolesFit, AstFits
<1>2. role \in {"variant", "extension"}
  BY <1>1, FitsVariant, FitsExtension
<1>3. p \in DOMAIN source /\ IsTree(source) /\ Admitted(source[p])
  BY ParserAssumption DEF IInv, TypeOK, RolesFit, TreeIsAdmitted
<1>4. source[p].kind \in {"map", "seq", "scalar"} /\ (source[p].kind = "scalar" => source[p].n \in Int)
  BY <1>3 DEF IsTree, Admitted
<1> QED
  BY <1>1, <1>2, <1>4, MadeIsValue

(* A number of an extension is kept, or the document was refused.          *)
LEMMA ExtensionNumbersAreKept ==
  ASSUME IInv, RolesFit, phase = "parsed", NEW p \in DOMAIN ast, InExtension(p), Written(p)
  PROVE  Kept(p)
<1>1. PICK role \in Roles : /\ Fits(p, role)
                            /\ Readable(source[p], role)
                            /\ ast[p] = MadeOf(source[p], role)
  BY DEF RolesFit, AstFits
<1>2. role = "extension" /\ role \in Free
  BY <1>1, FitsExtension DEF Free
<1>3. ReadableScalar(source[p], "extension")
  BY <1>1, <1>2 DEF Readable, Written
<1>4. source[p].form # "huge_float" /\ (source[p].form = "int" => InInt64(source[p].n))
  BY <1>3 DEF ReadableScalar, Written
<1>5. ast[p] = Scalar(source[p])
  BY <1>1, <1>2, MadeOfScalar DEF Written
<1> QED
  BY <1>4, <1>5 DEF Scalar, Written, Kept

-----------------------------------------------------------------------------
(* Conversions                                                             *)

(* Through Go's own types and back, a value is what it was.                *)
LEMMA ThereAndBack ==
  ASSUME NEW v \in Values
  PROVE  /\ [v EXCEPT !.kind = IRKind(@)] = v
         /\ [[v EXCEPT !.kind = GoType[@]] EXCEPT !.kind = IRKind(@)] = v
<1>1. IRKind(v.kind) = v.kind
  BY DEF Values, DataKinds, IRKind
<1>2. IRKind(GoType[v.kind]) = v.kind
  BY DEF Values, DataKinds, IRKind, GoType
<1> QED
  BY <1>1, <1>2 DEF Values

LEMMA YamlKeepsValues ==
  ASSUME NEW v
  PROVE  Yaml(v) = v
BY DEF Yaml, Literal

(* binary64 keeps an integer that IsSafe lets pass.                        *)
LEMMA SafeIsExact ==
  ASSUME NEW n \in Int, IsSafe(n)
  PROVE  Binary64(n) = n
<1>1. -SafeMax - 1 <= n /\ n <= SafeMax + 1
  BY TransportAssumption DEF IsSafe
<1> QED
  BY <1>1 DEF Binary64

-----------------------------------------------------------------------------
(* The invariant                                                           *)

StagesOK ==
  /\ stage \in {"authored", "normalized", "lowered", "valid", "encoded", "written", "refused"}
  /\ stage # "authored" => phase = "parsed"
  /\ wire \in {"none", "protobuf", "yaml"}
  /\ trips \in 0 .. MaxTrips

FlagFollows ==
  /\ flag \in [set : VariantSetNames \cup {"none"}, target : Targets \cup {"none"}]
  /\ stage = "authored" => flag = NoFlag
  /\ stage # "authored" => flag.set \in VariantSetNames
  /\ stage \notin {"written", "refused"} => flag.target = "none"

Document == Of(flag.set) \cup Extensions

ValuesFollow ==
  /\ DOMAIN values \subseteq DOMAIN ast
  /\ stage = "authored" => DOMAIN values = {}
  /\ stage = "normalized" => values = [p \in Document |-> Normalized(p)]
  /\ stage \in {"lowered", "valid", "encoded"} => values = [p \in Document |-> ast[p]]
  /\ stage = "valid" => Acceptable

UnknownFollows ==
  /\ stage \in {"authored", "normalized", "lowered"} => added = {}
  /\ unknown \subseteq added
  /\ added \subseteq {<<>>} \cup DOMAIN ast
  /\ stage = "valid" => unknown = added
  /\ stage = "encoded" => unknown = added

TInv ==
  /\ StagesOK
  /\ FlagFollows
  /\ ValuesFollow
  /\ UnknownFollows
  /\ ValuesArriveWhole
  /\ RefusedForCause

LEMMA InitTInv == TransportInit => TInv
<1> SUFFICES ASSUME TransportInit PROVE TInv
  OBVIOUS
<1>0. stage = "authored" /\ wire = "none" /\ trips = 0 /\ values = <<>> /\ DOMAIN values = {}
  BY DEF TransportInit
<1>1. StagesOK
  BY <1>0, TransportAssumption DEF StagesOK
<1>2. FlagFollows
  BY DEF TransportInit, FlagFollows, NoFlag
<1>3. ValuesFollow
  BY <1>0 DEF ValuesFollow
<1> QED
  BY <1>1, <1>2, <1>3 DEF TransportInit, TInv, UnknownFollows, ValuesArriveWhole, RefusedForCause

(* While the parser is at work there is no document yet.                   *)
LEMMA ParserTInv == IInv /\ TInv /\ Next /\ UNCHANGED tvars => TInv'
<1> SUFFICES ASSUME IInv, TInv, Next, UNCHANGED tvars PROVE TInv'
  OBVIOUS
<1>1. phase # "parsed"
  BY DEF Next, CheckTree, Read, Skip, Refuse, Finish
<1>2. stage = "authored" /\ stage' = "authored"
  BY <1>1 DEF TInv, StagesOK, tvars
<1>3. flag = NoFlag /\ added = {} /\ unknown = {} /\ DOMAIN values = {}
  BY <1>2 DEF TInv, FlagFollows, UnknownFollows, ValuesFollow
<1>4. StagesOK'
  BY <1>2 DEF TInv, StagesOK, tvars
<1>5. FlagFollows'
  BY <1>2, <1>3 DEF FlagFollows, NoFlag, tvars
<1>6. ValuesFollow' /\ UnknownFollows'
  BY <1>2, <1>3 DEF ValuesFollow, UnknownFollows, tvars
<1> QED
  BY <1>2, <1>4, <1>5, <1>6 DEF TInv, ValuesArriveWhole, RefusedForCause

(* The nodes of the document are data.                                     *)
LEMMA DocumentIsData ==
  ASSUME IInv, RolesFit, phase = "parsed", NEW set, NEW p \in Of(set) \cup Extensions
  PROVE  ast[p] \in Values
BY AstIsData DEF Of, Extensions, InVariant

LEMMA NormalizeTInv ==
  ASSUME IInv, RolesFit, TInv, NEW set \in VariantSetNames, Normalize(set), UNCHANGED vars
  PROVE  TInv'
<1> USE DEF TInv
<1>1. /\ phase = "parsed" /\ stage = "authored" /\ flag = NoFlag
      /\ flag' = [set |-> set, target |-> "none"]
      /\ UNCHANGED <<phase, ast, wire, unknown, added, trips>>
  BY DEF Normalize, FlagFollows, vars, NoFlag
<1>2. UnknownFollows' /\ UNCHANGED VariantSetNames
  BY <1>1 DEF Normalize, UnknownFollows, VariantSetNames
<1>3. FlagFollows'
  BY <1>1, <1>2 DEF Normalize, FlagFollows
<1>4. StagesOK'
  BY <1>1 DEF Normalize, StagesOK
<1>5. CASE /\ stage' = "refused" /\ UNCHANGED values
           /\ \/ \E s \in VariantSetNames : ~ NamedAndFilled(s)
              \/ \E p \in Extensions : ~ SchemaTakes(ast, p, TextMax)
  <2>1. RefusedForCause'
    <3>1. CASE \E s \in VariantSetNames : ~ NamedAndFilled(s)
      BY <1>1, <1>2, <3>1 DEF RefusedForCause, NamedAndFilled, Of
    <3>2. CASE \E p \in Extensions : ~ SchemaTakes(ast, p, TextMax)
      <4>1. PICK p \in Extensions : TooLargeOrDeep(p)
        BY <3>2 DEF TooLargeOrDeep
      <4>2. p \in (Of(flag.set) \cup Extensions)' /\ TooLargeOrDeep(p)'
        BY <1>1, <4>1 DEF Extensions, TooLargeOrDeep
      <4> QED
        BY <4>2 DEF RefusedForCause
    <3> QED
      BY <1>5, <3>1, <3>2
  <2>2. ValuesFollow'
    BY <1>1, <1>5 DEF ValuesFollow
  <2> QED
    BY <1>2, <1>3, <1>4, <1>5, <2>1, <2>2 DEF ValuesArriveWhole
<1>6. CASE stage' = "normalized" /\ values' = [p \in Of(set) \cup Extensions |-> Normalized(p)]
  <2>1. Document' = Of(set) \cup Extensions /\ Document' \subseteq DOMAIN ast
    BY <1>1 DEF Document, Of, Extensions
  <2>2. \A p : Normalized(p)' = Normalized(p)
    BY <1>1 DEF Normalized, InObject
  <2>3. ValuesFollow'
    BY <1>1, <1>6, <2>1, <2>2 DEF ValuesFollow
  <2> QED
    BY <1>2, <1>3, <1>4, <1>6, <2>3 DEF ValuesArriveWhole, RefusedForCause
<1> QED
  BY <1>5, <1>6 DEF Normalize

LEMMA LowerTInv ==
  ASSUME IInv, RolesFit, TInv, Lower, UNCHANGED vars
  PROVE  TInv'
<1> USE DEF TInv
<1>1. /\ stage = "normalized" /\ stage' = "lowered" /\ phase = "parsed"
      /\ UNCHANGED <<phase, ast, flag, wire, unknown, added, trips>>
  BY DEF Lower, StagesOK, vars
<1>2. UNCHANGED VariantSetNames /\ UNCHANGED Document
  BY <1>1 DEF VariantSetNames, Document, Of, Extensions
<1>3. UnknownFollows' /\ FlagFollows' /\ StagesOK'
  BY <1>1, <1>2 DEF UnknownFollows, FlagFollows, StagesOK
<1>4. values = [p \in Document |-> Normalized(p)]
  BY <1>1 DEF ValuesFollow
<1>5. ASSUME NEW p \in Document PROVE [Normalized(p) EXCEPT !.kind = IRKind(@)] = ast[p]
  <2>1. ast[p] \in Values
    BY <1>1, DocumentIsData DEF Document
  <2> QED
    BY <2>1, ThereAndBack DEF Normalized
<1>6. values' = [p \in Document |-> ast[p]]
  BY <1>4, <1>5 DEF Lower
<1>7. Document \subseteq DOMAIN ast
  BY DEF Document, Of, Extensions
<1>8. ValuesFollow'
  BY <1>1, <1>2, <1>6, <1>7 DEF ValuesFollow
<1> QED
  BY <1>1, <1>3, <1>8 DEF ValuesArriveWhole, RefusedForCause

-----------------------------------------------------------------------------
(* Why a document is refused                                               *)

SameKinds(set) == \A p, q \in Roots(Of(set)) : ast[p].kind = ast[q].kind

LEMMA DepthIsNumber ==
  ASSUME IInv, NEW p \in DOMAIN ast
  PROVE  Depth(p) \in Int
<1>1. Len(p) \in Int
  BY ParserAssumption DEF IInv, TypeOK, IsTree
<1> DEFINE d == CASE p[1] = "variant_sets" -> 3
                  [] p[1] = "extensions" -> 2
                  [] p[1] = "flags" /\ p[3] = "extensions" -> 4
                  [] OTHER -> 6
<1>2. d \in Int
  OBVIOUS
<1>3. Depth(p) = Len(p) - d
  BY DEF Depth
<1> HIDE DEF d
<1> QED
  BY <1>1, <1>2, <1>3

(* The variants of the document are those of the flag's set.               *)
LEMMA RootsAreVariants == Roots(Document) = Roots(Of(flag.set))
BY DEF Roots, Document, Extensions, InExtension

LEMMA HomogeneousVariants ==
  ASSUME values = [p \in Document |-> ast[p]]
  PROVE  Homogeneous <=> SameKinds(flag.set)
<1>1. DOMAIN values = Document
  OBVIOUS
<1>2. \A p \in Roots(Of(flag.set)) : values[p] = ast[p]
  BY DEF Roots, Document
<1> QED
  BY <1>1, <1>2, RootsAreVariants DEF Homogeneous, SameKinds

(* A path of a parsed document: Len and elements of it and of its parent.  *)
LEMMA ParentAgrees ==
  ASSUME NEW p, p \in Seq(Range(p)), p # <<>>
  PROVE  \A i \in 1 .. Len(p) - 1 : Parent(p)[i] = p[i]
<1> DEFINE n == Len(p) - 1
           q == SubSeq(p, 1, n)
<1>1. n \in Nat /\ \A i \in 1 .. n : p[i] \in Range(p)
  BY DEF Range
<1>2. \A i \in 1 .. n - 1 + 1 : q[i] = p[1 + i - 1]
  BY <1>1, SubSeqProperties
<1>3. q = Parent(p)
  BY DEF Parent
<1> HIDE DEF n, q
<1>4. \A i \in 1 .. n : q[i] = p[i]
  BY <1>1, <1>2
<1> QED
  BY <1>3, <1>4 DEF n

LEMMA ParentOfRoot == Parent(<<>>) = <<>>
<1>1. Len(SubSeq(<<>>, 1, -1)) = 0
  OBVIOUS
<1>2. SubSeq(<<>>, 1, -1) = <<>>
  BY <1>1
<1> QED
  BY <1>2 DEF Parent

LEMMA PathsAreSequences ==
  ASSUME IInv, NEW p \in DOMAIN ast
  PROVE  p \in Seq(Range(p)) /\ Len(p) \in Nat
<1>1. p \in DOMAIN source /\ IsTree(source)
  BY ParserAssumption DEF IInv, TypeOK
<1>2. p \in Seq(Range(p))
  BY <1>1 DEF IsTree
<1> QED
  BY <1>2

(* A path as long as another, with the same way there.                     *)
Kin(p, q) == Len(q) >= Len(p) /\ \A i \in 1 .. Len(p) - 1 : q[i] = p[i]

LEMMA DocumentHoldsKin ==
  ASSUME IInv, NEW p \in Document, NEW q \in DOMAIN ast, Kin(p, q)
  PROVE  q \in Document
<1>1. p \in DOMAIN ast
  BY DEF Document, Of, Extensions
<1>2. Len(p) \in Nat /\ Len(q) \in Nat /\ Len(q) >= Len(p)
  BY <1>1, PathsAreSequences DEF Kin
<1>3. \A i \in 1 .. Len(p) - 1 : q[i] = p[i]
  BY DEF Kin
<1>4. CASE p \in Of(flag.set)
  <2>1. Len(p) > 2 /\ p[1] = "variant_sets" /\ p[2] = flag.set
    BY <1>4 DEF Of
  <2>2. q[1] = p[1] /\ q[2] = p[2] /\ Len(q) > 2
    BY <1>2, <1>3, <2>1
  <2> QED
    BY <2>1, <2>2 DEF Document, Of
<1>5. CASE InExtension(p)
  <2>1. CASE Len(p) > 1 /\ p[1] = "extensions"
    <3>1. q[1] = p[1] /\ Len(q) > 1
      BY <1>2, <1>3, <2>1
    <3> QED
      BY <2>1, <3>1 DEF Document, Extensions, InExtension
  <2>2. CASE Len(p) > 3 /\ p[1] = "flags" /\ p[3] = "extensions"
    <3>1. q[1] = p[1] /\ q[3] = p[3] /\ Len(q) > 3
      BY <1>2, <1>3, <2>2
    <3> QED
      BY <2>2, <3>1 DEF Document, Extensions, InExtension
  <2>3. CASE Len(p) > 5 /\ p[1] = "flags" /\ p[3] = "environments" /\ p[5] = "extensions"
    <3>1. q[1] = p[1] /\ q[3] = p[3] /\ q[5] = p[5] /\ Len(q) > 5
      BY <1>2, <1>3, <2>3
    <3> QED
      BY <2>3, <3>1 DEF Document, Extensions, InExtension
  <2> QED
    BY <1>5, <2>1, <2>2, <2>3 DEF InExtension
<1> QED
  BY <1>4, <1>5 DEF Document, Extensions

(* A node of the document lies below another of it, or at depth 0.         *)
LEMMA DocumentHoldsParents ==
  ASSUME IInv, phase = "parsed", NEW p \in Document, Depth(p) > 0
  PROVE  Parent(p) \in Document
<1>1. p \in DOMAIN ast /\ p \in DOMAIN source /\ IsTree(source)
  BY ParserAssumption DEF IInv, TypeOK, Document, Of, Extensions
<1>2. p \in Seq(Range(p)) /\ Len(p) \in Nat
  BY <1>1, PathsAreSequences
<1>3. p # <<>>
  BY <1>2 DEF Document, Of, Extensions, InExtension
<1>4. Parent(p) \in DOMAIN ast
  BY <1>1, <1>3, IInvNothingIgnored DEF IsTree, NothingIgnored
<1>5. Len(Parent(p)) = Len(p) - 1
  BY <1>2, <1>3, PathIsBelowParent
<1>6. \A i \in 1 .. Len(p) - 1 : Parent(p)[i] = p[i]
  BY <1>2, <1>3, ParentAgrees
<1> DEFINE q == Parent(p)
<1> HIDE DEF q
<1>7. q \in DOMAIN ast /\ Len(q) = Len(p) - 1 /\ \A i \in 1 .. Len(p) - 1 : q[i] = p[i]
  BY <1>4, <1>5, <1>6 DEF q
<1>8. CASE p \in Of(flag.set)
  <2>1. Len(p) > 3 /\ p[1] = "variant_sets" /\ p[2] = flag.set
    BY <1>2, <1>8 DEF Of, Depth
  <2>2. q[1] = p[1] /\ q[2] = p[2] /\ Len(q) > 2
    BY <1>2, <1>7, <2>1
  <2> QED
    BY <1>7, <2>1, <2>2 DEF q, Document, Of
<1>9. CASE Len(p) > 1 /\ p[1] = "extensions"
  <2>1. Len(p) > 2
    BY <1>2, <1>9 DEF Depth
  <2>2. q[1] = p[1] /\ Len(q) > 1
    BY <1>2, <1>7, <2>1
  <2> QED
    BY <1>7, <1>9, <2>2 DEF q, Document, Extensions, InExtension
<1>10. CASE Len(p) > 3 /\ p[1] = "flags" /\ p[3] = "extensions"
  <2>1. Len(p) > 4
    BY <1>2, <1>10 DEF Depth
  <2>2. q[1] = p[1] /\ q[3] = p[3] /\ Len(q) > 3
    BY <1>2, <1>7, <2>1
  <2> QED
    BY <1>7, <1>10, <2>2 DEF q, Document, Extensions, InExtension
<1>11. CASE Len(p) > 5 /\ p[1] = "flags" /\ p[3] = "environments" /\ p[5] = "extensions"
  <2>1. Len(p) > 6
    BY <1>2, <1>11 DEF Depth
  <2>2. q[1] = p[1] /\ q[3] = p[3] /\ q[5] = p[5] /\ Len(q) > 5
    BY <1>2, <1>7, <2>1
  <2> QED
    BY <1>7, <1>11, <2>2 DEF q, Document, Extensions, InExtension
<1> QED
  BY <1>8, <1>9, <1>10, <1>11 DEF Document, Extensions, InExtension

(* The pipeline carries a node with all its siblings and its subtree.      *)
LEMMA SameNeighbours ==
  ASSUME IInv, DOMAIN values = Document, NEW p \in Document
  PROVE  Siblings(values, p) = Siblings(ast, p) /\ Subtree(values, p) = Subtree(ast, p)
<1>1. Document \subseteq DOMAIN ast /\ p \in DOMAIN ast
  BY DEF Document, Of, Extensions
<1>2. p \in Seq(Range(p)) /\ Len(p) \in Nat
  BY <1>1, PathsAreSequences
<1>3. Len(p) > 1
  BY <1>2 DEF Document, Of, Extensions, InExtension
<1>4. p # <<>>
  BY <1>3
<1>5. Len(Parent(p)) = Len(p) - 1 /\ \A i \in 1 .. Len(p) - 1 : Parent(p)[i] = p[i]
  BY <1>2, <1>4, PathIsBelowParent, ParentAgrees
<1>6. ASSUME NEW q \in DOMAIN ast, Parent(q) = Parent(p) PROVE q \in Document
  <2>1. q \in Seq(Range(q)) /\ Len(q) \in Nat
    BY PathsAreSequences
  <2>2. q # <<>>
    <3>1. Len(Parent(q)) > 0
      BY <1>2, <1>3, <1>5, <1>6
    <3>2. Len(<<>>) = 0
      OBVIOUS
    <3> QED
      BY <3>1, <3>2, ParentOfRoot
  <2>3. Len(Parent(q)) = Len(q) - 1 /\ \A i \in 1 .. Len(q) - 1 : Parent(q)[i] = q[i]
    BY <2>1, <2>2, PathIsBelowParent, ParentAgrees
  <2>4. Len(q) = Len(p)
    BY <1>2, <1>5, <1>6, <2>1, <2>3
  <2>5. \A i \in 1 .. Len(p) - 1 : q[i] = p[i]
    BY <1>5, <1>6, <2>3, <2>4
  <2> QED
    BY <1>2, <2>4, <2>5, DocumentHoldsKin DEF Kin
<1>7. ASSUME NEW q \in DOMAIN ast, Len(q) >= Len(p), SubSeq(q, 1, Len(p)) = p
      PROVE  q \in Document
  <2>1. q \in Seq(Range(q)) /\ Len(q) \in Nat
    BY PathsAreSequences
  <2> DEFINE n == Len(p)
  <2>2. n \in Nat /\ \A i \in 1 .. n : q[i] \in Range(q)
    BY <1>2, <1>7, <2>1 DEF Range
  <2>3. \A i \in 1 .. n - 1 + 1 : SubSeq(q, 1, n)[i] = q[1 + i - 1]
    BY <2>2, SubSeqProperties
  <2>4. SubSeq(q, 1, n) = p
    BY <1>7
  <2> HIDE DEF n
  <2>5. \A i \in 1 .. n - 1 : q[i] = p[i]
    BY <2>2, <2>3, <2>4
  <2> QED
    BY <1>7, <2>5, DocumentHoldsKin DEF Kin, n
<1>8. Siblings(values, p) = Siblings(ast, p)
  BY <1>1, <1>6 DEF Siblings
<1>9. Subtree(values, p) = Subtree(ast, p)
  BY <1>1, <1>7 DEF Subtree
<1> QED
  BY <1>8, <1>9

LEMMA SameSizes ==
  ASSUME IInv, phase = "parsed", values = [p \in Document |-> ast[p]], NEW p \in Document
  PROVE  /\ SchemaTakes(ast, p, TextMax) => SchemaTakes(values, p, TextMax)
         /\ SmallEnough(ast, p) => SmallEnough(values, p)
<1>1. DOMAIN values = Document /\ values[p] = ast[p]
  OBVIOUS
<1>2. Siblings(values, p) = Siblings(ast, p) /\ Subtree(values, p) = Subtree(ast, p)
  BY <1>1, SameNeighbours
<1>3. Depth(p) > 0 => values[Parent(p)] = ast[Parent(p)]
  BY DocumentHoldsParents
<1> QED
  BY <1>1, <1>2, <1>3 DEF SchemaTakes, SmallEnough

LEMMA UnacceptableHasCause ==
  ASSUME IInv, phase = "parsed", values = [p \in Document |-> ast[p]], unknown \subseteq added,
         ~ Acceptable
  PROVE  \/ added # {}
         \/ ~ SameKinds(flag.set)
         \/ \E p \in Document : TooLargeOrDeep(p)
<1>1. DOMAIN values = Document /\ Document \subseteq DOMAIN ast
  BY DEF Document, Of, Extensions
<1>2. CASE CoreUnknown # {}
  BY <1>2 DEF CoreUnknown
<1>3. CASE ~ Homogeneous
  BY <1>3, HomogeneousVariants
<1>4. CASE \E p \in DOMAIN values : ~ WithinLimits(p)
  <2>1. PICK p \in Document : ~ WithinLimits(p)
    BY <1>1, <1>4
  <2>2. ~ (Depth(p) <= MaxDepth) => Depth(p) > MaxDepth
    BY <1>1, DepthIsNumber, TransportAssumption
  <2>3. TooLargeOrDeep(p)
    BY <2>1, <2>2, SameSizes DEF WithinLimits, TooLargeOrDeep
  <2> QED
    BY <2>3
<1> QED
  BY <1>2, <1>3, <1>4 DEF Acceptable

-----------------------------------------------------------------------------

(* A step that looks at the document and leaves it as it is.               *)
LEMMA CheckedTInv ==
  ASSUME IInv, RolesFit, TInv, UNCHANGED vars, stage \in {"lowered", "encoded"},
         stage' = IF Acceptable THEN "valid" ELSE "refused",
         wire' \in {"none", "protobuf", "yaml"}, unknown = added,
         UNCHANGED <<flag, values, unknown, added, trips>>
  PROVE  TInv'
<1> USE DEF TInv
<1>1. phase = "parsed" /\ UNCHANGED <<phase, ast>>
  BY DEF StagesOK, vars
<1>2. UNCHANGED VariantSetNames /\ UNCHANGED Document
  BY <1>1 DEF VariantSetNames, Document, Of, Extensions
<1>3. StagesOK' /\ FlagFollows' /\ UnknownFollows'
  BY <1>1, <1>2 DEF StagesOK, FlagFollows, UnknownFollows
<1>4. values = [p \in Document |-> ast[p]]
  BY DEF ValuesFollow
<1>5. CASE Acceptable
  <2>1. Acceptable'
    BY <1>1, <1>5 DEF Acceptable, CoreUnknown, Homogeneous, WithinLimits, SchemaTakes, SmallEnough,
       Extensions
  <2>2. ValuesFollow'
    BY <1>1, <1>2, <1>4, <1>5, <2>1 DEF ValuesFollow
  <2> QED
    BY <1>3, <1>5, <2>2 DEF ValuesArriveWhole, RefusedForCause
<1>6. CASE ~ Acceptable
  <2>1. ValuesFollow'
    BY <1>1, <1>6 DEF ValuesFollow
  <2>2. \/ added # {}
        \/ ~ SameKinds(flag.set)
        \/ \E p \in Document : TooLargeOrDeep(p)
    BY <1>1, <1>4, <1>6, UnacceptableHasCause DEF UnknownFollows
  <2>3. RefusedForCause'
    BY <1>1, <2>2
    DEF RefusedForCause, TooLargeOrDeep, SameKinds, Roots, Of, Document, Extensions
  <2> QED
    BY <1>3, <1>6, <2>1, <2>3 DEF ValuesArriveWhole
<1> QED
  BY <1>5, <1>6

LEMMA EncodeProtobufTInv ==
  ASSUME TInv, EncodeProtobuf, UNCHANGED vars
  PROVE  TInv'
<1> USE DEF TInv
<1>1. /\ stage = "valid" /\ stage' = "encoded" /\ phase = "parsed"
      /\ wire' = "protobuf" /\ trips' = trips + 1 /\ trips < MaxTrips
      /\ UNCHANGED <<phase, ast, flag, values, unknown, added>>
  BY DEF EncodeProtobuf, StagesOK, vars
<1>2. UNCHANGED VariantSetNames /\ UNCHANGED Document
  BY <1>1 DEF VariantSetNames, Document, Of, Extensions
<1>3. StagesOK'
  BY <1>1, TransportAssumption DEF StagesOK
<1>4. FlagFollows' /\ UnknownFollows'
  BY <1>1, <1>2 DEF FlagFollows, UnknownFollows
<1>5. ValuesFollow'
  BY <1>1, <1>2 DEF ValuesFollow
<1> QED
  BY <1>1, <1>3, <1>4, <1>5 DEF ValuesArriveWhole, RefusedForCause

LEMMA EncodeYamlTInv ==
  ASSUME TInv, EncodeYaml, UNCHANGED vars
  PROVE  TInv'
<1> USE DEF TInv
<1>1. /\ stage = "valid" /\ phase = "parsed" /\ trips' = trips + 1 /\ trips < MaxTrips
      /\ UNCHANGED <<phase, ast, flag, added>>
      /\ unknown = added
  BY DEF EncodeYaml, StagesOK, UnknownFollows, vars
<1>2. UNCHANGED VariantSetNames /\ UNCHANGED Document
  BY <1>1 DEF VariantSetNames, Document, Of, Extensions
<1>3. /\ values = [p \in Document |-> ast[p]]
      /\ unknown \subseteq Extensions
  BY <1>1 DEF ValuesFollow, Acceptable, CoreUnknown
<1>4. CASE /\ ExtensionUnknown # {} /\ stage' = "refused"
           /\ UNCHANGED <<values, wire, unknown>>
  <2>1. added # {}
    BY <1>1, <1>4 DEF ExtensionUnknown
  <2>2. StagesOK'
    BY <1>1, <1>4, TransportAssumption DEF StagesOK
  <2>3. FlagFollows' /\ UnknownFollows' /\ ValuesFollow'
    BY <1>1, <1>2, <1>4 DEF FlagFollows, UnknownFollows, ValuesFollow
  <2> QED
    BY <1>1, <1>4, <2>1, <2>2, <2>3 DEF ValuesArriveWhole, RefusedForCause
<1>5. CASE /\ ExtensionUnknown = {} /\ stage' = "encoded" /\ wire' = "yaml"
           /\ values' = [p \in DOMAIN values |-> Yaml(values[p])]
           /\ unknown' = {}
  <2>1. added = {}
    BY <1>1, <1>3, <1>5 DEF ExtensionUnknown
  <2>2. values' = [p \in Document |-> ast[p]]
    BY <1>3, <1>5, YamlKeepsValues
  <2>3. Document \subseteq DOMAIN ast
    BY DEF Document, Of, Extensions
  <2>4. StagesOK'
    BY <1>1, <1>5, TransportAssumption DEF StagesOK
  <2>5. FlagFollows' /\ UnknownFollows'
    BY <1>1, <1>2, <1>5, <2>1 DEF FlagFollows, UnknownFollows
  <2>6. ValuesFollow'
    BY <1>1, <1>2, <1>5, <2>2, <2>3 DEF ValuesFollow
  <2> QED
    BY <1>5, <2>4, <2>5, <2>6 DEF ValuesArriveWhole, RefusedForCause
<1> QED
  BY <1>4, <1>5 DEF EncodeYaml

LEMMA EvolveTInv ==
  ASSUME TInv, NEW p \in {<<>>} \cup DOMAIN values, Evolve(p), UNCHANGED vars
  PROVE  TInv'
<1> USE DEF TInv
<1>1. /\ stage = "encoded" /\ stage' = "encoded" /\ phase = "parsed"
      /\ added = {} /\ added' = {p} /\ unknown = {} /\ unknown' = {p}
      /\ UNCHANGED <<phase, ast, flag, values, wire, trips>>
  BY DEF Evolve, StagesOK, UnknownFollows, vars
<1>2. UNCHANGED VariantSetNames /\ UNCHANGED Document
  BY <1>1 DEF VariantSetNames, Document, Of, Extensions
<1>3. StagesOK' /\ FlagFollows' /\ ValuesFollow'
  BY <1>1, <1>2 DEF StagesOK, FlagFollows, ValuesFollow
<1>4. UnknownFollows'
  BY <1>1 DEF UnknownFollows, ValuesFollow
<1> QED
  BY <1>1, <1>3, <1>4 DEF ValuesArriveWhole, RefusedForCause

LEMMA CompileTInv ==
  ASSUME IInv, RolesFit, TInv, NEW target \in Targets, Compile(target), UNCHANGED vars
  PROVE  TInv'
<1> USE DEF TInv
<1>1. /\ stage = "valid" /\ phase = "parsed"
      /\ flag' = [flag EXCEPT !.target = target]
      /\ flag \in [set : VariantSetNames \cup {"none"}, target : Targets \cup {"none"}]
      /\ flag.set \in VariantSetNames
      /\ UNCHANGED <<phase, ast, wire, unknown, added, trips>>
  BY DEF Compile, StagesOK, FlagFollows, vars
<1>2. flag'.set = flag.set /\ flag'.target = target
  BY <1>1
<1>3. /\ UNCHANGED VariantSetNames /\ UNCHANGED Document
      /\ \A set : Of(set)' = Of(set)
  BY <1>1, <1>2 DEF VariantSetNames, Document, Of, Extensions
<1>4. values = [p \in Document |-> ast[p]] /\ Homogeneous
  BY <1>1 DEF ValuesFollow, Acceptable
<1>5. /\ \A p \in Of(flag.set) : values[p] = ast[p] /\ ast[p] \in Values
      /\ Of(flag.set) \subseteq DOMAIN ast
  BY <1>1, <1>4, DocumentIsData DEF Document, Of
<1>6. CASE /\ target = "gofeatureflag" /\ \E p \in Of(flag.set) : ~ Transportable(p)
           /\ stage' = "refused" /\ UNCHANGED values
  <2>1. PICK p \in Of(flag.set) : ~ Transportable(p)
    BY <1>6
  <2>2. ast[p].kind = "int" /\ ast[p].n \in Int /\ ~ IsSafe(ast[p].n)
    BY <1>5, <2>1 DEF Transportable, Values
  <2>3. ast[p].n > SafeMax \/ ast[p].n < -SafeMax
    BY <2>2, TransportAssumption DEF IsSafe
  <2>4. RefusedForCause'
    <3>1. /\ flag'.target = "gofeatureflag" /\ p \in Of(flag'.set)
      BY <1>2, <1>6
    <3>2. /\ p \in Of(flag.set)' /\ ast'[p].kind = "int"
          /\ (ast'[p].n > SafeMax \/ ast'[p].n < -SafeMax)
      BY <1>1, <1>2, <2>2, <2>3 DEF Of
    <3> QED
      BY <3>1, <3>2 DEF RefusedForCause
  <2>5. StagesOK' /\ FlagFollows' /\ UnknownFollows' /\ ValuesFollow'
    BY <1>1, <1>2, <1>3, <1>6 DEF StagesOK, FlagFollows, UnknownFollows, ValuesFollow
  <2> QED
    BY <1>6, <2>4, <2>5 DEF ValuesArriveWhole
<1>7. CASE /\ ~ (target = "gofeatureflag" /\ \E p \in Of(flag.set) : ~ Transportable(p))
           /\ stage' = "written" /\ values' = [p \in Of(flag.set) |-> Json(values[p])]
  <2>1. /\ DOMAIN values' = Of(flag.set)
        /\ \A p \in Of(flag.set) : values'[p] = Json(ast[p])
    BY <1>5, <1>7
  <2>2. ASSUME NEW p \in Of(flag.set), target = "gofeatureflag", ast[p].kind = "int"
        PROVE  Seen(Json(ast[p])).n = ast[p].n
    <3>1. Transportable(p) /\ ast[p] \in Values /\ ast[p].n \in Int /\ IsSafe(ast[p].n)
      BY <1>5, <1>7, <2>2 DEF Transportable, Values
    <3>2. Json(ast[p]) = [kind |-> "number", n |-> ast[p].n]
      BY <2>2, <3>1 DEF Json, Values
    <3>3. Binary64(ast[p].n) = ast[p].n
      BY <3>1, SafeIsExact
    <3> QED
      BY <3>2, <3>3 DEF Seen
  <2>3. SameKinds(flag.set)
    BY <1>4, HomogeneousVariants
  <2>4. Roots(Of(flag.set)) = Roots(DOMAIN values')
    BY <2>1 DEF Roots
  <2>5. ValuesArriveWhole'
    <3>1. DOMAIN values' = Of(flag.set)'
      BY <1>1, <1>2, <2>1 DEF Of
    <3>2. \A p \in DOMAIN values' :
            /\ values'[p] = Json(ast'[p])
            /\ flag'.target = "gofeatureflag" /\ ast'[p].kind = "int" =>
                 Seen(values'[p]).n = ast'[p].n
      BY <1>1, <1>2, <2>1, <2>2
    <3>3. \A p, q \in Roots(DOMAIN values') : ast'[p].kind = ast'[q].kind
      BY <1>1, <2>3, <2>4 DEF SameKinds
    <3> QED
      BY <3>1, <3>2, <3>3 DEF ValuesArriveWhole
  <2>6. StagesOK' /\ FlagFollows' /\ UnknownFollows' /\ ValuesFollow'
    BY <1>1, <1>2, <1>3, <1>5, <1>7, <2>1 DEF StagesOK, FlagFollows, UnknownFollows, ValuesFollow
  <2> QED
    BY <1>7, <2>5, <2>6 DEF RefusedForCause
<1> QED
  BY <1>6, <1>7 DEF Compile

LEMMA CarryTInv == IInv /\ RolesFit /\ TInv /\ Carry /\ UNCHANGED vars => TInv'
<1> SUFFICES ASSUME IInv, RolesFit, TInv, Carry, UNCHANGED vars PROVE TInv'
  OBVIOUS
<1>1. ASSUME NEW set \in VariantSetNames, Normalize(set) PROVE TInv'
  BY <1>1, NormalizeTInv
<1>2. CASE Lower
  BY <1>2, LowerTInv
<1>3. CASE ValidateIR
  <2>1. wire \in {"none", "protobuf", "yaml"} /\ unknown = added
    BY <1>3 DEF ValidateIR, TInv, StagesOK, UnknownFollows
  <2> QED
    BY <1>3, <2>1, CheckedTInv DEF ValidateIR
<1>4. CASE EncodeProtobuf
  BY <1>4, EncodeProtobufTInv
<1>5. CASE EncodeYaml
  BY <1>5, EncodeYamlTInv
<1>6. ASSUME NEW p \in {<<>>} \cup DOMAIN values, Evolve(p) PROVE TInv'
  BY <1>6, EvolveTInv
<1>7. CASE Decode
  <2>1. unknown = added
    BY <1>7 DEF Decode, TInv, UnknownFollows
  <2> QED
    BY <1>7, <2>1, CheckedTInv DEF Decode
<1>8. ASSUME NEW target \in Targets, Compile(target) PROVE TInv'
  BY <1>8, CompileTInv
<1> QED
  BY <1>1, <1>2, <1>3, <1>4, <1>5, <1>6, <1>7, <1>8 DEF Carry

LEMMA StutterTInv ==
  ASSUME TInv, UNCHANGED vars, UNCHANGED tvars
  PROVE  TInv'
<1> USE DEF TInv
<1>1. UNCHANGED <<phase, ast, stage, flag, values, wire, unknown, added, trips>>
  BY DEF vars, tvars
<1>2. /\ UNCHANGED VariantSetNames /\ UNCHANGED Document /\ UNCHANGED Extensions
      /\ \A set : Of(set)' = Of(set)
  BY <1>1 DEF VariantSetNames, Document, Of, Extensions
<1>3. StagesOK' /\ FlagFollows' /\ UnknownFollows'
  BY <1>1, <1>2 DEF StagesOK, FlagFollows, UnknownFollows
<1>4. Acceptable' = Acceptable
  BY <1>1, <1>2 DEF Acceptable, CoreUnknown, Homogeneous, WithinLimits
<1>5. ValuesFollow'
  <2>1. \A p : Normalized(p)' = Normalized(p)
    BY <1>1 DEF Normalized, InObject
  <2> QED
    BY <1>1, <1>2, <1>4, <2>1 DEF ValuesFollow
<1>6. ValuesArriveWhole'
  BY <1>1, <1>2 DEF ValuesArriveWhole
<1>7. RefusedForCause'
  <2>1. \A p : TooLargeOrDeep(p)' = TooLargeOrDeep(p)
    BY <1>1 DEF TooLargeOrDeep
  <2> QED
    BY <1>1, <1>2, <2>1 DEF RefusedForCause
<1> QED
  BY <1>3, <1>5, <1>6, <1>7

FullInv == IInv /\ RolesFit /\ TInv

LEMMA InitFull == TransportInit => FullInv
<1>1. TransportInit => Init
  BY DEF TransportInit
<1> QED
  BY <1>1, InitIInv, InitRoles, InitTInv DEF FullInv

LEMMA NextFull == FullInv /\ [TransportNext]_<<vars, tvars>> => FullInv'
<1> SUFFICES ASSUME FullInv, [TransportNext]_<<vars, tvars>> PROVE FullInv'
  OBVIOUS
<1>1. CASE Next /\ UNCHANGED tvars
  BY <1>1, NextIInv, NextRoles, ParserTInv DEF FullInv
<1>2. CASE Carry /\ UNCHANGED vars
  BY <1>2, NextIInv, NextRoles, CarryTInv DEF FullInv
<1>3. CASE UNCHANGED <<vars, tvars>>
  <2>1. UNCHANGED vars /\ UNCHANGED tvars
    BY <1>3
  <2>2. TInv'
    BY <2>1, StutterTInv DEF FullInv
  <2> QED
    BY <2>1, <2>2, NextIInv, NextRoles DEF FullInv
<1> QED
  BY <1>1, <1>2, <1>3 DEF TransportNext

LEMMA SpecFull == TransportSpec => []FullInv
BY InitFull, NextFull, PTL DEF TransportSpec

-----------------------------------------------------------------------------

(* The composition of the parser and the pipeline keeps its types.         *)
THEOREM TransportTypeCorrect == TransportSpec => []TransportTypeOK
<1>1. FullInv => TransportTypeOK
  <2> SUFFICES ASSUME FullInv PROVE TransportTypeOK
    OBVIOUS
  <2>1. flag \in {NoFlag} \cup [set : VariantSetNames, target : Targets \cup {"none"}]
    BY DEF FullInv, TInv, FlagFollows
  <2>2. unknown \subseteq {<<>>} \cup DOMAIN ast /\ added \subseteq {<<>>} \cup DOMAIN ast
    BY DEF FullInv, TInv, UnknownFollows
  <2> QED
    BY <2>1, <2>2 DEF FullInv, IInv, TInv, StagesOK, ValuesFollow, TransportTypeOK
<1> QED
  BY <1>1, SpecFull, PTL

(* Nothing is passed over in the composition either: the pipeline leaves   *)
(* the parser's state alone.                                               *)
THEOREM NothingIsIgnoredOnTheWay == TransportSpec => []NothingIgnored
<1>1. FullInv => NothingIgnored
  BY IInvNothingIgnored DEF FullInv
<1> QED
  BY <1>1, SpecFull, PTL

(* A file carries the author's values whatever the tree, the limits and    *)
(* the number of encodings.                                                *)
THEOREM ValuesAlwaysArriveWhole == TransportSpec => []ValuesArriveWhole
<1>1. FullInv => ValuesArriveWhole
  BY DEF FullInv, TInv
<1> QED
  BY <1>1, SpecFull, PTL

(* An extension that is not refused is kept to its last number.            *)
THEOREM ExtensionsAlwaysArriveWhole == TransportSpec => []ExtensionsArriveWhole
<1>1. FullInv => ExtensionsArriveWhole
  <2> SUFFICES ASSUME FullInv, stage = "valid", NEW p \in Extensions
               PROVE  values[p] = ast[p] /\ (Written(p) => Kept(p))
    BY DEF ExtensionsArriveWhole
  <2>1. phase = "parsed" /\ values = [q \in Document |-> ast[q]]
    BY DEF FullInv, TInv, StagesOK, ValuesFollow
  <2>2. p \in DOMAIN ast /\ InExtension(p) /\ p \in Document
    BY DEF Extensions, Document
  <2> QED
    BY <2>1, <2>2, ExtensionNumbersAreKept DEF FullInv
<1> QED
  BY <1>1, SpecFull, PTL

(* What a newer writer added is in the extensions, and is still there.     *)
THEOREM NewerFieldsAreNeverLost == TransportSpec => []NewerFieldsAreNotLost
<1>1. FullInv => NewerFieldsAreNotLost
  <2> SUFFICES ASSUME FullInv, stage = "valid"
               PROVE  unknown = added /\ added \subseteq Extensions
    BY DEF NewerFieldsAreNotLost
  <2>1. unknown = added /\ CoreUnknown = {}
    BY DEF FullInv, TInv, UnknownFollows, ValuesFollow, Acceptable
  <2> QED
    BY <2>1 DEF CoreUnknown
<1> QED
  BY <1>1, SpecFull, PTL

(* No document is refused but for a cause its author can see, or for       *)
(* fields of a newer writer.                                               *)
THEOREM RefusedOnlyForCause == TransportSpec => []RefusedForCause
<1>1. FullInv => RefusedForCause
  BY DEF FullInv, TInv
<1> QED
  BY <1>1, SpecFull, PTL
=============================================================================
