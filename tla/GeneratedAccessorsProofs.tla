---------------------- MODULE GeneratedAccessorsProofs ----------------------
(***************************************************************************)
(* Code generation, for every document and configuration.  While flags and *)
(* environments are visited the fields are the paths read by the           *)
(* environments behind the loop; each has the type of one of its uses, or  *)
(* of an override.  In a call of the generated code the writes are made in *)
(* order, and one that no later write touches keeps its place.             *)
(***************************************************************************)
EXTENDS GeneratedAccessors, SequenceTheorems, WellFoundedInduction,
  FiniteSetTheorems, TLAPS

EnvLeaves(f, e) ==
  {LeafAt(document[f].environments[e], at) : at \in Places(document[f].environments[e])}

(* An environment that the loop over the flags has still to visit.         *)
Waits(f, e) == phase = "fields" /\ (f \in flagsLeft \/ <<f, e>> \in envsLeft)

ReadBy(f, e, p) == \E leaf \in EnvLeaves(f, e) : leaf.path = p

SeenAt(p) ==
  \E f \in DOMAIN document : \E e \in DOMAIN document[f].environments :
    ~ Waits(f, e) /\ ReadBy(f, e, p)

OverriddenAt(p) == \E i \in 1 .. overridden : config.overrides[i].path = p

Chosen(p, t) ==
  /\ t # "none"
  /\ \E i \in 1 .. overridden : config.overrides[i].path = p /\ config.overrides[i].type = t

LeafType(leaf) == FieldType(WithDefaults(Inferred(leaf), config.defaults))

Progress ==
  /\ flagsLeft \subseteq DOMAIN document
  /\ overridden \in 0 .. Len(config.overrides)
  /\ phase = "fields" =>
       /\ overridden > 0 => flagsLeft = {} /\ envsLeft = {}
       /\ \A x \in envsLeft :
            \E f \in DOMAIN document \ flagsLeft : \E e \in DOMAIN document[f].environments :
              x = <<f, e>>
  /\ phase \notin {"fields", "rejected"} => overridden = Len(config.overrides)

FieldsAreUses == \A p : p \in DOMAIN fields <=> SeenAt(p) \/ OverriddenAt(p)

TypesFollow ==
  \A p \in DOMAIN fields :
    /\ (\E t : Chosen(p, t)) => Chosen(p, fields[p])
    /\ (\A t : ~ Chosen(p, t)) /\ SeenAt(p) =>
         \E leaf \in AllLeaves : leaf.path = p /\ fields[p] = LeafType(leaf)

AccessorsFollow ==
  /\ DOMAIN accessors \subseteq DOMAIN document
  /\ \A f \in DOMAIN accessors :
       /\ accessors[f].usesContext <=> UsesContext(document[f])
       /\ accessors[f].keyPaths = TargetingKeyPaths(document[f])
  /\ phase = "fields" => DOMAIN accessors = {}

GenInv ==
  /\ document \in Documents /\ config \in Configs
  /\ phase \in {"fields", "flags", "generated", "call", "sent", "rejected", "missing_key",
                "panicked"}
  /\ DOMAIN fields \subseteq Paths
  /\ \A p \in DOMAIN fields : fields[p] \in FieldTypes
  /\ Progress
  /\ phase # "rejected" => FieldsAreUses /\ TypesFollow
  /\ AccessorsFollow

-----------------------------------------------------------------------------
(* Data                                                                    *)

LEMMA LeastNumber ==
  ASSUME NEW D, D \subseteq Nat, D # {}
  PROVE  \E d \in D : \A e \in D : ~ (e < d)
<1>1. \E d \in D : \A e \in D : <<e, d>> \notin OpToRel(<, Nat)
  BY NatLessThanWellFounded, WFMin
<1> QED
  BY <1>1 DEF OpToRel

LEMMA ListFacts ==
  ASSUME NEW s, IsList(s)
  PROVE  /\ Len(s) \in Nat
         /\ DOMAIN s = 1 .. Len(s)
         /\ DOMAIN s \subseteq Nat
         /\ s # <<>> => 1 \in DOMAIN s
<1>1. s \in Seq(Range(s))
  BY DEF IsList
<1>2. Len(s) \in Nat /\ DOMAIN s = 1 .. Len(s)
  BY <1>1, LenProperties
<1>3. s # <<>> => Len(s) # 0
  BY <1>1, EmptySeq
<1> QED
  BY <1>2, <1>3

LEMMA EnvironmentFacts ==
  ASSUME GenInv, NEW f \in DOMAIN document, NEW e \in DOMAIN document[f].environments
  PROVE  /\ IsList(document[f].environments[e])
         /\ \A k \in DOMAIN document[f].environments[e] :
              IsEvaluation(document[f].environments[e][k])
BY AccessorAssumption DEF GenInv

LEMMA PlacesMembers ==
  ASSUME NEW evaluations, NEW at
  PROVE  at \in Places(evaluations) <=>
           \E k \in DOMAIN evaluations : \E i \in DOMAIN evaluations[k].rules :
             \E j \in DOMAIN evaluations[k].rules[i].condition : at = <<k, i, j>>
BY DEF Places

LEMMA FirstOfThree ==
  ASSUME NEW U, U # {}, \A at \in U : \E k, i, j \in Nat : at = <<k, i, j>>
  PROVE  \E at \in U : \A other \in U : Before(at, other)
<1> DEFINE K == {at[1] : at \in U}
<1>1. K \subseteq Nat /\ K # {}
  OBVIOUS
<1>2. PICK k \in K : \A l \in K : ~ (l < k)
  <2> HIDE DEF K
  <2> QED BY <1>1, LeastNumber
<1> DEFINE U2 == {at \in U : at[1] = k}
           I == {at[2] : at \in U2}
<1>3. I \subseteq Nat /\ I # {}
  BY <1>2
<1>4. PICK i \in I : \A l \in I : ~ (l < i)
  <2> HIDE DEF I
  <2> QED BY <1>3, LeastNumber
<1> DEFINE U3 == {at \in U2 : at[2] = i}
           J == {at[3] : at \in U3}
<1>5. J \subseteq Nat /\ J # {}
  BY <1>4
<1>6. PICK j \in J : \A l \in J : ~ (l < j)
  <2> HIDE DEF J
  <2> QED BY <1>5, LeastNumber
<1>7. PICK at \in U3 : at[3] = j
  BY <1>6
<1>8. at \in U /\ at[1] = k /\ at[2] = i
  BY <1>7
<1>9. ASSUME NEW other \in U PROVE Before(at, other)
  <2>1. other[1] \in Nat /\ other[2] \in Nat /\ other[3] \in Nat /\ k \in Nat /\ i \in Nat /\ j \in Nat
    BY <1>1, <1>2, <1>3, <1>4, <1>5, <1>6
  <2>2. ~ (other[1] < k)
    BY <1>2
  <2>3. other[1] = k => ~ (other[2] < i)
    BY <1>4
  <2>4. other[1] = k /\ other[2] = i => ~ (other[3] < j)
    BY <1>6
  <2> QED BY <1>7, <1>8, <2>1, <2>2, <2>3, <2>4 DEF Before
<1> QED
  BY <1>8, <1>9

(* The use that is met first is one of the uses.                           *)
LEMMA FirstUseIsUse ==
  ASSUME NEW evaluations, IsList(evaluations),
         \A k \in DOMAIN evaluations : IsEvaluation(evaluations[k]),
         NEW at0 \in Places(evaluations)
  PROVE  \E at \in Places(evaluations) :
           /\ FirstUse(evaluations, LeafAt(evaluations, at0).path) = LeafAt(evaluations, at)
           /\ LeafAt(evaluations, at).path = LeafAt(evaluations, at0).path
<1> DEFINE path == LeafAt(evaluations, at0).path
           uses == {at \in Places(evaluations) : LeafAt(evaluations, at).path = path}
<1>1. uses # {}
  OBVIOUS
<1>2. ASSUME NEW at \in uses PROVE \E k, i, j \in Nat : at = <<k, i, j>>
  <2>0. PICK k \in DOMAIN evaluations : \E i \in DOMAIN evaluations[k].rules :
               \E j \in DOMAIN evaluations[k].rules[i].condition : at = <<k, i, j>>
    BY PlacesMembers
  <2>1. PICK i \in DOMAIN evaluations[k].rules :
               \E j \in DOMAIN evaluations[k].rules[i].condition : at = <<k, i, j>>
    BY <2>0
  <2>2. IsList(evaluations[k].rules) /\ IsList(evaluations[k].rules[i].condition)
    BY DEF IsEvaluation
  <2>3. /\ k \in Nat /\ i \in Nat
        /\ \A j \in DOMAIN evaluations[k].rules[i].condition : j \in Nat
    BY <2>2, ListFacts
  <2> QED BY <2>1, <2>3
<1>3. \E at \in uses : \A other \in uses : Before(at, other)
  <2> HIDE DEF uses
  <2> QED BY <1>1, <1>2, FirstOfThree
<1>4. (CHOOSE at \in uses : \A other \in uses : Before(at, other)) \in uses
  <2> HIDE DEF uses
  <2> QED BY <1>3
<1>5. FirstUse(evaluations, path)
        = LeafAt(evaluations, CHOOSE at \in uses : \A other \in uses : Before(at, other))
  BY DEF FirstUse
<1> HIDE DEF path
<1> QED
  BY <1>4, <1>5 DEF path

LEMMA EnvLeafFacts ==
  ASSUME GenInv, NEW f \in DOMAIN document, NEW e \in DOMAIN document[f].environments,
         NEW leaf \in EnvLeaves(f, e)
  PROVE  leaf.path \in Paths /\ leaf \in AllLeaves
<1> DEFINE evaluations == document[f].environments[e]
<1>1. PICK at \in Places(evaluations) : leaf = LeafAt(evaluations, at)
  BY DEF EnvLeaves
<1>2. PICK k \in DOMAIN evaluations : \E i \in DOMAIN evaluations[k].rules :
             \E j \in DOMAIN evaluations[k].rules[i].condition : at = <<k, i, j>>
  BY PlacesMembers
<1>3. leaf.path \in Paths
  <2>1. IsEvaluation(evaluations[k])
    BY EnvironmentFacts
  <2> QED BY <1>1, <1>2, <2>1 DEF LeafAt, IsEvaluation
<1>4. leaf \in Leaves(document[f])
  BY <1>1 DEF Leaves
<1> QED
  BY <1>3, <1>4 DEF AllLeaves

LEMMA FieldTypeIsType == ASSUME NEW t PROVE FieldType(t) \in FieldTypes
BY DEF FieldType, FieldTypes

-----------------------------------------------------------------------------
(* The loops                                                               *)

LEMMA InitGen == Init => GenInv
<1> SUFFICES ASSUME Init PROVE GenInv
  OBVIOUS
<1>1. /\ document \in Documents /\ config \in Configs /\ phase \in {"fields", "rejected"}
      /\ flagsLeft = DOMAIN document /\ envsLeft = {} /\ overridden = 0
      /\ DOMAIN fields = {} /\ DOMAIN accessors = {}
  BY DEF Init
<1>2. Progress
  <2>1. IsList(config.overrides)
    BY <1>1, AccessorAssumption
  <2> QED BY <1>1, <2>1, ListFacts DEF Progress
<1>3. phase # "rejected" => FieldsAreUses
  <2>1. \A p : ~ OverriddenAt(p)
    BY <1>1 DEF OverriddenAt
  <2> QED BY <1>1, <2>1 DEF FieldsAreUses, SeenAt, Waits
<1> QED
  BY <1>1, <1>2, <1>3 DEF GenInv, TypesFollow, AccessorsFollow

(* A step that changes no fields, nor which environments are behind.       *)
LEMMA FieldsKept ==
  ASSUME GenInv, phase # "rejected", UNCHANGED <<document, config, fields, overridden>>,
         \A f \in DOMAIN document : \A e \in DOMAIN document[f].environments :
           Waits(f, e)' = Waits(f, e)
  PROVE  FieldsAreUses' /\ TypesFollow'
<1>1. \A p : SeenAt(p)' = SeenAt(p)
  BY DEF SeenAt, ReadBy, EnvLeaves, LeafAt, Places
<1>2. \A p, t : OverriddenAt(p)' = OverriddenAt(p) /\ Chosen(p, t)' = Chosen(p, t)
  BY DEF OverriddenAt, Chosen
<1>3. AllLeaves' = AllLeaves /\ \A leaf : LeafType(leaf)' = LeafType(leaf)
  BY DEF AllLeaves, LeafType
<1> QED
  BY <1>1, <1>2, <1>3 DEF GenInv, FieldsAreUses, TypesFollow

LEMMA VisitFlagGen ==
  ASSUME GenInv, NEW f \in flagsLeft, VisitFlag(f)
  PROVE  GenInv'
<1>1. /\ phase = "fields" /\ envsLeft = {} /\ f \in DOMAIN document
      /\ flagsLeft' = flagsLeft \ {f}
      /\ envsLeft' = {<<f, e>> : e \in DOMAIN document[f].environments}
      /\ UNCHANGED <<document, config, phase, overridden, fields, accessors>>
  BY DEF GenInv, Progress, VisitFlag
<1>2. Progress'
  <2>1. overridden = 0
    BY <1>1 DEF GenInv, Progress
  <2> QED BY <1>1, <2>1 DEF GenInv, Progress
<1>3. ASSUME NEW g \in DOMAIN document, NEW e \in DOMAIN document[g].environments
      PROVE  Waits(g, e)' = Waits(g, e)
  <2>1. CASE g = f
    BY <1>1, <2>1 DEF Waits
  <2>2. CASE g # f
    BY <1>1, <2>2 DEF Waits
  <2> QED BY <2>1, <2>2
<1>4. FieldsAreUses' /\ TypesFollow'
  BY <1>1, <1>3, FieldsKept
<1>5. AccessorsFollow'
  BY <1>1 DEF GenInv, AccessorsFollow
<1> QED
  BY <1>1, <1>2, <1>4, <1>5 DEF GenInv

LEMMA VisitEnvironmentGen ==
  ASSUME GenInv, NEW f, NEW e, <<f, e>> \in envsLeft, VisitEnvironment(f, e)
  PROVE  GenInv'
<1> DEFINE evaluations == document[f].environments[e]
           read == {LeafAt(evaluations, at).path : at \in Places(evaluations)}
<1>1. /\ phase = "fields"
      /\ envsLeft' = envsLeft \ {<<f, e>>}
      /\ fields' = [p \in DOMAIN fields \cup read |->
                      IF p \in DOMAIN fields THEN fields[p]
                      ELSE FieldType(WithDefaults(Inferred(FirstUse(evaluations, p)),
                                                  config.defaults))]
      /\ UNCHANGED <<document, config, phase, flagsLeft, overridden, accessors>>
  BY DEF VisitEnvironment
<1>2. f \in DOMAIN document \ flagsLeft /\ e \in DOMAIN document[f].environments
  BY <1>1 DEF GenInv, Progress
<1>3. overridden = 0
  BY <1>1 DEF GenInv, Progress
<1>4. Progress'
  BY <1>1 DEF GenInv, Progress
<1>5. read = {leaf.path : leaf \in EnvLeaves(f, e)}
  BY DEF EnvLeaves
<1>6. \A p : ReadBy(f, e, p) <=> p \in read
  BY <1>5 DEF ReadBy
<1>7. /\ DOMAIN fields' = DOMAIN fields \cup read
      /\ \A p \in DOMAIN fields : fields'[p] = fields[p]
  BY <1>1
<1>8. ASSUME NEW p \in read \ DOMAIN fields
      PROVE  \E leaf \in AllLeaves : leaf.path = p /\ fields'[p] = LeafType(leaf)
  <2>1. PICK at0 \in Places(evaluations) : p = LeafAt(evaluations, at0).path
    OBVIOUS
  <2>2. PICK at \in Places(evaluations) :
          FirstUse(evaluations, p) = LeafAt(evaluations, at) /\ LeafAt(evaluations, at).path = p
    BY <1>2, <2>1, EnvironmentFacts, FirstUseIsUse
  <2>3. LeafAt(evaluations, at) \in AllLeaves
    BY <1>2, EnvLeafFacts DEF EnvLeaves
  <2>4. fields'[p] = LeafType(LeafAt(evaluations, at))
    BY <1>1, <2>2 DEF LeafType
  <2> QED BY <2>2, <2>3, <2>4
<1>9. ASSUME NEW p PROVE SeenAt(p)' <=> SeenAt(p) \/ p \in read
  <2>1. \A g \in DOMAIN document : \A x \in DOMAIN document[g].environments :
          Waits(g, x)' <=> Waits(g, x) /\ <<g, x>> # <<f, e>>
    BY <1>1, <1>2 DEF Waits
  <2>2. \A g, x : ReadBy(g, x, p)' = ReadBy(g, x, p)
    BY <1>1 DEF ReadBy, EnvLeaves
  <2>3. \A g, x : <<g, x>> = <<f, e>> <=> g = f /\ x = e
    OBVIOUS
  <2> HIDE DEF read
  <2> QED BY <1>1, <1>2, <1>6, <2>1, <2>2, <2>3 DEF SeenAt
<1>10. \A p, t : /\ ~ OverriddenAt(p) /\ ~ OverriddenAt(p)'
                /\ ~ Chosen(p, t) /\ ~ Chosen(p, t)'
  BY <1>1, <1>3 DEF OverriddenAt, Chosen
<1>11. FieldsAreUses'
  <2> HIDE DEF read
  <2> QED BY <1>1, <1>7, <1>9, <1>10 DEF GenInv, FieldsAreUses
<1>12. TypesFollow'
  <2>1. AllLeaves' = AllLeaves /\ \A leaf : LeafType(leaf)' = LeafType(leaf)
    BY <1>1 DEF AllLeaves, LeafType
  <2> HIDE DEF read
  <2>2. ASSUME NEW p \in DOMAIN fields
        PROVE  \E leaf \in AllLeaves : leaf.path = p /\ fields'[p] = LeafType(leaf)
    BY <1>1, <1>7, <1>10 DEF GenInv, FieldsAreUses, TypesFollow
  <2> QED BY <1>7, <1>8, <1>10, <2>1, <2>2 DEF TypesFollow
<1>13. DOMAIN fields' \subseteq Paths
  BY <1>2, <1>5, <1>7, EnvLeafFacts DEF GenInv
<1>14. \A p \in DOMAIN fields' : fields'[p] \in FieldTypes
  BY <1>1, <1>7, FieldTypeIsType DEF GenInv
<1>15. AccessorsFollow'
  BY <1>1 DEF GenInv, AccessorsFollow
<1> QED
  BY <1>1, <1>4, <1>11, <1>12, <1>13, <1>14, <1>15 DEF GenInv

LEMMA OverrideGen ==
  ASSUME GenInv, Override
  PROVE  GenInv'
<1> DEFINE o == config.overrides[overridden + 1]
<1>1. /\ phase = "fields" /\ flagsLeft = {} /\ envsLeft = {}
      /\ overridden < Len(config.overrides)
      /\ UNCHANGED <<document, config, flagsLeft, envsLeft, accessors>>
  BY DEF Override
<1>2. overridden \in Nat /\ Len(config.overrides) \in Nat /\ IsList(config.overrides)
  <2>1. IsList(config.overrides)
    BY AccessorAssumption DEF GenInv
  <2> QED BY <2>1, ListFacts DEF GenInv, Progress
<1>3. AccessorsFollow'
  BY <1>1 DEF GenInv, AccessorsFollow, Override
<1>4. CASE phase' = "rejected" /\ UNCHANGED <<fields, overridden>>
  <2>1. Progress'
    BY <1>1, <1>4 DEF GenInv, Progress
  <2> QED BY <1>1, <1>3, <1>4, <2>1 DEF GenInv
<1>5. CASE /\ ~ (o.path = <<>> \/ (o.type # "none" /\ o.type \notin FieldTypes))
           /\ fields' = [p \in DOMAIN fields \cup {o.path} |->
                           IF p = o.path THEN OverriddenType(o) ELSE fields[p]]
           /\ overridden' = overridden + 1
           /\ UNCHANGED phase
  <2>1. o.path \in Paths
    <3>1. overridden + 1 \in DOMAIN config.overrides
      BY <1>1, <1>2, ListFacts
    <3> QED BY <1>5, <3>1, AccessorAssumption DEF GenInv
  <2>2. /\ DOMAIN fields' = DOMAIN fields \cup {o.path}
        /\ fields'[o.path] = OverriddenType(o)
        /\ \A p \in DOMAIN fields \ {o.path} : fields'[p] = fields[p]
    BY <1>5
  <2>3. Progress'
    BY <1>1, <1>2, <1>5 DEF GenInv, Progress
  <2>4. 1 .. overridden' = 1 .. overridden \cup {overridden + 1}
    BY <1>2, <1>5
  <2> DEFINE p0 == o.path
             t0 == o.type
  <2>5. \A p : OverriddenAt(p)' <=> OverriddenAt(p) \/ p = p0
    <3>1. \A p : OverriddenAt(p)' <=> \E i \in 1 .. overridden \cup {overridden + 1} :
                                        config.overrides[i].path = p
      BY <1>1, <2>4 DEF OverriddenAt
    <3> QED BY <3>1 DEF OverriddenAt
  <2>6. \A p, t : Chosen(p, t)' <=> Chosen(p, t) \/ (p = p0 /\ t0 # "none" /\ t = t0)
    <3>1. \A p, t : Chosen(p, t)' <=>
            /\ t # "none"
            /\ \E i \in 1 .. overridden \cup {overridden + 1} :
                 config.overrides[i].path = p /\ config.overrides[i].type = t
      BY <1>1, <2>4 DEF Chosen
    <3>2. \A p, t : Chosen(p, t) <=>
            /\ t # "none"
            /\ \E i \in 1 .. overridden :
                 config.overrides[i].path = p /\ config.overrides[i].type = t
      BY DEF Chosen
    <3>3. config.overrides[overridden + 1].path = p0 /\ config.overrides[overridden + 1].type = t0
      OBVIOUS
    <3> HIDE DEF p0, t0, o
    <3>4. \A p, t : Chosen(p, t)' <=> Chosen(p, t) \/ (t # "none" /\ p0 = p /\ t0 = t)
      BY <3>1, <3>2, <3>3
    <3> QED BY <3>4
  <2>7. OverriddenType(o) =
          IF t0 # "none" THEN t0 ELSE IF p0 \in DOMAIN fields THEN fields[p0] ELSE "string"
    BY DEF OverriddenType
  <2>8. ASSUME NEW p PROVE SeenAt(p)' = SeenAt(p)
    <3>1. UNCHANGED <<document, phase, flagsLeft, envsLeft>>
      BY <1>1, <1>5
    <3> QED BY <3>1 DEF SeenAt, Waits, ReadBy, EnvLeaves
  <2>9. FieldsAreUses'
    BY <1>1, <2>2, <2>5, <2>8 DEF GenInv, FieldsAreUses
  <2>10. AllLeaves' = AllLeaves /\ \A leaf : LeafType(leaf)' = LeafType(leaf)
    BY <1>1 DEF AllLeaves, LeafType
  <2>11. FieldsAreUses /\ TypesFollow
    BY <1>1 DEF GenInv
  <2>12. \A p, t : Chosen(p, t) => p \in DOMAIN fields
    BY <2>11 DEF Chosen, OverriddenAt, FieldsAreUses
  <2>13. \A p \in DOMAIN fields :
           fields'[p] = IF p = p0 /\ t0 # "none" THEN t0 ELSE fields[p]
    BY <2>2, <2>7
  <2>17. t0 # "none" => fields'[p0] = t0
    BY <2>2, <2>7
  <2> HIDE DEF p0, t0, o
  <2>14. TypesFollow'
    <3>1. ASSUME NEW p \in DOMAIN fields'
          PROVE  /\ (\E t : Chosen(p, t)') => Chosen(p, fields[p])'
                 /\ (\A t : ~ Chosen(p, t)') /\ SeenAt(p)' =>
                      \E leaf \in AllLeaves : leaf.path = p /\ fields'[p] = LeafType(leaf)
      <4>1. CASE p = p0 /\ t0 # "none"
        <5>1. PICK t1 : t1 = t0
          OBVIOUS
        <5>2. fields'[p] = t1
          BY <2>17, <4>1, <5>1
        <5>3. Chosen(p, t1)'
          BY <2>6, <4>1, <5>1
        <5>4. Chosen(p, fields[p])'
          BY <5>2, <5>3
        <5> QED BY <5>3, <5>4
      <4>2. CASE ~ (p = p0 /\ t0 # "none")
        <5>1. \A t : Chosen(p, t)' <=> Chosen(p, t)
          BY <2>6, <4>2
        <5>2. CASE p \in DOMAIN fields
          BY <2>8, <2>11, <2>13, <4>2, <5>1, <5>2 DEF TypesFollow
        <5>3. CASE p \notin DOMAIN fields
          BY <2>8, <2>11, <2>12, <5>1, <5>3 DEF FieldsAreUses
        <5> QED BY <5>2, <5>3
      <4> QED BY <4>1, <4>2
    <3> QED BY <2>10, <3>1 DEF TypesFollow
  <2>15. \A p \in DOMAIN fields' : fields'[p] \in FieldTypes
    <3>1. "string" \in FieldTypes
      BY DEF FieldTypes
    <3>2. OverriddenType(o) \in FieldTypes
      BY <1>5, <2>7, <3>1 DEF GenInv, t0, p0
    <3> QED BY <2>2, <3>2 DEF GenInv
  <2>16. DOMAIN fields' \subseteq Paths
    BY <2>1, <2>2 DEF GenInv
  <2> QED BY <1>1, <1>3, <1>5, <2>3, <2>9, <2>14, <2>15, <2>16 DEF GenInv
<1> QED
  BY <1>4, <1>5 DEF Override

LEMMA FieldsDoneGen ==
  ASSUME GenInv, FieldsDone
  PROVE  GenInv'
<1>1. /\ phase = "fields" /\ flagsLeft = {} /\ envsLeft = {} /\ phase' = "flags"
      /\ overridden = Len(config.overrides) /\ flagsLeft' = DOMAIN document
      /\ UNCHANGED <<document, config, envsLeft, overridden, fields, accessors>>
  BY DEF FieldsDone
<1>2. \A f \in DOMAIN document : \A e \in DOMAIN document[f].environments :
        Waits(f, e)' = Waits(f, e)
  BY <1>1 DEF Waits
<1>3. FieldsAreUses' /\ TypesFollow'
  BY <1>1, <1>2, FieldsKept
<1>4. Progress'
  BY <1>1 DEF GenInv, Progress
<1> QED
  BY <1>1, <1>3, <1>4 DEF GenInv, AccessorsFollow

LEMMA CompileFlagGen ==
  ASSUME GenInv, NEW f \in flagsLeft, CompileFlag(f)
  PROVE  GenInv'
<1>1. /\ phase = "flags" /\ phase' \in {"flags", "rejected"} /\ f \in DOMAIN document
      /\ flagsLeft' \subseteq flagsLeft
      /\ UNCHANGED <<document, config, envsLeft, overridden, fields>>
  BY DEF CompileFlag, GenInv, Progress
<1>2. \A g \in DOMAIN document : \A e \in DOMAIN document[g].environments :
        Waits(g, e)' = Waits(g, e)
  BY <1>1 DEF Waits
<1>3. FieldsAreUses' /\ TypesFollow'
  BY <1>1, <1>2, FieldsKept
<1>4. Progress'
  BY <1>1 DEF GenInv, Progress
<1>5. AccessorsFollow'
  <2>1. CASE phase' = "rejected" /\ UNCHANGED accessors
    BY <1>1, <2>1 DEF GenInv, AccessorsFollow
  <2>2. CASE /\ phase' = phase
             /\ accessors' = [g \in DOMAIN accessors \cup {f} |->
                  IF g # f THEN accessors[g]
                  ELSE [kind |-> KindOf(document[f]), fallback |-> Fallback(f),
                        usesContext |-> UsesContext(document[f]),
                        keyPaths |-> TargetingKeyPaths(document[f])]]
    <3>1. accessors'[f] = [kind |-> KindOf(document[f]), fallback |-> Fallback(f),
                           usesContext |-> UsesContext(document[f]),
                           keyPaths |-> TargetingKeyPaths(document[f])]
      BY <2>2
    <3>2. \A g \in DOMAIN accessors \ {f} : accessors'[g] = accessors[g]
      BY <2>2
    <3>3. DOMAIN accessors' = DOMAIN accessors \cup {f}
      BY <2>2
    <3>4. /\ accessors'[f].usesContext <=> UsesContext(document[f])
          /\ accessors'[f].keyPaths = TargetingKeyPaths(document[f])
      BY <3>1
    <3> QED BY <1>1, <2>2, <3>2, <3>3, <3>4 DEF GenInv, AccessorsFollow
  <2> QED BY <2>1, <2>2 DEF CompileFlag
<1> QED
  BY <1>1, <1>3, <1>4, <1>5 DEF GenInv

(* What runs after the generator leaves all of it alone.                   *)
LEMMA AfterGenerator ==
  ASSUME GenInv, UNCHANGED gen,
         \/ UNCHANGED phase
         \/ phase \notin {"fields", "rejected"} /\ phase' \notin {"fields", "rejected"},
         phase' \in {"fields", "flags", "generated", "call", "sent", "rejected", "missing_key",
                     "panicked"}
  PROVE  GenInv'
<1>1. UNCHANGED <<document, config, flagsLeft, envsLeft, overridden, fields, accessors>>
  BY DEF gen
<1>2. \A f \in DOMAIN document : \A e \in DOMAIN document[f].environments :
        Waits(f, e)' = Waits(f, e)
  BY <1>1 DEF Waits
<1>3. phase # "rejected" => FieldsAreUses' /\ TypesFollow'
  BY <1>1, <1>2, FieldsKept
<1>4. Progress' /\ AccessorsFollow'
  BY <1>1 DEF GenInv, Progress, AccessorsFollow
<1> QED
  BY <1>1, <1>3, <1>4 DEF GenInv

LEMMA NextGen == GenInv /\ [Next]_vars => GenInv'
<1> SUFFICES ASSUME GenInv, [Next]_vars PROVE GenInv'
  OBVIOUS
<1>1. ASSUME NEW f \in flagsLeft, VisitFlag(f) \/ CompileFlag(f) PROVE GenInv'
  BY <1>1, VisitFlagGen, CompileFlagGen
<1>2. ASSUME NEW fe \in envsLeft, VisitEnvironment(fe[1], fe[2]) PROVE GenInv'
  <2>1. phase = "fields"
    BY <1>2 DEF VisitEnvironment
  <2>2. PICK f \in DOMAIN document \ flagsLeft : \E e \in DOMAIN document[f].environments :
               fe = <<f, e>>
    BY <2>1 DEF GenInv, Progress
  <2> QED BY <1>2, <2>2, VisitEnvironmentGen
<1>3. CASE Override \/ FieldsDone
  BY <1>3, OverrideGen, FieldsDoneGen
<1>4. CASE \/ Generate
           \/ \E f \in DOMAIN accessors, keyGiven \in BOOLEAN : Call(f, keyGiven)
           \/ \E w \in writes, nil \in BOOLEAN : SetPath(w, nil)
           \/ Send
  <2>1. UNCHANGED gen
    BY <1>4 DEF Generate, Call, SetPath, Send
  <2>2. phase \in {"flags", "generated", "call"}
    BY <1>4 DEF Generate, Call, SetPath, Send
  <2>3. phase' \in {"generated", "missing_key", "call", "panicked", "sent"}
    BY <1>4 DEF Generate, Call, SetPath, Send
  <2> QED BY <2>1, <2>2, <2>3, AfterGenerator
<1>5. CASE UNCHANGED vars
  <2>1. UNCHANGED gen /\ UNCHANGED phase /\ phase' \in {"fields", "flags", "generated", "call",
          "sent", "rejected", "missing_key", "panicked"}
    BY <1>5 DEF vars, GenInv
  <2> QED BY <2>1, AfterGenerator
<1> QED
  BY <1>1, <1>2, <1>3, <1>4, <1>5 DEF Next

LEMMA SpecGen == Spec => []GenInv
BY InitGen, NextGen, PTL DEF Spec
-----------------------------------------------------------------------------
(* What follows for the file                                               *)

LEMMA FieldsAtTheEnd ==
  ASSUME GenInv, Done
  PROVE  FieldsFollowTheirUses
<1>1. FieldsAreUses /\ TypesFollow /\ overridden = Len(config.overrides)
  BY DEF GenInv, Done, Progress
<1>2. ASSUME NEW p PROVE SeenAt(p) <=> \E leaf \in AllLeaves : leaf.path = p
  <2>1. SeenAt(p) <=> \E f \in DOMAIN document : \E e \in DOMAIN document[f].environments :
                        \E leaf \in EnvLeaves(f, e) : leaf.path = p
    BY DEF SeenAt, Waits, ReadBy, Done
  <2>2. \A leaf : leaf \in AllLeaves <=>
          \E f \in DOMAIN document : \E e \in DOMAIN document[f].environments :
            leaf \in EnvLeaves(f, e)
    <3>1. \A f : Leaves(document[f]) =
            UNION {EnvLeaves(f, e) : e \in DOMAIN document[f].environments}
      BY DEF Leaves, EnvLeaves
    <3>2. \A f, leaf : leaf \in Leaves(document[f]) <=>
            \E e \in DOMAIN document[f].environments : leaf \in EnvLeaves(f, e)
      BY <3>1
    <3> QED BY <3>2 DEF AllLeaves
  <2> QED BY <2>1, <2>2
<1>3. DOMAIN config.overrides = 1 .. overridden
  <2>1. IsList(config.overrides)
    BY AccessorAssumption DEF GenInv
  <2> QED BY <1>1, <2>1, ListFacts
<1>4. \A p : OverriddenAt(p) <=> p \in Overridden
  BY <1>3 DEF OverriddenAt, Overridden, Range
<1>5. DOMAIN fields = {leaf.path : leaf \in AllLeaves} \cup Overridden
  BY <1>1, <1>2, <1>4 DEF FieldsAreUses
<1>6. ASSUME NEW p \in DOMAIN fields
      PROVE  LET chosen ==
                   {o.type : o \in {x \in Range(config.overrides) : x.path = p /\ x.type # "none"}}
                 asked == {FieldType(WithDefaults(Inferred(leaf), config.defaults)) :
                             leaf \in {x \in AllLeaves : x.path = p}}
             IN /\ Cardinality(chosen) = 1 => fields[p] \in chosen
                /\ chosen = {} /\ Cardinality(asked) = 1 => fields[p] \in asked
  <2> DEFINE chosen ==
               {o.type : o \in {x \in Range(config.overrides) : x.path = p /\ x.type # "none"}}
             asked == {FieldType(WithDefaults(Inferred(leaf), config.defaults)) :
                         leaf \in {x \in AllLeaves : x.path = p}}
  <2>1. \A t : t \in chosen <=> Chosen(p, t)
    BY <1>3 DEF Chosen, Range
  <2>2. \A leaf \in AllLeaves : leaf.path = p => LeafType(leaf) \in asked
    BY DEF LeafType
  <2>3. asked # {} => SeenAt(p)
    BY <1>2
  <2>4. Cardinality({}) = 0
    BY FS_EmptySet
  <2> HIDE DEF chosen, asked
  <2>7. Cardinality(chosen) = 1 => chosen # {}
    BY <2>4
  <2>8. Cardinality(asked) = 1 => asked # {}
    BY <2>4
  <2>9. /\ (\E t : Chosen(p, t)) => Chosen(p, fields[p])
        /\ (\A t : ~ Chosen(p, t)) /\ SeenAt(p) =>
             \E leaf \in AllLeaves : leaf.path = p /\ fields[p] = LeafType(leaf)
    BY <1>1 DEF TypesFollow
  <2>5. Cardinality(chosen) = 1 => fields[p] \in chosen
    BY <2>1, <2>7, <2>9
  <2>6. chosen = {} /\ Cardinality(asked) = 1 => fields[p] \in asked
    BY <2>1, <2>2, <2>3, <2>8, <2>9
  <2> QED BY <2>5, <2>6 DEF chosen, asked
<1> QED
  BY <1>5, <1>6 DEF FieldsFollowTheirUses

LEMMA FileAtTheEnd ==
  ASSUME GenInv, Done
  PROVE  GeneratedFileIsWhole
<1>1. ASSUME NEW f \in DOMAIN accessors, accessors[f].usesContext
      PROVE  HasContextFields
  <2>1. UsesContext(document[f]) /\ f \in DOMAIN document
    BY <1>1 DEF GenInv, AccessorsFollow
  <2>2. PICK e \in DOMAIN document[f].environments :
          \E k \in DOMAIN document[f].environments[e] :
            \E i \in DOMAIN document[f].environments[e][k].rules :
              document[f].environments[e][k].rules[i].condition # <<>>
    BY <2>1 DEF UsesContext, Evaluations, Range
  <2> DEFINE evaluations == document[f].environments[e]
  <2>3. PICK k \in DOMAIN evaluations : \E i \in DOMAIN evaluations[k].rules :
          evaluations[k].rules[i].condition # <<>>
    BY <2>2
  <2>4. PICK i \in DOMAIN evaluations[k].rules : evaluations[k].rules[i].condition # <<>>
    BY <2>3
  <2>5. 1 \in DOMAIN evaluations[k].rules[i].condition
    <3>1. IsEvaluation(evaluations[k])
      BY <2>1, EnvironmentFacts
    <3>2. IsList(evaluations[k].rules[i].condition)
      BY <3>1 DEF IsEvaluation
    <3> QED BY <2>4, <3>2, ListFacts
  <2>6. <<k, i, 1>> \in Places(evaluations)
    BY <2>5, PlacesMembers
  <2>7. LeafAt(evaluations, <<k, i, 1>>) \in EnvLeaves(f, e)
    BY <2>6 DEF EnvLeaves
  <2>8. SeenAt(LeafAt(evaluations, <<k, i, 1>>).path)
    BY <2>1, <2>7 DEF SeenAt, Waits, ReadBy, Done
  <2> QED BY <2>8 DEF GenInv, Done, FieldsAreUses, HasContextFields
<1>2. SomeRequires <=> \E f \in DOMAIN accessors : accessors[f].keyPaths # {}
  BY DEF SomeRequires
<1>3. HasErrors <=> SomeRequires \/ SomeCollection
  BY DEF HasErrors, SomeRequires, SomeCollection
<1>4. Imports = UsedPackages
  BY <1>3 DEF Imports, UsedPackages, Declared, HasAttributePaths
<1>5. ASSUME NEW f \in DOMAIN accessors
      PROVE  /\ accessors[f].usesContext => {"EvalContext", "setPath"} \subseteq Declared
             /\ accessors[f].keyPaths # {} =>
                  {"withTargetingKeyAttributes", "ErrMissingTargetingKey", "setPath"}
                    \subseteq Declared
             /\ accessors[f].kind = "object" => "asObjectValue" \in Declared
             /\ accessors[f].kind = "list" => "asListValue" \in Declared
  <2>1. accessors[f].kind \in Collections => SomeCollection
    BY DEF SomeCollection
  <2>2. accessors[f].keyPaths # {} => SomeRequires /\ HasAttributePaths
    BY <1>2 DEF HasAttributePaths
  <2>3. accessors[f].usesContext => HasContextFields
    BY <1>1
  <2> QED BY <2>1, <2>2, <2>3 DEF Declared, Collections
<1>6. UsedNames \subseteq Declared
  <2> DEFINE Names(f) ==
        (IF accessors[f].usesContext THEN {"EvalContext", "setPath"} ELSE {})
           \cup (IF accessors[f].keyPaths # {}
                 THEN {"withTargetingKeyAttributes", "ErrMissingTargetingKey", "setPath"}
                 ELSE {})
           \cup (IF accessors[f].kind = "object" THEN {"asObjectValue"} ELSE {})
           \cup (IF accessors[f].kind = "list" THEN {"asListValue"} ELSE {})
  <2>1. ASSUME NEW f \in DOMAIN accessors PROVE Names(f) \subseteq Declared
    BY <1>5
  <2>2. UsedNames = UNION {Names(f) : f \in DOMAIN accessors}
    BY DEF UsedNames
  <2> HIDE DEF Names
  <2> QED BY <2>1, <2>2
<1> QED
  BY <1>4, <1>6 DEF GeneratedFileIsWhole

-----------------------------------------------------------------------------
(* A call                                                                  *)

Running == phase \in {"call", "sent", "panicked"}
AllWrites == (IF accessors[call].usesContext THEN FieldWrites ELSE {}) \cup KeyWrites(call)
Conflict(p, q) == p = q \/ Extends(p, q) \/ Extends(q, p)

(* What is still to be written comes after what has been.                  *)
InOrder == \A w \in AllWrites \ writes, v \in writes : ComesBefore(w, v)

(* Each attribute is the value of a write that was made to its path.       *)
Made ==
  \A p \in DOMAIN attributes :
    \E w \in AllWrites \ writes : w.path = p /\ w.from = attributes[p]

(* A write that none made later has disturbed is still there.              *)
Undisturbed(w) ==
  \A u \in AllWrites \ writes : ComesBefore(w, u) => ~ Conflict(u.path, w.path)
Arrived ==
  \A w \in AllWrites \ writes :
    Undisturbed(w) => w.path \in DOMAIN attributes /\ attributes[w.path] = w.from

NilMapBelowField ==
  \E p \in DOMAIN fields : fields[p] = "map[string]any" /\ ~ Longest(p)

(* The provider gets a targeting key if the flag has a path for it.        *)
Targeting ==
  /\ targeted \in BOOLEAN
  /\ Running => (targeted <=> accessors[call].keyPaths # {})

RunInv ==
  /\ DOMAIN attributes \subseteq Paths
  /\ Targeting
  /\ ~ Running => writes = {} /\ DOMAIN attributes = {}
  /\ Running => /\ call \in DOMAIN accessors
                /\ writes \subseteq AllWrites
                /\ InOrder /\ Made /\ Arrived
  /\ phase = "sent" => writes = {}
  /\ phase = "panicked" => NilMapBelowField

LEMMA PlaceFacts ==
  ASSUME NEW p \in Paths
  PROVE  /\ Place(p) \in DOMAIN PathOrder /\ PathOrder[Place(p)] = p
         /\ Place(p) \in Nat
         /\ p # Key
<1>1. \E i \in DOMAIN PathOrder : PathOrder[i] = p
  BY DEF Paths, Range
<1>2. Place(p) \in DOMAIN PathOrder /\ PathOrder[Place(p)] = p
  BY <1>1 DEF Place
<1>3. DOMAIN PathOrder \subseteq Nat
  BY PathAssumption, ListFacts
<1> QED
  BY <1>2, <1>3, PathAssumption DEF Key

LEMMA LongerComesLater ==
  ASSUME NEW p \in Paths, NEW q \in Paths, Extends(p, q)
  PROVE  Place(q) < Place(p)
BY PlaceFacts, PathAssumption

LEMMA KeyPathFacts ==
  ASSUME GenInv, NEW f \in DOMAIN accessors
  PROVE  /\ accessors[f].keyPaths \subseteq Paths
         /\ \A x \in Evaluations(document[f]) : \A a \in Actions(x) :
              a.key \notin {<<>>, KeyPath} => a.key \in accessors[f].keyPaths
         /\ accessors[f].keyPaths # {} <=>
              \E x \in Evaluations(document[f]) : \E a \in Actions(x) :
                a.key \notin {<<>>, KeyPath}
<1>1. f \in DOMAIN document /\ accessors[f].keyPaths = TargetingKeyPaths(document[f])
  BY DEF GenInv, AccessorsFollow
<1>2. ASSUME NEW x \in Evaluations(document[f]), NEW a \in Actions(x)
      PROVE  a.key \in Paths \cup {<<>>}
  <2>1. PICK e \in DOMAIN document[f].environments : x \in Range(document[f].environments[e])
    BY DEF Evaluations
  <2>2. IsEvaluation(x)
    BY <1>1, <2>1, EnvironmentFacts DEF Range
  <2> QED BY <2>2 DEF IsEvaluation, Actions
<1>3. \A p : p \in TargetingKeyPaths(document[f]) <=>
        /\ \E x \in Evaluations(document[f]) : \E a \in Actions(x) : p = a.key
        /\ p \notin {<<>>, KeyPath}
  BY DEF TargetingKeyPaths
<1>4. accessors[f].keyPaths # {} <=>
        \E x \in Evaluations(document[f]) : \E a \in Actions(x) : a.key \notin {<<>>, KeyPath}
  <2> HIDE DEF KeyPath
  <2>1. accessors[f].keyPaths # {} <=> \E p : p \in TargetingKeyPaths(document[f])
    BY <1>1
  <2>2. (\E p : p \in TargetingKeyPaths(document[f])) <=>
          \E p : /\ \E x \in Evaluations(document[f]) : \E a \in Actions(x) : p = a.key
                 /\ p \notin {<<>>, KeyPath}
    BY <1>3
  <2> QED
    BY <2>1, <2>2
<1> QED
  BY <1>1, <1>2, <1>3, <1>4

LEMMA WriteFacts ==
  ASSUME GenInv, call \in DOMAIN accessors, NEW w \in AllWrites
  PROVE  /\ w.path \in Paths
         /\ \/ w.from = w.path /\ w.path \in DOMAIN fields /\ w.from # Key
            \/ w.from = Key /\ w.path \in accessors[call].keyPaths
<1>1. CASE w \in FieldWrites
  <2>1. PICK p \in DOMAIN fields : w = [path |-> p, from |-> p]
    BY <1>1 DEF FieldWrites
  <2> QED BY <2>1, PlaceFacts DEF GenInv
<1>2. CASE w \in KeyWrites(call)
  <2>1. PICK p \in accessors[call].keyPaths : w = [path |-> p, from |-> Key]
    BY <1>2 DEF KeyWrites
  <2> QED BY <2>1, KeyPathFacts
<1> QED
  BY <1>1, <1>2 DEF AllWrites

LEMMA CallRun ==
  ASSUME GenInv, RunInv, NEW f \in DOMAIN accessors, NEW keyGiven, Call(f, keyGiven)
  PROVE  RunInv'
<1>1. /\ phase = "generated" /\ call' = f
      /\ UNCHANGED <<fields, accessors, attributes>>
      /\ writes = {} /\ DOMAIN attributes = {}
  BY DEF Call, gen, RunInv, Running
<1>2. CASE phase' = "missing_key" /\ UNCHANGED <<writes, targeted>>
  BY <1>1, <1>2 DEF RunInv, Running, Targeting
<1>3. CASE /\ phase' = "call"
           /\ targeted' = (accessors[f].keyPaths # {})
           /\ writes' = (IF accessors[f].usesContext THEN FieldWrites ELSE {}) \cup KeyWrites(f)
  <2>1. writes' = AllWrites'
    <3>1. FieldWrites' = FieldWrites
      BY <1>1 DEF FieldWrites
    <3>2. KeyWrites(call)' = KeyWrites(f)
      BY <1>1 DEF KeyWrites
    <3> QED BY <1>1, <1>3, <3>1, <3>2 DEF AllWrites
  <2>2. Targeting'
    BY <1>1, <1>3 DEF Targeting, Running
  <2> QED BY <1>1, <1>3, <2>1, <2>2 DEF RunInv, Running, InOrder, Made, Arrived
<1> QED
  BY <1>2, <1>3 DEF Call

LEMMA SetPathRun ==
  ASSUME GenInv, RunInv, NEW w \in writes, NEW nil, SetPath(w, nil)
  PROVE  RunInv'
<1>1. /\ phase = "call" /\ Running /\ call \in DOMAIN accessors
      /\ \A v \in writes \ {w} : ComesBefore(w, v)
      /\ UNCHANGED <<fields, accessors, call>>
      /\ w \in AllWrites /\ writes \subseteq AllWrites
      /\ InOrder /\ Made /\ Arrived /\ DOMAIN attributes \subseteq Paths
  BY DEF SetPath, gen, RunInv, Running
<1>2. AllWrites' = AllWrites
  BY <1>1 DEF AllWrites, FieldWrites, KeyWrites
<1>5. (phase' = "panicked" \/ UNCHANGED phase) => Targeting'
  BY <1>1 DEF SetPath, RunInv, Running, Targeting
<1>3. CASE nil /\ Through(w.path) # {} /\ phase' = "panicked" /\ UNCHANGED <<attributes, writes>>
  <2>1. InOrder' /\ Made' /\ Arrived'
    BY <1>1, <1>2, <1>3 DEF InOrder, Made, Arrived, Undisturbed
  <2>2. NilMapBelowField
    <3>1. PICK p \in DOMAIN attributes : Extends(w.path, p) /\ IsMap(p)
      BY <1>3 DEF Through, InTheWay
    <3>2. PICK u \in AllWrites \ writes : u.path = p /\ u.from = attributes[p]
      BY <1>1 DEF Made
    <3>3. attributes[p] \in DOMAIN fields /\ fields[attributes[p]] = "map[string]any"
      BY <3>1 DEF IsMap
    <3>4. attributes[p] = p
      <4>1. attributes[p] # Key
        BY <3>3, PlaceFacts DEF GenInv
      <4> QED BY <1>1, <3>2, <4>1, WriteFacts
    <3>5. w.path \in DOMAIN fields \cup accessors[call].keyPaths
      BY <1>1, WriteFacts
    <3>6. ~ Longest(p)
      BY <3>1, <3>5 DEF Longest
    <3> QED BY <3>3, <3>4, <3>6 DEF NilMapBelowField
  <2>3. NilMapBelowField'
    BY <1>1, <2>2 DEF NilMapBelowField, Longest
  <2> QED BY <1>1, <1>2, <1>3, <1>5, <2>1, <2>3 DEF RunInv, Running
<1>4. CASE /\ attributes' =
                [p \in (DOMAIN attributes \ (InTheWay(w.path) \cup Under(w.path)))
                          \cup {w.path} |->
                   IF p = w.path THEN w.from ELSE attributes[p]]
           /\ writes' = writes \ {w}
           /\ UNCHANGED phase
  <2>1. /\ w.path \in DOMAIN attributes' /\ attributes'[w.path] = w.from
        /\ \A p \in DOMAIN attributes' :
             p # w.path => p \in DOMAIN attributes /\ attributes'[p] = attributes[p]
        /\ \A p \in DOMAIN attributes :
             ~ Conflict(w.path, p) => p \in DOMAIN attributes' /\ attributes'[p] = attributes[p]
    <3> HIDE DEF Extends
    <3> QED BY <1>4 DEF Conflict, InTheWay, Under
  <2>2. \A u : u \in AllWrites' \ writes' <=> u = w \/ u \in AllWrites \ writes
    BY <1>1, <1>2, <1>4
  <2>3. InOrder'
    <3>1. ASSUME NEW u \in AllWrites' \ writes', NEW v \in writes'
          PROVE  ComesBefore(u, v)
      BY <1>1, <1>4, <2>2 DEF InOrder
    <3> QED BY <3>1 DEF InOrder, ComesBefore
  <2>4. Made'
    BY <1>1, <2>1, <2>2 DEF Made
  <2>5. Arrived'
    <3>1. ASSUME NEW u \in AllWrites' \ writes', Undisturbed(u)'
          PROVE  u.path \in DOMAIN attributes' /\ attributes'[u.path] = u.from
      <4>1. CASE u = w
        BY <2>1, <4>1
      <4>2. CASE u \in AllWrites \ writes
        <5>1. ComesBefore(u, w)
          BY <1>1, <4>2 DEF InOrder
        <5>2. \A x \in AllWrites' \ writes' :
                ComesBefore(u, x) => ~ Conflict(x.path, u.path)
          BY <3>1 DEF Undisturbed, ComesBefore
        <5>3. ~ Conflict(w.path, u.path)
          BY <2>2, <5>1, <5>2
        <5>4. Undisturbed(u)
          BY <2>2, <5>2 DEF Undisturbed
        <5>5. u.path \in DOMAIN attributes /\ attributes[u.path] = u.from
          BY <1>1, <4>2, <5>4 DEF Arrived
        <5> QED BY <2>1, <5>3, <5>5
      <4> QED BY <2>2, <4>1, <4>2
    <3> QED BY <3>1 DEF Arrived
  <2>6. DOMAIN attributes' \subseteq Paths
    BY <1>1, <2>1, WriteFacts
  <2> QED BY <1>1, <1>2, <1>4, <1>5, <2>3, <2>4, <2>5, <2>6 DEF RunInv, Running
<1> QED
  BY <1>3, <1>4 DEF SetPath

(* A step that leaves the call alone.                                      *)
LEMMA RunKept ==
  ASSUME GenInv, RunInv, UNCHANGED run,
         \/ ~ Running /\ ~ Running'
         \/ Running /\ Running' /\ UNCHANGED <<fields, accessors>>,
         phase' = "sent" => writes = {},
         phase' = "panicked" => phase = "panicked"
  PROVE  RunInv'
<1>1. UNCHANGED <<call, writes, attributes, targeted>> /\ Targeting'
  BY DEF run, RunInv, Targeting
<1>2. CASE ~ Running /\ ~ Running'
  <2>1. phase' # "sent" /\ phase' # "panicked"
    BY <1>2 DEF Running
  <2> QED BY <1>1, <1>2, <2>1 DEF RunInv
<1>3. CASE Running /\ Running' /\ UNCHANGED <<fields, accessors>>
  <2>1. AllWrites' = AllWrites
    BY <1>1, <1>3 DEF AllWrites, FieldWrites, KeyWrites
  <2>2. InOrder' /\ Made' /\ Arrived'
    BY <1>1, <1>3, <2>1 DEF RunInv, InOrder, Made, Arrived, Undisturbed
  <2>3. NilMapBelowField' = NilMapBelowField
    BY <1>1, <1>3 DEF NilMapBelowField, Longest
  <2> QED BY <1>1, <1>3, <2>1, <2>2, <2>3 DEF RunInv
<1> QED
  BY <1>2, <1>3

LEMMA NextRun == GenInv /\ RunInv /\ [Next]_vars => RunInv'
<1> SUFFICES ASSUME GenInv, RunInv, [Next]_vars PROVE RunInv'
  OBVIOUS
<1>1. CASE \/ \E f \in flagsLeft : VisitFlag(f) \/ CompileFlag(f)
           \/ \E fe \in envsLeft : VisitEnvironment(fe[1], fe[2])
           \/ Override \/ FieldsDone \/ Generate
  <2> DEFINE Quiet == /\ UNCHANGED run /\ phase \in {"fields", "flags"}
                      /\ phase' \in {"fields", "flags", "generated", "rejected"}
  <2>1. ASSUME NEW f \in flagsLeft, VisitFlag(f) PROVE Quiet
    BY <2>1 DEF VisitFlag
  <2>2. ASSUME NEW f \in flagsLeft, CompileFlag(f) PROVE Quiet
    BY <2>2 DEF CompileFlag
  <2>3. ASSUME NEW fe \in envsLeft, VisitEnvironment(fe[1], fe[2]) PROVE Quiet
    BY <2>3 DEF VisitEnvironment
  <2>4. ASSUME Override PROVE Quiet
    <3>1. UNCHANGED run /\ phase = "fields" /\ (phase' = "rejected" \/ UNCHANGED phase)
      BY <2>4 DEF Override
    <3> QED BY <3>1
  <2>5. ASSUME FieldsDone PROVE Quiet
    BY <2>5 DEF FieldsDone
  <2>6. ASSUME Generate PROVE Quiet
    BY <2>6 DEF Generate
  <2>7. Quiet
    <3> HIDE DEF Quiet
    <3> QED BY <1>1, <2>1, <2>2, <2>3, <2>4, <2>5, <2>6
  <2>8. ~ Running /\ ~ Running' /\ phase' # "sent" /\ phase' # "panicked"
    BY <2>7 DEF Running
  <2> QED BY <2>7, <2>8, RunKept
<1>2. ASSUME NEW f \in DOMAIN accessors, NEW keyGiven \in BOOLEAN, Call(f, keyGiven)
      PROVE  RunInv'
  BY <1>2, CallRun
<1>3. ASSUME NEW w \in writes, NEW nil \in BOOLEAN, SetPath(w, nil) PROVE RunInv'
  BY <1>3, SetPathRun
<1>4. CASE Send
  <2>1. /\ UNCHANGED <<run, fields, accessors>> /\ phase = "call" /\ phase' = "sent"
        /\ writes = {}
    BY <1>4 DEF Send, gen
  <2> QED BY <2>1, RunKept DEF Running
<1>5. CASE UNCHANGED vars
  <2>1. UNCHANGED <<run, phase, fields, accessors>>
    BY <1>5 DEF vars, gen
  <2>2. Running' <=> Running
    BY <2>1 DEF Running
  <2>3. phase' = "sent" => writes = {}
    BY <2>1 DEF RunInv
  <2> QED BY <2>1, <2>2, <2>3, RunKept
<1> QED
  BY <1>1, <1>2, <1>3, <1>4, <1>5 DEF Next

LEMMA InitRun == Init => RunInv
<1> SUFFICES ASSUME Init PROVE RunInv
  OBVIOUS
<1>1. phase \in {"fields", "rejected"} /\ targeted = FALSE
  BY DEF Init
<1>2. ~ Running /\ phase # "sent" /\ phase # "panicked"
  BY <1>1 DEF Running
<1>3. Targeting
  BY <1>1, <1>2 DEF Targeting
<1> QED
  BY <1>2, <1>3 DEF Init, RunInv

LEMMA SpecRun == Spec => [](GenInv /\ RunInv)
BY InitGen, InitRun, NextGen, NextRun, PTL DEF Spec

LEMMA WhatIsSent ==
  ASSUME GenInv, RunInv
  PROVE  ContextArrives
<1>1. ASSUME phase = "sent" PROVE
        /\ Running /\ Done /\ call \in DOMAIN accessors /\ writes = {} /\ Arrived
        /\ call \in DOMAIN document /\ FieldsAreUses
        /\ accessors[call].usesContext <=> UsesContext(document[call])
  BY <1>1 DEF RunInv, Running, Done, GenInv, AccessorsFollow
<1>2. ASSUME phase = "sent", NEW w \in AllWrites, Longest(w.path),
             \A u \in AllWrites : u.from = Key /\ w.from # Key =>
               u.path # w.path /\ ~ Extends(w.path, u.path)
      PROVE  w.path \in DOMAIN attributes /\ attributes[w.path] = w.from
  <2>1. ASSUME NEW u \in AllWrites, ComesBefore(w, u) PROVE ~ Conflict(u.path, w.path)
    <3>1. ~ Extends(u.path, w.path)
      BY <1>1, <1>2, WriteFacts DEF Longest
    <3>2. CASE (u.from = Key) = (w.from = Key)
      <4>1. Place(w.path) < Place(u.path)
        BY <2>1, <3>2 DEF ComesBefore
      <4>2. w.path \in Paths /\ u.path \in Paths
        BY <1>1, <1>2, WriteFacts
      <4>3. Place(w.path) \in Nat /\ Place(u.path) \in Nat
        BY <4>2, PlaceFacts
      <4>4. u.path # w.path
        BY <4>1, <4>3
      <4>5. ~ Extends(w.path, u.path)
        BY <4>1, <4>2, <4>3, LongerComesLater
      <4> QED BY <3>1, <4>4, <4>5 DEF Conflict
    <3>3. CASE (u.from = Key) # (w.from = Key)
      <4>1. u.from = Key /\ w.from # Key
        BY <2>1, <3>3 DEF ComesBefore
      <4> QED BY <1>2, <3>1, <4>1 DEF Conflict
    <3> QED BY <3>2, <3>3
  <2> QED BY <1>1, <1>2, <2>1 DEF Arrived, Undisturbed
<1>3. ASSUME phase = "sent", NEW leaf \in Leaves(document[call]), Longest(leaf.path),
             \A q \in accessors[call].keyPaths : q # leaf.path /\ ~ Extends(leaf.path, q)
      PROVE  leaf.path \in DOMAIN attributes /\ attributes[leaf.path] = leaf.path
  <2>1. PICK e \in DOMAIN document[call].environments : leaf \in EnvLeaves(call, e)
    BY DEF Leaves, EnvLeaves
  <2>2. leaf.path \in DOMAIN fields
    <3>1. SeenAt(leaf.path)
      BY <1>1, <1>3, <2>1 DEF SeenAt, ReadBy, Waits
    <3> QED BY <1>1, <1>3, <3>1 DEF FieldsAreUses
  <2>3. accessors[call].usesContext
    <3> DEFINE evaluations == document[call].environments[e]
    <3>1. PICK at \in Places(evaluations) : leaf = LeafAt(evaluations, at)
      BY <2>1 DEF EnvLeaves
    <3>2. PICK k \in DOMAIN evaluations : \E i \in DOMAIN evaluations[k].rules :
                 \E j \in DOMAIN evaluations[k].rules[i].condition : at = <<k, i, j>>
      BY <3>1, PlacesMembers
    <3>3. PICK i \in DOMAIN evaluations[k].rules : evaluations[k].rules[i].condition # <<>>
      BY <3>2
    <3>4. evaluations[k] \in Evaluations(document[call])
      BY DEF Evaluations, Range
    <3>5. UsesContext(document[call])
      BY <3>3, <3>4 DEF UsesContext
    <3> QED BY <1>1, <1>3, <3>5
  <2> DEFINE w == [path |-> leaf.path, from |-> leaf.path]
  <2>4. w \in AllWrites
    BY <2>2, <2>3 DEF AllWrites, FieldWrites
  <2>5. \A u \in AllWrites : u.from = Key => u.path # w.path /\ ~ Extends(w.path, u.path)
    <3>1. \A u \in AllWrites : u.from = Key => u.path \in accessors[call].keyPaths
      BY <1>1, <1>3, WriteFacts
    <3> QED BY <1>3, <3>1
  <2>6. w.path = leaf.path /\ w.from = leaf.path
    OBVIOUS
  <2> HIDE DEF w
  <2> QED BY <1>2, <1>3, <2>4, <2>5, <2>6
<1>4. ASSUME phase = "sent", NEW x \in Evaluations(document[call]), NEW a \in Actions(x),
             a.key \notin {<<>>, KeyPath}, Longest(a.key)
      PROVE  a.key \in DOMAIN attributes /\ attributes[a.key] = Key
  <2> DEFINE w == [path |-> a.key, from |-> Key]
  <2>1. a.key \in accessors[call].keyPaths
    BY <1>1, <1>4, KeyPathFacts
  <2>2. w \in AllWrites
    BY <2>1 DEF AllWrites, KeyWrites
  <2>3. w.path = a.key /\ w.from = Key
    OBVIOUS
  <2> HIDE DEF w
  <2> QED BY <1>2, <1>4, <2>2, <2>3
<1>5. phase = "panicked" => NilMapBelowField
  BY DEF RunInv
<1>8. phase = "sent" =>
        (targeted <=> \E x \in Evaluations(document[call]) : \E a \in Actions(x) :
                        a.key \notin {<<>>, KeyPath})
  BY <1>1, KeyPathFacts DEF RunInv, Targeting
<1>6. phase = "sent" =>
        \A p \in {leaf.path : leaf \in Leaves(document[call])} :
            /\ Longest(p)
            /\ \A q \in accessors[call].keyPaths : q # p /\ ~ Extends(p, q)
            => p \in DOMAIN attributes /\ attributes[p] = p
  BY <1>3
<1>7. phase = "sent" =>
        \A p \in UNION {{a.key : a \in Actions(x)} : x \in Evaluations(document[call])} :
            p \notin {<<>>, KeyPath} /\ Longest(p) =>
              p \in DOMAIN attributes /\ attributes[p] = Key
  BY <1>4
<1> QED
  BY <1>5, <1>6, <1>7, <1>8 DEF ContextArrives, NilMapBelowField

(* The generator and a call keep to their types: TypeOK.                   *)
THEOREM AccessorTypeCorrect == Spec => []TypeOK
<1>1. GenInv /\ RunInv => TypeOK
  BY DEF GenInv, RunInv, Targeting, AccessorsFollow, TypeOK, Range
<1> QED
  BY <1>1, SpecRun, PTL

(* ContextArrives: what an accessor sends is what the conditions of its    *)
(* flag read and, at every path other than targetingKey that the flag      *)
(* buckets by, the targeting key, which is asked for because of these      *)
(* paths alone; a flag that buckets by targetingKey only is called without *)
(* a key.                                                                  *)
THEOREM CallsCarryTheirContext == Spec => []ContextArrives
<1>1. GenInv /\ RunInv => ContextArrives
  BY WhatIsSent DEF ContextArrives
<1> QED
  BY <1>1, SpecRun, PTL

(* Every context struct has the fields its conditions need, and the type   *)
(* of each follows its uses: FieldsFollowTheirUses.                        *)
THEOREM StructFollowsConditions == Spec => []FieldsFollowTheirUses
<1>1. GenInv => FieldsFollowTheirUses
  BY FieldsAtTheEnd DEF FieldsFollowTheirUses
<1> QED
  BY <1>1, SpecGen, PTL

(* Every generated file compiles as far as its imports and names go:       *)
(* GeneratedFileIsWhole.                                                   *)
THEOREM FilesAreWhole == Spec => []GeneratedFileIsWhole
<1>1. GenInv => GeneratedFileIsWhole
  BY FileAtTheEnd DEF GeneratedFileIsWhole
<1> QED
  BY <1>1, SpecGen, PTL

=============================================================================
