------------------------ MODULE MCGeneratedAccessors ------------------------
(* One flag of every shape beside a second one, under several configs.     *)
EXTENDS GeneratedAccessors, TLC

User == <<"user">>
UserID == <<"user", "id">>
Plan == <<"plan">>

Serve(v) == [serve |-> v, key |-> <<>>]
Split(p) == [serve |-> "none", key |-> p]
Leaf(form, path, literals) == [form |-> form, path |-> path, literals |-> literals]
Rule(condition, action) == [condition |-> condition, action |-> action]
Evaluation(rules, default) == [rules |-> rules, default |-> default]

OneUse == {<<Leaf("comparison", Plan, <<"int">>)>>, <<Leaf("comparison", Plan, <<"double">>)>>,
           <<Leaf("equality", UserID, <<"string">>)>>, <<Leaf("presence", User, <<>>)>>,
           <<Leaf("membership", Plan, <<"int", "double">>), Leaf("contains", User, <<"string">>)>>,
           <<Leaf("match", Plan, <<>>)>>,
           <<>>}
Actions_ == {Serve("off"), Split(UserID), Split(User), Split(KeyPath)}

Bases == {Evaluation(<<Rule(c, a)>>, Serve("on")) : c \in OneUse, a \in Actions_}
Schedules ==
  {<<>>, <<Evaluation(<<Rule(<<Leaf("semver", UserID, <<>>)>>, Serve("on"))>>, Split(Plan))>>}
Environments ==
  {[prod |-> <<b>> \o s] : b \in Bases, s \in Schedules}
    \cup {[dev |-> <<Evaluation(<<>>, d)>>, prod |-> <<b>>] :
            d \in {Serve("on"), Serve("off"), Split(User)}, b \in Bases}
Flag(kind, environments) ==
  [variants |-> [v \in {"on", "off"} |-> kind], environments |-> environments]

Second ==
  {Flag("bool", [prod |-> <<Evaluation(<<Rule(c, Serve("off"))>>, a)>>]) :
     c \in {<<>>, <<Leaf("comparison", Plan, <<"int">>)>>}, a \in {Serve("on"), Split(UserID)}}

Firsts == {Flag("bool", es) : es \in Environments}
  \cup {Flag(kind, [prod |-> <<b>>]) : kind \in {"object", "list", "null"}, b \in Bases}

MCDocuments ==
  {[first |-> f] : f \in Firsts}
    \cup {[first |-> f, second |-> g] :
            f \in {x \in Firsts : DOMAIN x.environments = {"prod"} /\ x.variants["on"] = "bool"},
            g \in Second}

NoDefaults == [scalars |-> <<>>, slices |-> <<>>]
Config(defaults, overrides, infer) ==
  [defaults |-> defaults, overrides |-> overrides, infer |-> infer,
   fallbacks |-> [first |-> "off", second |-> "off"]]
Field(path, type) == [path |-> path, type |-> type]

MCConfigs ==
  {Config(NoDefaults, <<>>, TRUE),
   Config(NoDefaults, <<Field(Plan, "float64"), Field(User, "map[string]any")>>, FALSE),
   Config(NoDefaults, <<Field(Plan, "none"), Field(User, "[]int"), Field(User, "int")>>, FALSE),
   Config([scalars |-> [int |-> "int"], slices |-> [string |-> "[]any"]], <<>>, FALSE),
   Config([scalars |-> [int |-> "uint"], slices |-> <<>>], <<>>, FALSE),
   Config(NoDefaults, <<Field(Plan, "uint")>>, FALSE)}

MCPathOrder == <<Plan, KeyPath, User, UserID>>
=============================================================================
