----------------------------- MODULE MCAuthoring -----------------------------
(* One document that uses the whole grammar, and every document that has   *)
(* one node of it replaced, one key added or one key left out.             *)
EXTENDS ValueTransport, TLC

(* The same function; TLC works it out once.                               *)
AtOnce(f) == f @@ <<>>

Leaf(node) == [p \in {<<>>} |-> node]
Scalar_(plain, form, n) == Leaf([kind |-> "scalar", plain |-> plain, form |-> form, n |-> n])
Text == Scalar_(TRUE, "text", 0)
Number(n) == Scalar_(TRUE, "int", n)

(* A mapping of the pairs <<key, tree>>, a sequence of trees.              *)
Tree(kind, pairs) ==
  LET keys == [i \in DOMAIN pairs |-> pairs[i][1]]
      paths == UNION {{<<pairs[i][1]>> \o q : q \in DOMAIN pairs[i][2]} : i \in DOMAIN pairs}
      At(k) == pairs[CHOOSE i \in DOMAIN pairs : pairs[i][1] = k][2]
  IN AtOnce([p \in {<<>>} \cup {q \in paths : q[1] # ComplexKey} |->
        IF p = <<>> THEN [kind |-> kind, kids |-> keys] ELSE At(p[1])[Tail(p)]])
Map(pairs) == Tree("map", pairs)
List(trees) == Tree("seq", [i \in DOMAIN trees |-> <<(<<"0", "1", "2", "3">>)[i], trees[i]>>])

IsBelow(p, q) == Len(p) <= Len(q) /\ SubSeq(q, 1, Len(p)) = p
Rest(p, q) == SubSeq(q, Len(p) + 1, Len(q))
Replace(t, p, s) ==
  AtOnce([q \in {r \in DOMAIN t : ~ IsBelow(p, r)} \cup {p \o r : r \in DOMAIN s} |->
     IF IsBelow(p, q) THEN s[Rest(p, q)] ELSE t[q]])
Add(t, p, k, s) ==
  Replace([t EXCEPT ![p].kids = Append(@, k)], Append(p, k), s)
Remove(t, p) ==
  AtOnce([q \in {r \in DOMAIN t : ~ IsBelow(p, r)} |->
     IF q = Parent(p)
     THEN [t[q] EXCEPT !.kids = SelectSeq(@, LAMBDA k : k # p[Len(p)])] ELSE t[q]])

Serve == Map(<< <<"serve", Text>> >>)
Var == Map(<< <<"var", Text>> >>)
Ramp == Map(<< <<"end", Text>>, <<"start", Text>>, <<"steps", Number(2)>>,
               <<"stickiness", Text>>, <<"variant", Text>> >>)
If == Map(<< <<"all_of", List(<<Map(<< <<"eq", List(<<Var, Number(1)>>)>> >>),
                                Map(<< <<"not", Map(<< <<"semver_gt", List(<<Var, Text>>)>> >>)>> >>)>>)>> >>)
Conditions ==
  Map(<< <<"r", Map(<< <<"in", List(<<Text, List(<<Text, Var>>)>>)>> >>)>>,
         <<"s", Map(<< <<"literal_bool", Scalar_(FALSE, "bool", 1)>> >>)>> >>)
Step == Map(<< <<"date", Text>>, <<"default_action", Serve>>,
               <<"disabled", Scalar_(TRUE, "bool", 1)>>, <<"name", Text>>,
               <<"rules", List(<<Map(<< <<"distribute", Text>>,
                                        <<"if", Map(<< <<"rule", Text>> >>)>> >>)>>)>> >>)
Environments ==
  Map(<< <<"dev", Map(<< <<"extensions", Map(<< <<"x", Number(1)>> >>)>>, <<"serve", Text>> >>)>>,
         <<"prod", Map(<< <<"default_action", Map(<< <<"progressive_rollout", Ramp>> >>)>>,
                          <<"rules", List(<<Map(<< <<"if", If>>, <<"serve", Text>> >>)>>)>>,
                          <<"scheduled_rollouts", List(<<Step>>)>> >>)>> >>)
Flag ==
  Map(<< <<"default_variant", Text>>, <<"environments", Environments>>,
         <<"key", Text>>, <<"variant_set", Text>> >>)
Full ==
  Map(<< <<"distributions",
           Map(<< <<"d", Map(<< <<"stickiness", Text>>,
                                <<"weights", Map(<< <<"a", Number(1)>> >>)>> >>)>> >>)>>,
         <<"extensions", Map(<< <<"x", Map(<< <<"y", List(<<Number(1)>>)>> >>)>> >>)>>,
         <<"flags", List(<<Flag>>)>>,
         <<"rules", Conditions>>,
         <<"variant_sets",
           Map(<< <<"v", Map(<< <<"a", Map(<< <<"b", List(<<Number(1)>>)>> >>)>>,
                                <<"c", Map(<<>>)>> >>)>>,
                  <<"w", Map(<< <<"a", Number(1)>>, <<"c", Number(0)>> >>)>> >>)>>,
         <<"version", Text>> >>)

Numbers == {-IntMax - 2, -IntMax - 1, 0, 1, StagesMax, StagesMax + 1, IntMax, UintMax, UintMax + 1}
Scalars == {Scalar_(TRUE, "int", n) : n \in Numbers}
  \cup {Scalar_(TRUE, "text", n) : n \in {TextMax + 1, AuthoredTextMax + 1}}
  \cup [{<<>>} -> [kind : {"scalar"}, plain : BOOLEAN, form : ScalarForms, n : {1}]]
Shapes ==
  {Leaf([kind |-> "alias"]), Leaf([kind |-> "custom"]), Map(<<>>), List(<<>>),
   Serve, Var, Ramp, If, List(<<Text, Text>>), List(<<Serve, Var>>),
   List(<<Text, Text, Text>>), List(<<Text, Text, Text, Text>>),
   List(<<List(<<Text, Text>>), List(<<Text, Text>>)>>),
   Map(<< <<"a", Text>>, <<"b", Text>>, <<"c", Text>>, <<"d", Text>> >>),
   Map(<< <<"x", Number(1)>> >>), Map(<< <<"", Text>> >>),
   Map(<< <<"x", Text>>, <<"x", Text>> >>), Map(<< <<ComplexKey, Text>> >>),
   Map(<< <<"distribute", Text>>, <<"if", If>>, <<"serve", Text>> >>),
   Map(<< <<"rules", List(<<>>)>>, <<"serve", Text>> >>)}

Maps == {p \in DOMAIN Full : Full[p].kind = "map"}
ExtraKeys == {"serve", "distribute", "rules", "default_action", "any_of", "extensions", "zz", "", "long", "longer"}

MCSources ==
  {Full}
    \cup {Replace(Full, p, s) : p \in DOMAIN Full, s \in Scalars \cup Shapes}
    \cup {Add(Full, pk[1], pk[2], s) : s \in {Text, Serve, Map(<<>>)},
            pk \in {pk \in Maps \X ExtraKeys : Append(pk[1], pk[2]) \notin DOMAIN Full}}
    \cup {Remove(Full, p) : p \in DOMAIN Full \ {<<>>}}
=============================================================================
