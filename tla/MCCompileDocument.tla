--------------------------- MODULE MCCompileDocument ---------------------------
(* Two flags: any small environment beside a plain one, a missing one or    *)
(* one with a conflict between base and schedule.                           *)
EXTENDS CompileDocument, TLC

CONSTANTS k1, k2, f1, f2

Ok(key) == [key |-> key, refusedBy |-> {}]
Some == {Ok(NoKey), Ok(k1), Ok(k2), [key |-> k1, refusedBy |-> {"flagd"}],
         [key |-> NoKey, refusedBy |-> Targets]}
SomeEvaluations ==
  [rules : {<<>>} \cup [1 .. 1 -> Some] \cup [1 .. 2 -> {Ok(NoKey), Ok(k1), Ok(k2)}],
   default : {Ok(NoKey), Ok(k1), Ok(k2)}]
Plain(key) == [rules |-> <<>>, default |-> Ok(key)]
Later == {<<>>, <<Plain(k1)>>, <<Plain(NoKey), Plain(k2)>>}
  \cup {<<Plain(NoKey), [rules |-> <<Ok(k1)>>, default |-> a]>> : a \in Some}

AnyFlag ==
  [unsafe : {FALSE}, env : [base : SomeEvaluations, schedule : Later]]
OtherFlag ==
  {[unsafe |-> FALSE, env |-> Undefined]}
    \cup [unsafe : BOOLEAN, env : {[base |-> Plain(k2), schedule |-> <<>>],
                                   [base |-> Plain(k2), schedule |-> <<Plain(k1)>>]}]

MCDocuments ==
  {(f1 :> a) @@ (f2 :> b) : a \in AnyFlag \cup OtherFlag, b \in OtherFlag}
=============================================================================
