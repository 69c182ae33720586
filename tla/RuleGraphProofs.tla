--------------------------- MODULE RuleGraphProofs ---------------------------
(***************************************************************************)
(* Proofs about RuleGraph, for every set of rules and every document.      *)
(* The colours carry the argument.  A black rule mentions black rules only *)
(* and every non-empty set of black rules has a member that mentions none  *)
(* of the set (BlackIsSettled); a grey rule is on the stack, and what its  *)
(* loop has passed is black (GreyOnStack, StackIsChain).  When the range   *)
(* is exhausted every rule is black.                                       *)
(***************************************************************************)
EXTENDS RuleGraph, SequenceTheorems, TLAPS

Black == {r \in Rule : color[r] = 2}
IsBlack(n) == n \in Rule /\ color[n] = 2

GreyOnStack ==
  /\ \A r \in Rule : color[r] = 1 <=> \E i \in 1 .. Len(stack) : stack[i] = r
  /\ \A i, j \in 1 .. Len(stack) : stack[i] = stack[j] => i = j

StackIsChain ==
  /\ \A r \in Rule : color[r] = 0 => next[r] = 1
  /\ \A r \in Rule : color[r] = 1 =>
       /\ next[r] <= Len(refs[r]) + 1
       /\ \A i \in 1 .. next[r] - 1 : IsBlack(refs[r][i])
  /\ \A i \in 1 .. Len(stack) - 1 :
       /\ next[stack[i]] <= Len(refs[stack[i]])
       /\ refs[stack[i]][next[stack[i]]] = stack[i + 1]

BlackIsSettled ==
  /\ \A r \in Black : \A i \in 1 .. Len(refs[r]) : IsBlack(refs[r][i])
  /\ \A S \in (SUBSET Black) \ {{}} :
       \E r \in S : \A i \in 1 .. Len(refs[r]) : refs[r][i] \notin S

RangeIsDone == \A r \in Rule \ roots : color[r] = 2

PhaseInv ==
  /\ phase = "entries" => errors = {}
  /\ phase # "entries" /\ "unknown" \notin errors =>
       \A i \in 1 .. Len(entry) : entry[i] \in Rule
  /\ Accepted => errors = {} /\ roots = {}

SearchInv ==
  /\ TypeOK
  /\ GreyOnStack
  /\ StackIsChain
  /\ BlackIsSettled
  /\ RangeIsDone
  /\ PhaseInv

PathIsChain ==
  /\ phase # "expand" => path = <<>>
  /\ phase = "expand" => path # <<>> /\ path[1].owner = Flag
  /\ \A i \in 2 .. Len(path) : path[i].owner \in Rule
  /\ \A i \in 1 .. Len(path) - 1 :
       /\ AtReference(path[i])
       /\ MentionsOf(path[i].owner)[path[i].at] = path[i + 1].owner

IInv == SearchInv /\ PathIsChain

-----------------------------------------------------------------------------
(* What removing the last element of a sequence leaves.                    *)
LEMMA PopFacts ==
  ASSUME NEW S, NEW s \in Seq(S), s # <<>>
  PROVE  /\ Len(s) \in Nat \ {0}
         /\ Pop(s) \in Seq(S)
         /\ Len(Pop(s)) = Len(s) - 1
         /\ \A i \in 1 .. Len(s) - 1 : Pop(s)[i] = s[i]
         /\ Top(s) = s[Len(s)]
         /\ Top(s) \in S
<1>1. Len(s) \in Nat \ {0}
  BY EmptySeq
<1>2. \A i \in 1 .. Len(s) : s[i] \in S
  BY ElementOfSeq
<1>3. \A i \in 1 .. Len(s) - 1 : s[i] \in S
  BY <1>1, <1>2
<1>4. /\ SubSeq(s, 1, Len(s) - 1) \in Seq(S)
      /\ Len(SubSeq(s, 1, Len(s) - 1)) = IF 1 <= Len(s) - 1 THEN Len(s) - 1 - 1 + 1 ELSE 0
      /\ \A i \in 1 .. Len(s) - 1 - 1 + 1 :
           SubSeq(s, 1, Len(s) - 1)[i] = s[1 + i - 1]
  <2>1. 1 \in Int /\ Len(s) - 1 \in Int
    BY <1>1
  <2> QED BY <2>1, <1>3, SubSeqProperties
<1>5. Len(Pop(s)) = Len(s) - 1
  <2>1. Len(Pop(s)) = IF 1 <= Len(s) - 1 THEN Len(s) - 1 - 1 + 1 ELSE 0
    BY <1>4, Zenon DEF Pop
  <2>2. \A n \in Nat \ {0} :
          (IF 1 <= n - 1 THEN n - 1 - 1 + 1 ELSE 0) = n - 1
    OBVIOUS
  <2> QED BY <1>1, <2>1, <2>2, Zenon
<1>6. ASSUME NEW i \in 1 .. Len(s) - 1 PROVE Pop(s)[i] = s[i]
  <2>1. i \in 1 .. Len(s) - 1 - 1 + 1 /\ 1 + i - 1 = i
    BY <1>1
  <2> QED BY <2>1, <1>4 DEF Pop
<1>7. Top(s) \in S
  BY <1>1, <1>2 DEF Top
<1> QED BY <1>1, <1>4, <1>5, <1>6, <1>7 DEF Pop, Top

LEMMA EmptyIffNoLength ==
  ASSUME NEW S, NEW s \in Seq(S)
  PROVE  /\ Len(s) \in Nat
         /\ s = <<>> <=> Len(s) = 0
  BY EmptySeq, LenProperties

LEMMA InitSearch == Init => SearchInv
<1> SUFFICES ASSUME Init PROVE SearchInv
  OBVIOUS
<1>1. TypeOK
  <2>1. Conditions \subseteq Seq(Name)
    <3> SUFFICES ASSUME NEW n \in 0 .. MaxRefs, NEW c \in [1 .. n -> Name]
                 PROVE  c \in Seq(Name)
      BY DEF Conditions
    <3>1. n \in Nat
      BY RuleAssumption
    <3> QED BY <3>1
  <2>2. refs \in [Rule -> Seq(Name)] /\ entry \in Seq(Name)
    BY <2>1 DEF Init
  <2>3. path \in Seq([owner : Name \cup {Flag}, at : Nat \ {0}]) /\ stack \in Seq(Rule)
    BY EmptySeq DEF Init
  <2> QED BY <2>2, <2>3 DEF Init, TypeOK
<1>2. Black = {}
  BY DEF Init, Black
<1>3. Len(stack) = 0
  BY EmptySeq DEF Init
<1>4. GreyOnStack
  BY <1>3 DEF Init, GreyOnStack
<1>5. StackIsChain
  <2>1. \A r \in Rule : color[r] = 0 /\ next[r] = 1
    BY DEF Init
  <2>2. 1 .. Len(stack) - 1 = {}
    BY <1>3
  <2> QED BY <2>1, <2>2 DEF StackIsChain
<1>6. BlackIsSettled
  <2>1. (SUBSET Black) \ {{}} = {}
    BY <1>2
  <2>2. \A r \in Black : FALSE
    BY <1>2
  <2> QED BY <2>1, <2>2 DEF BlackIsSettled
<1>7. RangeIsDone /\ PhaseInv
  BY DEF Init, RangeIsDone, PhaseInv, Accepted
<1> QED BY <1>1, <1>4, <1>5, <1>6, <1>7 DEF SearchInv

(* Steps that leave the document and the search alone keep what the search *)
(* has established.                                                        *)
LEMMA SearchUntouched ==
  ASSUME SearchInv, UNCHANGED <<document, search>>
  PROVE  GreyOnStack' /\ StackIsChain' /\ BlackIsSettled' /\ RangeIsDone'
<1> USE DEF SearchInv, document, search
<1>1. GreyOnStack'
  BY DEF GreyOnStack
<1>2. StackIsChain'
  BY DEF StackIsChain, IsBlack
<1>3. BlackIsSettled'
  BY DEF BlackIsSettled, Black, IsBlack
<1>4. RangeIsDone'
  BY DEF RangeIsDone
<1> QED BY <1>1, <1>2, <1>3, <1>4

LEMMA CheckEntryStep == SearchInv /\ CheckEntry => SearchInv'
<1> SUFFICES ASSUME SearchInv, CheckEntry PROVE SearchInv'
  OBVIOUS
<1>1. TypeOK'
  BY DEF SearchInv, TypeOK, CheckEntry, document, search
<1>2. PhaseInv'
  <2>1. DOMAIN entry = 1 .. Len(entry)
    BY LenProperties DEF SearchInv, TypeOK
  <2> QED BY <2>1 DEF SearchInv, PhaseInv, CheckEntry, document, search, Accepted
<1>3. UNCHANGED <<document, search>>
  BY DEF CheckEntry
<1> QED BY <1>1, <1>2, <1>3, SearchUntouched DEF SearchInv

LEMMA RejectStep ==
  ASSUME SearchInv, NEW e \in {"cycle", "undefined"}, phase = "detect", Reject(e)
  PROVE  SearchInv'
<1>1. TypeOK'
  BY DEF SearchInv, TypeOK, Reject, document, search
<1>2. PhaseInv'
  BY DEF SearchInv, PhaseInv, Reject, document, search, Accepted
<1>3. UNCHANGED <<document, search>>
  BY DEF Reject
<1> QED BY <1>1, <1>2, <1>3, SearchUntouched DEF SearchInv

LEMMA FinishDetectStep == SearchInv /\ FinishDetect => SearchInv'
<1> SUFFICES ASSUME SearchInv, FinishDetect PROVE SearchInv'
  OBVIOUS
<1>1. TypeOK'
  <2>1. path' \in Seq([owner : Name \cup {Flag}, at : Nat \ {0}])
    <3> DEFINE Frames == [owner : Name \cup {Flag}, at : Nat \ {0}]
    <3>1. [owner |-> Flag, at |-> 1] \in Frames
      OBVIOUS
    <3>2. <<[owner |-> Flag, at |-> 1]>> \in Seq(Frames)
      BY <3>1
    <3> QED BY <3>2 DEF SearchInv, TypeOK, FinishDetect
  <2> QED BY <2>1 DEF SearchInv, TypeOK, FinishDetect, document, search
<1>2. PhaseInv'
  BY DEF SearchInv, PhaseInv, FinishDetect, document, search, Accepted
<1>3. UNCHANGED <<document, search>>
  BY DEF FinishDetect
<1> QED BY <1>1, <1>2, <1>3, SearchUntouched DEF SearchInv

(* Once the range is exhausted every rule is black, so the whole document  *)
(* is settled.                                                             *)
LEMMA AcceptedIsSettled ==
  ASSUME SearchInv, Accepted
  PROVE  /\ \A i \in 1 .. Len(entry) : entry[i] \in Rule
         /\ \A r \in Rule : \A i \in 1 .. Len(refs[r]) : refs[r][i] \in Rule
         /\ \A S \in (SUBSET Rule) \ {{}} :
              \E r \in S : \A i \in 1 .. Len(refs[r]) : refs[r][i] \notin S
<1>1. errors = {} /\ roots = {} /\ phase # "entries"
  BY DEF SearchInv, PhaseInv, Accepted
<1>2. Black = Rule
  BY <1>1 DEF SearchInv, RangeIsDone, Black
<1>3. \A i \in 1 .. Len(entry) : entry[i] \in Rule
  BY <1>1 DEF SearchInv, PhaseInv
<1> QED BY <1>2, <1>3 DEF SearchInv, BlackIsSettled, IsBlack

(* Every frame of the inlining owns a condition whose names are defined.   *)
LEMMA OwnersAreKnown ==
  ASSUME IInv, phase = "expand", NEW i \in 1 .. Len(path)
  PROVE  /\ path[i] \in [owner : Rule \cup {Flag}, at : Nat \ {0}]
         /\ MentionsOf(path[i].owner) \in Seq(Name)
         /\ \A k \in 1 .. Len(MentionsOf(path[i].owner)) :
              MentionsOf(path[i].owner)[k] \in Rule
<1>1. path[i] \in [owner : Name \cup {Flag}, at : Nat \ {0}]
  BY ElementOfSeq DEF IInv, SearchInv, TypeOK
<1>2. path \in Seq([owner : Name \cup {Flag}, at : Nat \ {0}])
  BY DEF IInv, SearchInv, TypeOK
<1>3. i \in Nat /\ (i = 1 \/ i \in 2 .. Len(path))
  BY <1>2, LenProperties
<1>4. path[i].owner \in Rule \cup {Flag}
  BY <1>3 DEF IInv, PathIsChain
<1>5. Flag \notin Rule
  BY RuleAssumption
<1>6. Accepted
  BY DEF Accepted
<1>7. CASE path[i].owner = Flag
  BY <1>1, <1>4, <1>6, <1>7, AcceptedIsSettled DEF MentionsOf, IInv, SearchInv, TypeOK
<1>8. CASE path[i].owner \in Rule
  <2>1. MentionsOf(path[i].owner) = refs[path[i].owner]
    BY <1>5, <1>8 DEF MentionsOf
  <2>2. refs[path[i].owner] \in Seq(Name)
    BY <1>8 DEF IInv, SearchInv, TypeOK
  <2>3. \A k \in 1 .. Len(refs[path[i].owner]) : refs[path[i].owner][k] \in Rule
    BY <1>6, <1>8, AcceptedIsSettled DEF IInv
  <2> QED BY <1>1, <1>4, <2>1, <2>2, <2>3
<1> QED BY <1>4, <1>7, <1>8

LEMMA InlineStep == IInv /\ Inline => IInv'
<1> SUFFICES ASSUME IInv, Inline PROVE IInv'
  OBVIOUS
<1> DEFINE Frames == [owner : Name \cup {Flag}, at : Nat \ {0}]
           callee == [owner |-> MentionsOf(Top(path).owner)[Top(path).at], at |-> 1]
<1>1. path \in Seq(Frames) /\ path # <<>>
  BY DEF IInv, SearchInv, TypeOK, PathIsChain, Inline
<1>2. Len(path) \in Nat \ {0} /\ Top(path) = path[Len(path)]
  BY <1>1, PopFacts
<1>3. Len(path) \in 1 .. Len(path)
  BY <1>2
<1>4. Top(path).at \in 1 .. Len(MentionsOf(Top(path).owner))
  <2>1. Top(path).at \in Nat \ {0} /\ MentionsOf(Top(path).owner) \in Seq(Name)
    BY <1>2, <1>3, OwnersAreKnown DEF Inline
  <2>2. Len(MentionsOf(Top(path).owner)) \in Nat
    BY <2>1, LenProperties
  <2>3. Top(path).at <= Len(MentionsOf(Top(path).owner))
    BY DEF Inline, AtReference
  <2> QED BY <2>1, <2>2, <2>3
<1>5. callee.owner \in Rule /\ callee \in Frames
  <2>1. MentionsOf(Top(path).owner)[Top(path).at] \in Rule
    BY <1>2, <1>3, <1>4, OwnersAreKnown DEF Inline
  <2> QED BY <2>1 DEF Name
<1>6. path' = Append(path, callee)
  BY DEF Inline
<1>7. /\ path' \in Seq(Frames)
      /\ Len(path') = Len(path) + 1
      /\ \A i \in 1 .. Len(path) : path'[i] = path[i]
      /\ path'[Len(path) + 1] = callee
      /\ path' # <<>>
  BY <1>1, <1>5, <1>6, AppendProperties
<1>8. UNCHANGED <<document, search, phase, errors>>
  BY DEF Inline
<1>9. SearchInv'
  <2>1. TypeOK'
    BY <1>7, <1>8 DEF IInv, SearchInv, TypeOK, document, search
  <2>2. PhaseInv'
    BY <1>8 DEF IInv, SearchInv, PhaseInv, Accepted, document, search
  <2> QED BY <1>8, <2>1, <2>2, SearchUntouched DEF IInv, SearchInv
<1>10. PathIsChain'
  <2>1. refs' = refs /\ entry' = entry
    BY <1>8 DEF document
  <2>2. phase' = "expand" /\ path'[1].owner = Flag
    BY <1>2, <1>7, <1>8 DEF IInv, PathIsChain, Inline
  <2>3. ASSUME NEW i \in 2 .. Len(path') PROVE path'[i].owner \in Rule
    <3>1. i \in 2 .. Len(path) \/ i = Len(path) + 1
      BY <1>2, <1>7
    <3> QED BY <1>2, <1>5, <1>7, <3>1 DEF IInv, PathIsChain
  <2>4. ASSUME NEW i \in 1 .. Len(path') - 1
        PROVE  /\ path'[i].at <= Len(MentionsOf(path'[i].owner))
               /\ MentionsOf(path'[i].owner)[path'[i].at] = path'[i + 1].owner
    <3>1. i \in 1 .. Len(path) /\ path'[i] = path[i]
      BY <1>2, <1>7
    <3>2. CASE i = Len(path)
      BY <1>2, <1>4, <1>7, <3>1, <3>2
    <3>3. CASE i # Len(path)
      <4>1. i \in 1 .. Len(path) - 1 /\ i + 1 \in 1 .. Len(path)
        BY <1>2, <3>1, <3>3
      <4>2. path'[i + 1] = path[i + 1]
        BY <1>7, <4>1
      <4> QED BY <3>1, <4>1, <4>2 DEF IInv, PathIsChain, AtReference
    <3> QED BY <3>2, <3>3
  <2> QED BY <1>7, <2>1, <2>2, <2>3, <2>4 DEF PathIsChain, AtReference, MentionsOf
<1> QED BY <1>9, <1>10 DEF IInv

LEMMA ReturnInlinedStep == IInv /\ ReturnInlined => IInv'
<1> SUFFICES ASSUME IInv, ReturnInlined PROVE IInv'
  OBVIOUS
<1> DEFINE Frames == [owner : Name \cup {Flag}, at : Nat \ {0}]
<1>1. path \in Seq(Frames) /\ path # <<>>
  BY DEF IInv, SearchInv, TypeOK, PathIsChain, ReturnInlined
<1>2. /\ Len(path) \in Nat \ {0}
      /\ Pop(path) \in Seq(Frames)
      /\ Len(Pop(path)) = Len(path) - 1
      /\ \A i \in 1 .. Len(path) - 1 : Pop(path)[i] = path[i]
  BY <1>1, PopFacts
<1>3. UNCHANGED <<document, search, errors>>
  BY DEF ReturnInlined
<1>4. CASE Len(path) = 1
  <2>1. path' = <<>> /\ phase' = "normalized"
    BY <1>4 DEF ReturnInlined
  <2>2. path' \in Seq(Frames) /\ Len(path') = 0
    BY <2>1, EmptySeq
  <2>3. TypeOK'
    BY <1>3, <2>1, <2>2 DEF IInv, SearchInv, TypeOK, document, search
  <2>4. PhaseInv'
    BY <1>3, <2>1 DEF IInv, SearchInv, PhaseInv, Accepted, ReturnInlined, document, search
  <2>5. PathIsChain'
    <3>1. 2 .. Len(path') = {} /\ 1 .. Len(path') - 1 = {}
      BY <2>2
    <3>2. phase' # "expand"
      BY <2>1
    <3>3. /\ \A i \in 2 .. Len(path') : FALSE
          /\ \A i \in 1 .. Len(path') - 1 : FALSE
      BY <3>1
    <3>4. path' = <<>>
      BY <2>1
    <3> QED BY <3>2, <3>3, <3>4 DEF PathIsChain
  <2> QED BY <1>3, <2>3, <2>4, <2>5, SearchUntouched DEF IInv, SearchInv
<1>5. CASE Len(path) # 1
  <2> DEFINE last == Len(path) - 1
             caller == [Pop(path)[last] EXCEPT !.at = @ + 1]
  <2>1. last \in 1 .. Len(Pop(path))
    BY <1>2, <1>5
  <2>2. Pop(path)[last] = path[last] /\ path[last] \in Frames
    <3>1. last \in 1 .. Len(path) - 1 /\ last \in 1 .. Len(path)
      BY <1>2, <1>5
    <3> HIDE DEF Frames, last
    <3>2. Pop(path)[last] = path[last]
      BY <1>2, <3>1
    <3>3. path[last] \in Frames
      BY <1>1, <3>1, ElementOfSeq
    <3> QED BY <3>2, <3>3
  <2>3. caller \in Frames /\ caller.owner = path[last].owner
    BY <2>2
  <2>4. path' = [Pop(path) EXCEPT ![last] = caller] /\ phase' = "expand"
    <3>1. path' = [Pop(path) EXCEPT ![last].at = @ + 1] /\ phase' = phase
      BY <1>5, Zenon DEF ReturnInlined
    <3>2. phase = "expand"
      BY DEF ReturnInlined
    <3> QED BY <3>1, <3>2, Zenon
  <2>5. /\ path' \in Seq(Frames)
        /\ Len(path') = Len(path) - 1
        /\ \A j \in 1 .. Len(Pop(path)) :
             path'[j] = IF j = last THEN caller ELSE Pop(path)[j]
    <3> HIDE DEF last, caller, Frames
    <3> QED BY <1>2, <2>1, <2>3, <2>4, ExceptSeq
  <2>6. \A j \in 1 .. Len(path) - 1 : path'[j].owner = path[j].owner
    BY <1>2, <2>2, <2>3, <2>5
  <2>7. ASSUME NEW j \in 1 .. Len(path) - 2 PROVE path'[j] = path[j]
    <3>1. last = Len(path) - 1
      OBVIOUS
    <3> HIDE DEF last, caller, Frames
    <3>2. j \in 1 .. Len(path) - 1 /\ j # last
      BY <1>2, <3>1
    <3> QED BY <1>2, <2>5, <3>2
  <2>8. TypeOK'
    BY <1>3, <2>4, <2>5 DEF IInv, SearchInv, TypeOK, document, search
  <2>9. PhaseInv'
    BY <1>3, <2>4 DEF IInv, SearchInv, PhaseInv, Accepted, ReturnInlined, document, search
  <2>10. PathIsChain'
    <3>1. path' # <<>> /\ path'[1].owner = Flag
      <4>1. Len(path') # 0 /\ 1 \in 1 .. Len(path) - 1
        BY <1>2, <1>5, <2>5
      <4>2. path[1].owner = Flag
        BY DEF IInv, PathIsChain, ReturnInlined
      <4> QED BY <2>5, <2>6, <4>1, <4>2, EmptyIffNoLength
    <3>2. ASSUME NEW i \in 2 .. Len(path') PROVE path'[i].owner \in Rule
      <4>1. i \in 2 .. Len(path) /\ i \in 1 .. Len(path) - 1
        BY <1>2, <2>5
      <4> QED BY <2>6, <4>1 DEF IInv, PathIsChain
    <3>3. ASSUME NEW i \in 1 .. Len(path') - 1
          PROVE  /\ path'[i].at <= Len(MentionsOf(path'[i].owner))
                 /\ MentionsOf(path'[i].owner)[path'[i].at] = path'[i + 1].owner
      <4>1. /\ i \in 1 .. Len(path) - 2
            /\ i \in 1 .. Len(path) - 1
            /\ i + 1 \in 1 .. Len(path) - 1
        <5> HIDE DEF last, caller, Frames
        <5> QED BY <1>2, <2>5
      <4> QED BY <2>6, <2>7, <4>1 DEF IInv, PathIsChain, AtReference
    <3>4. refs' = refs /\ entry' = entry
      BY <1>3 DEF document
    <3> QED BY <2>4, <3>1, <3>2, <3>3, <3>4 DEF PathIsChain, AtReference, MentionsOf
  <2> QED BY <1>3, <2>8, <2>9, <2>10, SearchUntouched DEF IInv, SearchInv
<1> QED BY <1>4, <1>5

-----------------------------------------------------------------------------
(* The steps of the search.  Outside an inlining the path is empty.        *)
LEMMA PathUntouched ==
  ASSUME IInv, phase = "detect", UNCHANGED <<document, phase, errors, path>>
  PROVE  PathIsChain'
<1>1. path = <<>> /\ Len(path) = 0
  BY EmptySeq DEF IInv, PathIsChain
<1>2. 2 .. Len(path) = {} /\ 1 .. Len(path) - 1 = {}
  BY <1>1
<1> QED BY <1>1, <1>2 DEF PathIsChain, document

LEMMA EnterStep == \A n \in Name : IInv /\ Enter(n) => IInv'
<1> SUFFICES ASSUME NEW n \in Name, IInv, Enter(n) PROVE IInv'
  OBVIOUS
<1>1. /\ n \in Rule /\ color[n] = 0 /\ phase = "detect"
      /\ color' = [color EXCEPT ![n] = 1]
      /\ stack' = Append(stack, n)
      /\ UNCHANGED <<document, phase, errors, roots, next, path>>
  BY DEF Enter, Calls
<1>2. /\ stack \in Seq(Rule) /\ color \in [Rule -> 0 .. 2]
      /\ refs \in [Rule -> Seq(Name)] /\ next \in [Rule -> Nat \ {0}]
  BY DEF IInv, SearchInv, TypeOK
<1>3. /\ stack' \in Seq(Rule)
      /\ Len(stack') = Len(stack) + 1
      /\ \A i \in 1 .. Len(stack) : stack'[i] = stack[i]
      /\ stack'[Len(stack) + 1] = n
      /\ Len(stack) \in Nat
  BY <1>1, <1>2, AppendProperties, LenProperties
<1>4. \A r \in Rule : color'[r] = IF r = n THEN 1 ELSE color[r]
  BY <1>1, <1>2
<1>5. \A i \in 1 .. Len(stack) : stack[i] # n /\ stack[i] \in Rule
  BY <1>1, <1>2, ElementOfSeq DEF IInv, SearchInv, GreyOnStack
<1>6. \A x : IsBlack(x) => x \in Rule /\ x # n /\ color'[x] = 2
  BY <1>1, <1>4 DEF IsBlack
<1>7. TypeOK'
  BY <1>1, <1>2, <1>3 DEF IInv, SearchInv, TypeOK, document
<1>8. GreyOnStack'
  <2>1. ASSUME NEW r \in Rule
        PROVE  color'[r] = 1 <=> \E i \in 1 .. Len(stack') : stack'[i] = r
    <3>1. CASE r = n
      <4>1. Len(stack) + 1 \in 1 .. Len(stack')
        BY <1>3
      <4> QED BY <1>3, <1>4, <3>1, <4>1
    <3>2. CASE r # n
      <4>1. color'[r] = 1 <=> \E i \in 1 .. Len(stack) : stack[i] = r
        BY <1>4, <3>2 DEF IInv, SearchInv, GreyOnStack
      <4>2. \A i \in 1 .. Len(stack') : i \in 1 .. Len(stack) \/ i = Len(stack) + 1
        BY <1>3
      <4>3. \A i \in 1 .. Len(stack) : i \in 1 .. Len(stack')
        BY <1>3
      <4> QED BY <1>3, <3>2, <4>1, <4>2, <4>3
    <3> QED BY <3>1, <3>2
  <2>2. ASSUME NEW i \in 1 .. Len(stack'), NEW j \in 1 .. Len(stack'),
               stack'[i] = stack'[j]
        PROVE  i = j
    <3>1. i \in 1 .. Len(stack) \/ i = Len(stack) + 1
      BY <1>3
    <3>2. j \in 1 .. Len(stack) \/ j = Len(stack) + 1
      BY <1>3
    <3> QED BY <1>3, <1>5, <2>2, <3>1, <3>2 DEF IInv, SearchInv, GreyOnStack
  <2> QED BY <2>1, <2>2 DEF GreyOnStack
<1>9. StackIsChain'
  <2>1. \A r \in Rule : color'[r] = 0 => next'[r] = 1
    BY <1>1, <1>4 DEF IInv, SearchInv, StackIsChain
  <2>2. ASSUME NEW r \in Rule, color'[r] = 1
        PROVE  /\ next'[r] <= Len(refs'[r]) + 1
               /\ \A i \in 1 .. next'[r] - 1 : IsBlack(refs[r][i])
    <3>1. CASE r = n
      <4>1. next'[r] = 1 /\ refs'[r] = refs[r] /\ Len(refs[r]) \in Nat
        BY <1>1, <1>2, <3>1, LenProperties DEF IInv, SearchInv, StackIsChain, document
      <4> QED BY <4>1
    <3>2. CASE r # n
      BY <1>1, <1>4, <2>2, <3>2 DEF IInv, SearchInv, StackIsChain, document
    <3> QED BY <3>1, <3>2
  <2>3. ASSUME NEW i \in 1 .. Len(stack') - 1
        PROVE  /\ next'[stack'[i]] <= Len(refs'[stack'[i]])
               /\ refs'[stack'[i]][next'[stack'[i]]] = stack'[i + 1]
    <3>1. i \in 1 .. Len(stack) /\ stack'[i] = stack[i]
      BY <1>3
    <3>2. CASE i = Len(stack)
      <4>1. stack # <<>> /\ Top(stack) = stack[i] /\ stack'[i + 1] = n
        BY <1>2, <1>3, <3>1, <3>2, EmptyIffNoLength DEF Top
      <4> QED BY <1>1, <3>1, <4>1 DEF Enter, Calls, document
    <3>3. CASE i # Len(stack)
      <4>1. i \in 1 .. Len(stack) - 1 /\ i + 1 \in 1 .. Len(stack)
        BY <1>3, <3>1, <3>3
      <4> QED BY <1>1, <1>3, <3>1, <4>1 DEF IInv, SearchInv, StackIsChain, document
    <3> QED BY <3>2, <3>3
  <2>4. refs' = refs /\ next' = next
    BY <1>1 DEF document
  <2>5. ASSUME NEW r \in Rule, color'[r] = 1, NEW i \in 1 .. next'[r] - 1
        PROVE  refs[r][i] \in Rule /\ color'[refs[r][i]] = 2
    BY <1>6, <2>2, <2>5
  <2> QED BY <2>1, <2>2, <2>3, <2>4, <2>5 DEF StackIsChain, IsBlack
<1>10. Black' = Black
  BY <1>1, <1>4 DEF Black
<1>11. BlackIsSettled'
  BY <1>1, <1>6, <1>10 DEF IInv, SearchInv, BlackIsSettled, IsBlack, document
<1>12. RangeIsDone'
  BY <1>1, <1>4 DEF IInv, SearchInv, RangeIsDone
<1>13. PhaseInv'
  BY <1>1 DEF IInv, SearchInv, PhaseInv, Accepted, document
<1>14. PathIsChain'
  BY <1>1, PathUntouched
<1> QED BY <1>7, <1>8, <1>9, <1>11, <1>12, <1>13, <1>14 DEF IInv, SearchInv

(* What Resume does to the loop of the caller.                             *)
LEMMA AlreadyDoneStep == \A n \in Name : IInv /\ AlreadyDone(n) => IInv'
<1> SUFFICES ASSUME NEW n \in Name, IInv, AlreadyDone(n) PROVE IInv'
  OBVIOUS
<1>1. /\ n \in Rule /\ color[n] = 2 /\ phase = "detect"
      /\ Resume(stack, n)
      /\ UNCHANGED <<document, phase, errors, color, stack, path>>
  BY DEF AlreadyDone, Calls
<1>2. /\ stack \in Seq(Rule) /\ color \in [Rule -> 0 .. 2] /\ roots \subseteq Rule
      /\ refs \in [Rule -> Seq(Name)] /\ next \in [Rule -> Nat \ {0}]
  BY DEF IInv, SearchInv, TypeOK
<1>3. GreyOnStack'
  BY <1>1 DEF IInv, SearchInv, GreyOnStack
<1>4. BlackIsSettled'
  BY <1>1 DEF IInv, SearchInv, BlackIsSettled, Black, IsBlack, document
<1>5. PhaseInv'
  BY <1>1 DEF IInv, SearchInv, PhaseInv, Accepted, document
<1>6. PathIsChain'
  BY <1>1, PathUntouched
<1>7. CASE stack = <<>>
  <2>1. roots' = roots \ {n} /\ next' = next
    BY <1>1, <1>7 DEF Resume
  <2>2. TypeOK'
    BY <1>1, <1>2, <2>1 DEF IInv, SearchInv, TypeOK, document
  <2>3. StackIsChain'
    BY <1>1, <2>1 DEF IInv, SearchInv, StackIsChain, IsBlack, document
  <2>4. RangeIsDone'
    BY <1>1, <2>1 DEF IInv, SearchInv, RangeIsDone
  <2> QED BY <1>3, <1>4, <1>5, <1>6, <2>2, <2>3, <2>4 DEF IInv, SearchInv
<1>8. CASE stack # <<>>
  <2> DEFINE top == Top(stack)
  <2>1. /\ Len(stack) \in Nat \ {0}
        /\ top = stack[Len(stack)]
        /\ top \in Rule
    BY <1>2, <1>8, PopFacts
  <2>2. roots' = roots /\ next' = [next EXCEPT ![top] = @ + 1]
    BY <1>1, <1>8 DEF Resume
  <2>3. next[top] <= Len(refs[top]) /\ refs[top][next[top]] = n
    BY <1>8 DEF AlreadyDone, Calls
  <2>4. \A r \in Rule : next'[r] = IF r = top THEN next[r] + 1 ELSE next[r]
    BY <1>2, <2>2
  <2>5. color[top] = 1
    <3>1. Len(stack) \in 1 .. Len(stack)
      BY <2>1
    <3> QED BY <2>1, <3>1 DEF IInv, SearchInv, GreyOnStack
  <2> HIDE DEF top
  <2>6. TypeOK'
    <3>1. next' \in [Rule -> Nat \ {0}]
      BY <1>2, <2>1, <2>2
    <3> QED BY <1>1, <1>2, <2>2, <3>1 DEF IInv, SearchInv, TypeOK, document
  <2>7. RangeIsDone'
    BY <1>1, <2>2 DEF IInv, SearchInv, RangeIsDone
  <2>8. StackIsChain'
    <3>1. refs' = refs /\ color' = color /\ stack' = stack
      BY <1>1 DEF document
    <3>2. \A r \in Rule : color[r] = 0 => next'[r] = 1
      BY <2>4, <2>5 DEF IInv, SearchInv, StackIsChain
    <3>3. ASSUME NEW r \in Rule, color[r] = 1
          PROVE  /\ next'[r] <= Len(refs[r]) + 1
                 /\ \A i \in 1 .. next'[r] - 1 : IsBlack(refs[r][i])
      <4>1. CASE r = top
        <5>1. next[top] \in Nat \ {0} /\ Len(refs[top]) \in Nat
          BY <1>2, <2>1, LenProperties
        <5>2. next'[r] = next[top] + 1
          BY <2>4, <4>1, <2>1
        <5>3. \A i \in 1 .. next[top] - 1 : IsBlack(refs[top][i])
          BY <2>1, <2>5 DEF IInv, SearchInv, StackIsChain
        <5>4. IsBlack(refs[top][next[top]])
          BY <1>1, <2>3 DEF IsBlack
        <5> QED BY <2>3, <4>1, <5>1, <5>2, <5>3, <5>4
      <4>2. CASE r # top
        BY <2>4, <3>3, <4>2 DEF IInv, SearchInv, StackIsChain
      <4> QED BY <4>1, <4>2
    <3>4. ASSUME NEW i \in 1 .. Len(stack) - 1
          PROVE  /\ next'[stack[i]] <= Len(refs[stack[i]])
                 /\ refs[stack[i]][next'[stack[i]]] = stack[i + 1]
      <4>1. i \in 1 .. Len(stack) /\ Len(stack) \in 1 .. Len(stack) /\ i # Len(stack)
        BY <2>1
      <4>2. stack[i] # top /\ stack[i] \in Rule
        BY <1>2, <2>1, <4>1, ElementOfSeq DEF IInv, SearchInv, GreyOnStack
      <4>3. next'[stack[i]] = next[stack[i]]
        BY <2>4, <4>2
      <4> QED BY <4>3 DEF IInv, SearchInv, StackIsChain
    <3> QED BY <3>1, <3>2, <3>3, <3>4 DEF StackIsChain, IsBlack
  <2> QED BY <1>3, <1>4, <1>5, <1>6, <2>6, <2>7, <2>8 DEF IInv, SearchInv
<1> QED BY <1>7, <1>8

(* A rule all of whose references are black may turn black: a set that     *)
(* contains it has its witness among the other black rules, or is {top}.   *)
LEMMA SettledGrows ==
  ASSUME SearchInv, NEW top \in Rule, color[top] # 2,
         \A i \in 1 .. Len(refs[top]) : IsBlack(refs[top][i]),
         NEW S \in SUBSET (Black \cup {top}), S # {}
  PROVE  \E r \in S : \A i \in 1 .. Len(refs[r]) : refs[r][i] \notin S
<1>1. \A x : IsBlack(x) => x # top
  BY DEF IsBlack
<1>2. S \ {top} \in SUBSET Black
  OBVIOUS
<1>3. CASE S \ {top} = {}
  <2>1. S = {top}
    BY <1>3
  <2> QED BY <1>1, <2>1
<1>4. CASE S \ {top} # {}
  <2>1. PICK r \in S \ {top} :
             \A i \in 1 .. Len(refs[r]) : refs[r][i] \notin S \ {top}
    BY <1>2, <1>4 DEF SearchInv, BlackIsSettled
  <2>2. \A i \in 1 .. Len(refs[r]) : refs[r][i] # top
    BY <1>1, <1>2, <2>1 DEF SearchInv, BlackIsSettled
  <2> QED BY <2>1, <2>2
<1> QED BY <1>3, <1>4

LEMMA LeaveStep == IInv /\ Leave => IInv'
<1> SUFFICES ASSUME IInv, Leave PROVE IInv'
  OBVIOUS
<1> DEFINE top == Top(stack)
           rest == Pop(stack)
<1>1. /\ phase = "detect" /\ stack # <<>>
      /\ next[top] > Len(refs[top])
      /\ color' = [color EXCEPT ![top] = 2]
      /\ stack' = rest
      /\ Resume(rest, top)
      /\ UNCHANGED <<document, phase, errors, path>>
  BY DEF Leave
<1>2. /\ stack \in Seq(Rule) /\ color \in [Rule -> 0 .. 2] /\ roots \subseteq Rule
      /\ refs \in [Rule -> Seq(Name)] /\ next \in [Rule -> Nat \ {0}]
  BY DEF IInv, SearchInv, TypeOK
<1>3. /\ Len(stack) \in Nat \ {0}
      /\ rest \in Seq(Rule)
      /\ Len(rest) = Len(stack) - 1
      /\ \A i \in 1 .. Len(stack) - 1 : rest[i] = stack[i]
      /\ top = stack[Len(stack)]
      /\ top \in Rule
  BY <1>1, <1>2, PopFacts
<1> HIDE DEF top, rest
<1>4. \A r \in Rule : color'[r] = IF r = top THEN 2 ELSE color[r]
  BY <1>1, <1>2
<1>5. color[top] = 1
  <2>1. Len(stack) \in 1 .. Len(stack)
    BY <1>3
  <2> QED BY <1>3, <2>1 DEF IInv, SearchInv, GreyOnStack
<1>6. \A i \in 1 .. Len(stack) - 1 : rest[i] # top /\ rest[i] \in Rule
  <2> SUFFICES ASSUME NEW i \in 1 .. Len(stack) - 1
               PROVE  rest[i] # top /\ rest[i] \in Rule
    OBVIOUS
  <2>1. i \in 1 .. Len(stack) /\ Len(stack) \in 1 .. Len(stack) /\ i # Len(stack)
    BY <1>3
  <2> QED BY <1>2, <1>3, <2>1, ElementOfSeq DEF IInv, SearchInv, GreyOnStack
<1>7. \A i \in 1 .. Len(refs[top]) : IsBlack(refs[top][i])
  <2>1. \A i \in 1 .. next[top] - 1 : IsBlack(refs[top][i])
    BY <1>3, <1>5 DEF IInv, SearchInv, StackIsChain
  <2>2. Len(refs[top]) \in Nat /\ next[top] \in Nat
    BY <1>2, <1>3, LenProperties
  <2>3. \A i \in 1 .. Len(refs[top]) : i \in 1 .. next[top] - 1
    BY <1>1, <2>2
  <2> QED BY <2>1, <2>3
<1>8. \A x : IsBlack(x) => x \in Rule /\ color'[x] = 2
  BY <1>4 DEF IsBlack
<1>9. refs' = refs
  BY <1>1 DEF document
<1>10. GreyOnStack'
  <2>1. ASSUME NEW r \in Rule
        PROVE  color'[r] = 1 <=> \E i \in 1 .. Len(stack) - 1 : rest[i] = r
    <3>1. CASE r = top
      BY <1>4, <1>6, <3>1
    <3>2. CASE r # top
      <4>1. color'[r] = 1 <=> \E i \in 1 .. Len(stack) : stack[i] = r
        BY <1>4, <3>2 DEF IInv, SearchInv, GreyOnStack
      <4>2. \A i \in 1 .. Len(stack) : i = Len(stack) \/ i \in 1 .. Len(stack) - 1
        BY <1>3
      <4>3. \A i \in 1 .. Len(stack) - 1 : i \in 1 .. Len(stack)
        BY <1>3
      <4> QED BY <1>3, <3>2, <4>1, <4>2, <4>3
    <3> QED BY <3>1, <3>2
  <2>2. ASSUME NEW i \in 1 .. Len(stack) - 1, NEW j \in 1 .. Len(stack) - 1,
               rest[i] = rest[j]
        PROVE  i = j
    <3>1. i \in 1 .. Len(stack) /\ j \in 1 .. Len(stack)
      BY <1>3
    <3> QED BY <1>3, <2>2, <3>1 DEF IInv, SearchInv, GreyOnStack
  <2> QED BY <1>1, <1>3, <2>1, <2>2 DEF GreyOnStack
<1>11. BlackIsSettled'
  <2>1. Black' = Black \cup {top}
    BY <1>3, <1>4 DEF Black
  <2>2. ASSUME NEW r \in Black \cup {top}, NEW i \in 1 .. Len(refs[r])
        PROVE  refs[r][i] \in Rule /\ color'[refs[r][i]] = 2
    BY <1>7, <1>8 DEF IInv, SearchInv, BlackIsSettled
  <2>3. ASSUME NEW S \in (SUBSET (Black \cup {top})) \ {{}}
        PROVE  \E r \in S : \A i \in 1 .. Len(refs[r]) : refs[r][i] \notin S
    BY <1>3, <1>5, <1>7, SettledGrows DEF IInv
  <2> QED BY <1>9, <2>1, <2>2, <2>3 DEF BlackIsSettled, IsBlack
<1>12. PhaseInv'
  <2>1. roots' \subseteq roots
    BY <1>1 DEF Resume
  <2> QED BY <1>1, <2>1 DEF IInv, SearchInv, PhaseInv, Accepted, document
<1>13. PathIsChain'
  BY <1>1, PathUntouched
<1>14. color' \in [Rule -> 0 .. 2]
  BY <1>1, <1>2, <1>3
<1>15. CASE rest = <<>>
  <2>1. roots' = roots \ {top} /\ next' = next
    BY <1>1, <1>15 DEF Resume
  <2>2. TypeOK'
    BY <1>1, <1>2, <1>3, <1>14, <2>1 DEF IInv, SearchInv, TypeOK, document
  <2>3. RangeIsDone'
    BY <1>3, <1>4, <2>1 DEF IInv, SearchInv, RangeIsDone
  <2>4. StackIsChain'
    <3>1. \A i \in 1 .. Len(rest) - 1 : FALSE
      <4>1. Len(rest) = 0
        BY <1>15, EmptySeq
      <4> QED BY <4>1
    <3>2. \A r \in Rule : color'[r] = 0 => next[r] = 1
      BY <1>4 DEF IInv, SearchInv, StackIsChain
    <3>3. ASSUME NEW r \in Rule, color'[r] = 1
          PROVE  /\ next[r] <= Len(refs[r]) + 1
                 /\ \A i \in 1 .. next[r] - 1 :
                      refs[r][i] \in Rule /\ color'[refs[r][i]] = 2
      BY <1>4, <1>8, <3>3 DEF IInv, SearchInv, StackIsChain
    <3> QED BY <1>1, <1>9, <2>1, <3>1, <3>2, <3>3 DEF StackIsChain, IsBlack
  <2> QED BY <1>10, <1>11, <1>12, <1>13, <2>2, <2>3, <2>4 DEF IInv, SearchInv
<1>16. CASE rest # <<>>
  <2> DEFINE caller == Top(rest)
             below == Len(stack) - 1
  <2>1. /\ below \in Nat \ {0}
        /\ below \in 1 .. Len(stack) - 1
        /\ caller = stack[below]
        /\ caller \in Rule
        /\ caller # top
    <3>1. Len(rest) \in Nat \ {0} /\ caller = rest[Len(rest)] /\ caller \in Rule
      BY <1>3, <1>16, PopFacts
    <3>2. below = Len(rest)
      BY <1>3
    <3>3. below \in 1 .. Len(stack) - 1
      BY <1>3, <3>1
    <3> HIDE DEF below, caller
    <3> QED BY <1>3, <1>6, <3>1, <3>2, <3>3
  <2>2. roots' = roots /\ next' = [next EXCEPT ![caller] = @ + 1]
    BY <1>1, <1>16 DEF Resume
  <2>3. below + 1 = Len(stack)
    BY <1>3
  <2> HIDE DEF caller, below
  <2>4. next[caller] <= Len(refs[caller]) /\ refs[caller][next[caller]] = top
    <3>1. refs[stack[below]][next[stack[below]]] = stack[below + 1]
      BY <2>1 DEF IInv, SearchInv, StackIsChain
    <3>2. next[stack[below]] <= Len(refs[stack[below]])
      BY <2>1 DEF IInv, SearchInv, StackIsChain
    <3> QED BY <1>3, <2>1, <2>3, <3>1, <3>2
  <2>5. \A r \in Rule : next'[r] = IF r = caller THEN next[r] + 1 ELSE next[r]
    BY <1>2, <2>2
  <2>6. color[caller] = 1
    <3>1. below \in 1 .. Len(stack)
      BY <1>3, <2>1
    <3> QED BY <2>1, <3>1 DEF IInv, SearchInv, GreyOnStack
  <2>7. TypeOK'
    <3>1. next' \in [Rule -> Nat \ {0}]
      BY <1>2, <2>1, <2>2
    <3> QED BY <1>1, <1>2, <1>3, <1>14, <2>2, <3>1 DEF IInv, SearchInv, TypeOK, document
  <2>8. RangeIsDone'
    BY <1>3, <1>4, <2>2 DEF IInv, SearchInv, RangeIsDone
  <2>9. StackIsChain'
    <3>1. \A r \in Rule : color'[r] = 0 => next'[r] = 1
      BY <1>4, <2>5, <2>6 DEF IInv, SearchInv, StackIsChain
    <3>2. ASSUME NEW r \in Rule, color'[r] = 1
          PROVE  /\ next'[r] <= Len(refs[r]) + 1
                 /\ \A i \in 1 .. next'[r] - 1 :
                      refs[r][i] \in Rule /\ color'[refs[r][i]] = 2
      <4>1. color[r] = 1
        BY <1>4, <3>2
      <4>2. CASE r = caller
        <5>1. next[r] \in Nat \ {0} /\ Len(refs[r]) \in Nat
          BY <1>2, LenProperties
        <5>2. next'[r] = next[r] + 1
          BY <2>5, <4>2
        <5>3. \A i \in 1 .. next[r] - 1 : IsBlack(refs[r][i])
          BY <4>1 DEF IInv, SearchInv, StackIsChain
        <5>4. refs[r][next[r]] = top /\ next[r] <= Len(refs[r])
          BY <2>4, <4>2
        <5>5. top \in Rule /\ color'[top] = 2
          BY <1>3, <1>4
        <5>6. \A i \in 1 .. next'[r] - 1 : i = next[r] \/ i \in 1 .. next[r] - 1
          BY <5>1, <5>2
        <5>7. \A i \in 1 .. next'[r] - 1 :
                 refs[r][i] \in Rule /\ color'[refs[r][i]] = 2
          BY <1>8, <5>3, <5>4, <5>5, <5>6
        <5> QED BY <5>1, <5>2, <5>4, <5>7
      <4>3. CASE r # caller
        BY <1>8, <2>5, <4>1, <4>3 DEF IInv, SearchInv, StackIsChain
      <4> QED BY <4>2, <4>3
    <3>3. ASSUME NEW i \in 1 .. Len(rest) - 1
          PROVE  /\ next'[rest[i]] <= Len(refs[rest[i]])
                 /\ refs[rest[i]][next'[rest[i]]] = rest[i + 1]
      <4>1. /\ i \in 1 .. Len(stack) - 1 /\ i + 1 \in 1 .. Len(stack) - 1
            /\ i \in 1 .. Len(stack)
            /\ below \in 1 .. Len(stack) /\ i # below
        BY <1>3, <2>1, <2>3
      <4>2. rest[i] = stack[i] /\ rest[i + 1] = stack[i + 1] /\ stack[i] \in Rule
        BY <1>3, <1>6, <4>1
      <4>3. stack[i] # caller
        BY <2>1, <4>1 DEF IInv, SearchInv, GreyOnStack
      <4>4. next'[stack[i]] = next[stack[i]]
        BY <2>5, <4>2, <4>3
      <4> QED BY <4>1, <4>2, <4>4 DEF IInv, SearchInv, StackIsChain
    <3> QED BY <1>1, <1>9, <3>1, <3>2, <3>3 DEF StackIsChain, IsBlack
  <2> QED BY <1>10, <1>11, <1>12, <1>13, <2>7, <2>8, <2>9 DEF IInv, SearchInv
<1> QED BY <1>15, <1>16

-----------------------------------------------------------------------------
LEMMA NextStep == IInv /\ [Next]_vars => IInv'
<1> SUFFICES ASSUME IInv, [Next]_vars PROVE IInv'
  OBVIOUS
<1>1. CASE CheckEntry
  <2>1. PathIsChain'
    <3>1. path' = path /\ phase' = "detect" /\ path = <<>> /\ Len(path) = 0
      BY <1>1, EmptySeq DEF CheckEntry, IInv, PathIsChain
    <3>2. 2 .. Len(path) = {} /\ 1 .. Len(path) - 1 = {}
      BY <3>1
    <3> QED BY <3>1, <3>2 DEF PathIsChain
  <2> QED BY <1>1, <2>1, CheckEntryStep DEF IInv
<1>2. CASE \E n \in Name : Enter(n)
  BY <1>2, EnterStep
<1>3. CASE \E n \in Name : AlreadyDone(n)
  BY <1>3, AlreadyDoneStep
<1>4. CASE \E n \in Name : FoundCycle(n) \/ FoundUndefined(n)
  <2>1. PICK e \in {"cycle", "undefined"} : phase = "detect" /\ Reject(e)
    BY <1>4 DEF FoundCycle, FoundUndefined, Calls
  <2>2. PathIsChain'
    <3>1. path' = path /\ phase' = "rejected" /\ path = <<>> /\ Len(path) = 0
      BY <2>1, EmptySeq DEF Reject, IInv, PathIsChain
    <3>2. 2 .. Len(path) = {} /\ 1 .. Len(path) - 1 = {}
      BY <3>1
    <3> QED BY <3>1, <3>2 DEF PathIsChain
  <2> QED BY <2>1, <2>2, RejectStep DEF IInv
<1>5. CASE Leave
  BY <1>5, LeaveStep
<1>6. CASE FinishDetect
  <2>1. PathIsChain'
    <3>1. CASE errors = {}
      <4>1. path' = <<[owner |-> Flag, at |-> 1]>> /\ phase' = "expand"
        BY <1>6, <3>1 DEF FinishDetect
      <4>2. path' # <<>> /\ path'[1].owner = Flag /\ Len(path') = 1
        BY <4>1
      <4>3. 2 .. Len(path') = {} /\ 1 .. Len(path') - 1 = {}
        BY <4>2
      <4> QED BY <4>1, <4>2, <4>3 DEF PathIsChain
    <3>2. CASE errors # {}
      <4>1. path' = path /\ phase' = "rejected" /\ path = <<>> /\ Len(path) = 0
        BY <1>6, <3>2, EmptySeq DEF FinishDetect, IInv, PathIsChain
      <4>2. 2 .. Len(path) = {} /\ 1 .. Len(path) - 1 = {}
        BY <4>1
      <4> QED BY <4>1, <4>2 DEF PathIsChain
    <3> QED BY <3>1, <3>2
  <2> QED BY <1>6, <2>1, FinishDetectStep DEF IInv
<1>7. CASE Inline
  BY <1>7, InlineStep
<1>8. CASE ReturnInlined
  BY <1>8, ReturnInlinedStep
<1>9. CASE UNCHANGED vars
  <2>1. UNCHANGED <<document, search, phase, errors, path>>
    BY <1>9 DEF vars, document, search
  <2>2. TypeOK'
    BY <2>1 DEF IInv, SearchInv, TypeOK, document, search
  <2>3. PhaseInv'
    BY <2>1 DEF IInv, SearchInv, PhaseInv, Accepted, document, search
  <2>4. PathIsChain'
    BY <2>1 DEF IInv, PathIsChain, AtReference, MentionsOf, document
  <2> QED BY <2>1, <2>2, <2>3, <2>4, SearchUntouched DEF IInv, SearchInv
<1> QED BY <1>1, <1>2, <1>3, <1>4, <1>5, <1>6, <1>7, <1>8, <1>9 DEF Next, Search

(* The strengthened invariant holds in every reachable state.              *)
THEOREM Invariance == Spec => []IInv
<1>1. Init => IInv
  <2> SUFFICES ASSUME Init PROVE IInv
    OBVIOUS
  <2>1. SearchInv
    BY InitSearch
  <2>2. path = <<>> /\ phase = "entries" /\ Len(path) = 0
    BY EmptySeq DEF Init
  <2>3. 2 .. Len(path) = {} /\ 1 .. Len(path) - 1 = {}
    BY <2>2
  <2> QED BY <2>1, <2>2, <2>3 DEF IInv, PathIsChain
<1> QED BY <1>1, NextStep, PTL DEF Spec

(* Every state of the search and of the inlining is of the declared types. *)
THEOREM TypeCorrect == Spec => []TypeOK
<1>1. IInv => TypeOK
  BY DEF IInv, SearchInv
<1> QED BY <1>1, Invariance, PTL

LEMMA SettledIsAcyclic ==
  ASSUME SearchInv
  PROVE  AcceptedIsAcyclic /\ AcceptedIsClosed
<1> SUFFICES ASSUME Accepted
             PROVE  /\ \A S \in (SUBSET Rule) \ {{}} : \E r \in S : ~ MentionsIn(r, S)
                    /\ \A i \in DOMAIN entry : entry[i] \in Rule
                    /\ \A r \in Rule : ~ MentionsIn(r, Missing)
  BY DEF AcceptedIsAcyclic, AcceptedIsClosed
<1>1. DOMAIN entry = 1 .. Len(entry) /\ \A r \in Rule : DOMAIN refs[r] = 1 .. Len(refs[r])
  BY LenProperties DEF SearchInv, TypeOK
<1>2. ASSUME NEW S \in (SUBSET Rule) \ {{}}
      PROVE  \E r \in S : ~ MentionsIn(r, S)
  <2>1. PICK r \in S : \A i \in 1 .. Len(refs[r]) : refs[r][i] \notin S
    BY AcceptedIsSettled
  <2>2. ~ MentionsIn(r, S)
    BY <1>1, <2>1 DEF MentionsIn, Mentions
  <2> QED BY <2>2
<1>3. \A i \in DOMAIN entry : entry[i] \in Rule
  BY <1>1, AcceptedIsSettled
<1>4. \A r \in Rule : ~ MentionsIn(r, Missing)
  BY <1>1, AcceptedIsSettled, RuleAssumption DEF MentionsIn, Mentions
<1> QED BY <1>2, <1>3, <1>4

(* detectRuleCycles lets no cycle through, for any number of rules and any *)
(* order of the range over the map.                                        *)
THEOREM NoCyclePasses == Spec => []AcceptedIsAcyclic
<1>1. IInv => AcceptedIsAcyclic
  BY SettledIsAcyclic DEF IInv
<1> QED BY <1>1, Invariance, PTL

(* Neither a flag nor a rule of an accepted document mentions an undefined *)
(* rule.                                                                   *)
THEOREM NoUndefinedPasses == Spec => []AcceptedIsClosed
<1>1. IInv => AcceptedIsClosed
  BY SettledIsAcyclic DEF IInv
<1> QED BY <1>1, Invariance, PTL

LEMMA ChainHasNoRepeat ==
  ASSUME IInv, phase = "expand",
         NEW i \in 2 .. Len(path), NEW j \in 2 .. Len(path), i < j
  PROVE  path[i].owner # path[j].owner
<1> SUFFICES ASSUME path[i].owner = path[j].owner PROVE FALSE
  OBVIOUS
<1> DEFINE S == {path[k].owner : k \in i .. j - 1}
<1>1. Len(path) \in Nat /\ i \in Nat /\ j \in Nat
  BY LenProperties DEF IInv, SearchInv, TypeOK
<1>2. i \in i .. j - 1 /\ \A k \in i .. j - 1 : k \in 2 .. Len(path)
  BY <1>1
<1>3. S \in (SUBSET Rule) \ {{}}
  BY <1>2 DEF IInv, PathIsChain
<1>4. Accepted
  BY DEF Accepted
<1>5. PICK r \in S : \A m \in 1 .. Len(refs[r]) : refs[r][m] \notin S
  <2> HIDE DEF S
  <2> QED BY <1>3, <1>4, AcceptedIsSettled DEF IInv
<1>6. PICK k \in i .. j - 1 : r = path[k].owner
  BY <1>5
<1>7. k \in 1 .. Len(path) - 1 /\ k \in 2 .. Len(path) /\ k \in 1 .. Len(path)
  BY <1>1, <1>6
<1>8. r \in Rule /\ MentionsOf(r) = refs[r]
  BY <1>3, <1>5, RuleAssumption DEF MentionsOf
<1>9. path[k].at \in 1 .. Len(refs[r]) /\ refs[r][path[k].at] = path[k + 1].owner
  <2>1. path[k].at \in Nat \ {0}
    BY <1>7, OwnersAreKnown
  <2>2. Len(refs[r]) \in Nat
    BY <1>8, LenProperties DEF IInv, SearchInv, TypeOK
  <2>3. /\ path[k].at <= Len(refs[r])
        /\ refs[r][path[k].at] = path[k + 1].owner
    BY <1>6, <1>7, <1>8 DEF IInv, PathIsChain, AtReference
  <2> QED BY <2>1, <2>2, <2>3
<1>10. path[k + 1].owner \in S
  <2>1. CASE k + 1 = j
    BY <1>2, <2>1
  <2>2. CASE k + 1 # j
    <3>1. k + 1 \in i .. j - 1
      BY <1>1, <1>6, <2>2
    <3> QED BY <3>1
  <2> QED BY <2>1, <2>2
<1> HIDE DEF S
<1> QED BY <1>5, <1>9, <1>10

(* Inlining accepted rules never meets a rule it is already inside of, so  *)
(* its recursion is bounded by the number of rules, though its code checks *)
(* nothing.                                                                *)
THEOREM InliningIsSafe == Spec => []NeverInlinedInsideItself
<1>1. IInv => NeverInlinedInsideItself
  <2> SUFFICES ASSUME IInv PROVE NeverInlinedInsideItself
    OBVIOUS
  <2>1. DOMAIN path = 1 .. Len(path) /\ Len(path) \in Nat
    BY LenProperties DEF IInv, SearchInv, TypeOK
  <2>2. CASE phase # "expand"
    <3>1. path = <<>> /\ Len(path) = 0
      BY <2>2, EmptySeq DEF IInv, PathIsChain
    <3>2. DOMAIN path = {} /\ 2 .. Len(path) = {}
      BY <2>1, <3>1
    <3> QED BY <3>2 DEF NeverInlinedInsideItself
  <2>3. CASE phase = "expand"
    <3>1. \A i \in 2 .. Len(path) : path[i].owner \in Rule
      BY DEF IInv, PathIsChain
    <3>2. path[1].owner = Flag /\ Flag \notin Rule
      BY <2>3, RuleAssumption DEF IInv, PathIsChain
    <3>3. ASSUME NEW i \in 1 .. Len(path), NEW j \in 1 .. Len(path),
                 path[i].owner = path[j].owner
          PROVE  i = j
      <4>1. (i = 1 \/ i \in 2 .. Len(path)) /\ (j = 1 \/ j \in 2 .. Len(path))
        BY <2>1
      <4>2. CASE i = 1 \/ j = 1
        BY <3>1, <3>2, <3>3, <4>1, <4>2
      <4>3. CASE i \in 2 .. Len(path) /\ j \in 2 .. Len(path)
        <5>1. i < j \/ j < i \/ i = j
          BY <2>1
        <5> QED BY <2>3, <3>3, <4>3, <5>1, ChainHasNoRepeat
      <4> QED BY <4>1, <4>2, <4>3
    <3> QED BY <2>1, <3>1, <3>3 DEF NeverInlinedInsideItself
  <2> QED BY <2>2, <2>3
<1> QED BY <1>1, Invariance, PTL

-----------------------------------------------------------------------------
(* What was recorded of an error.  An alarm leaves the search where it was *)
(* raised: the innermost dfs is at a reference to a grey rule.             *)
ErrorsHaveCause ==
  /\ "unknown" \in errors => \E i \in DOMAIN entry : entry[i] \notin Rule
  /\ "undefined" \in errors => \E r \in Rule : MentionsIn(r, Missing)
  /\ "cycle" \in errors =>
       /\ phase = "rejected"
       /\ stack # <<>>
       /\ next[Top(stack)] <= Len(refs[Top(stack)])
       /\ refs[Top(stack)][next[Top(stack)]] \in Rule
       /\ color[refs[Top(stack)][next[Top(stack)]]] = 1
  /\ phase = "rejected" => errors # {}

LEMMA InnermostReference ==
  ASSUME SearchInv, NEW n \in Name, Calls(n), stack # <<>>
  PROVE  /\ Top(stack) \in Rule
         /\ next[Top(stack)] \in DOMAIN refs[Top(stack)]
         /\ refs[Top(stack)][next[Top(stack)]] = n
<1>1. Top(stack) \in Rule
  BY PopFacts DEF SearchInv, TypeOK
<1>2. next[Top(stack)] \in Nat \ {0} /\ refs[Top(stack)] \in Seq(Name)
  BY <1>1 DEF SearchInv, TypeOK
<1>3. DOMAIN refs[Top(stack)] = 1 .. Len(refs[Top(stack)]) /\ Len(refs[Top(stack)]) \in Nat
  BY <1>2, LenProperties
<1> QED BY <1>1, <1>2, <1>3 DEF Calls

LEMMA FoundCycleCause ==
  ASSUME SearchInv, ErrorsHaveCause, NEW n \in Name, FoundCycle(n)
  PROVE  ErrorsHaveCause'
<1>1. stack # <<>>
  <2> SUFFICES ASSUME stack = <<>> PROVE FALSE
    OBVIOUS
  <2>1. 1 .. Len(stack) = {}
    BY EmptySeq
  <2> QED BY <2>1 DEF FoundCycle, SearchInv, GreyOnStack
<1>2. /\ Top(stack) \in Rule
      /\ next[Top(stack)] \in DOMAIN refs[Top(stack)]
      /\ refs[Top(stack)][next[Top(stack)]] = n
  BY <1>1, InnermostReference DEF FoundCycle
<1>3. next[Top(stack)] <= Len(refs[Top(stack)])
  BY <1>1 DEF FoundCycle, Calls
<1>4. /\ phase' = "rejected" /\ errors' = errors \cup {"cycle"}
      /\ UNCHANGED <<refs, entry, stack, next, color>>
  BY DEF FoundCycle, Reject, document, search
<1> QED BY <1>1, <1>2, <1>3, <1>4 DEF ErrorsHaveCause, FoundCycle, Top, MentionsIn, Mentions

LEMMA FoundUndefinedCause ==
  ASSUME SearchInv, ErrorsHaveCause, NEW n \in Name, FoundUndefined(n)
  PROVE  ErrorsHaveCause'
<1>1. n \in Missing /\ "cycle" \notin errors /\ phase = "detect"
  BY DEF FoundUndefined, Calls, Name, ErrorsHaveCause
<1>2. stack # <<>>
  BY DEF FoundUndefined, Calls, SearchInv, TypeOK
<1>3. MentionsIn(Top(stack), Missing) /\ Top(stack) \in Rule
  BY <1>1, <1>2, InnermostReference DEF FoundUndefined, MentionsIn, Mentions
<1>4. /\ errors' = errors \cup {"undefined"}
      /\ UNCHANGED <<refs, entry>>
  BY DEF FoundUndefined, Reject, document
<1> QED BY <1>1, <1>3, <1>4 DEF ErrorsHaveCause, MentionsIn, Mentions

LEMMA CauseStep == SearchInv /\ ErrorsHaveCause /\ [Next]_vars => ErrorsHaveCause'
<1> SUFFICES ASSUME SearchInv, ErrorsHaveCause, [Next]_vars PROVE ErrorsHaveCause'
  OBVIOUS
<1>1. CASE CheckEntry
  <2>1. errors = {} /\ phase' = "detect" /\ UNCHANGED <<refs, entry>>
    BY <1>1 DEF CheckEntry, SearchInv, PhaseInv, document
  <2>2. "cycle" \notin errors' /\ "undefined" \notin errors'
    BY <1>1, <2>1 DEF CheckEntry
  <2>3. "unknown" \in errors' => \E i \in DOMAIN entry : entry[i] \notin Rule
    BY <1>1, <2>1 DEF CheckEntry
  <2> QED BY <2>1, <2>2, <2>3 DEF ErrorsHaveCause
<1>2. ASSUME NEW n \in Name, FoundCycle(n) PROVE ErrorsHaveCause'
  BY <1>2, FoundCycleCause
<1>3. ASSUME NEW n \in Name, FoundUndefined(n) PROVE ErrorsHaveCause'
  BY <1>3, FoundUndefinedCause
<1>4. CASE /\ phase \in {"detect", "expand"}
           /\ phase' = "rejected" => errors # {}
           /\ UNCHANGED <<refs, entry, errors>>
  <2>1. "cycle" \notin errors
    BY <1>4 DEF ErrorsHaveCause
  <2> QED BY <1>4, <2>1 DEF ErrorsHaveCause, MentionsIn, Mentions
<1>5. CASE \/ \E n \in Name : Enter(n) \/ AlreadyDone(n)
           \/ Leave \/ FinishDetect \/ Inline \/ ReturnInlined
  <2>1. /\ phase \in {"detect", "expand"}
        /\ phase' = "rejected" => errors # {}
        /\ UNCHANGED <<refs, entry, errors>>
    BY <1>5 DEF Enter, AlreadyDone, Calls, Leave, FinishDetect, Inline, ReturnInlined, document
  <2> QED BY <1>4, <2>1
<1>6. CASE UNCHANGED vars
  <2>1. UNCHANGED <<refs, entry, phase, errors, color, stack, next>>
    BY <1>6 DEF vars
  <2> QED BY <2>1 DEF ErrorsHaveCause, MentionsIn, Mentions, Top
<1> QED BY <1>1, <1>2, <1>3, <1>5, <1>6 DEF Next, Search

LEMMA CausesAreKept == Spec => [](SearchInv /\ ErrorsHaveCause)
<1>1. Init => ErrorsHaveCause
  BY DEF Init, ErrorsHaveCause
<1>2. IInv => SearchInv
  BY DEF IInv
<1> QED BY <1>1, <1>2, CauseStep, Invariance, PTL DEF Spec

(* An alarm's stack is a chain of references that the next one closes.     *)
LEMMA AlarmIsCycle ==
  ASSUME SearchInv, ErrorsHaveCause, "cycle" \in errors
  PROVE  /\ \A i \in 1 .. Len(stack) - 1 : Mentions(stack[i], stack[i + 1])
         /\ Mentions(stack[Len(stack)], refs[Top(stack)][next[Top(stack)]])
         /\ \E i \in 1 .. Len(stack) : stack[i] = refs[Top(stack)][next[Top(stack)]]
<1>1. Len(stack) \in Nat \ {0} /\ Top(stack) = stack[Len(stack)] /\ Top(stack) \in Rule
  BY PopFacts DEF SearchInv, TypeOK, ErrorsHaveCause
<1>2. ASSUME NEW r \in Rule
      PROVE  DOMAIN refs[r] = 1 .. Len(refs[r]) /\ Len(refs[r]) \in Nat /\ next[r] \in Nat \ {0}
  BY LenProperties DEF SearchInv, TypeOK
<1>3. \A i \in 1 .. Len(stack) - 1 : Mentions(stack[i], stack[i + 1])
  <2> SUFFICES ASSUME NEW i \in 1 .. Len(stack) - 1 PROVE Mentions(stack[i], stack[i + 1])
    OBVIOUS
  <2>1. i \in 1 .. Len(stack)
    BY <1>1
  <2>2. stack[i] \in Rule
    BY <2>1, ElementOfSeq DEF SearchInv, TypeOK
  <2>3. /\ next[stack[i]] <= Len(refs[stack[i]])
        /\ refs[stack[i]][next[stack[i]]] = stack[i + 1]
    BY DEF SearchInv, StackIsChain
  <2>4. next[stack[i]] \in DOMAIN refs[stack[i]]
    BY <1>2, <2>2, <2>3
  <2> QED BY <2>3, <2>4 DEF Mentions
<1>4. Mentions(stack[Len(stack)], refs[Top(stack)][next[Top(stack)]])
  <2>1. next[Top(stack)] \in DOMAIN refs[Top(stack)]
    BY <1>1, <1>2 DEF ErrorsHaveCause
  <2> QED BY <1>1, <2>1 DEF Mentions
<1>5. \E i \in 1 .. Len(stack) : stack[i] = refs[Top(stack)][next[Top(stack)]]
  BY DEF ErrorsHaveCause, SearchInv, GreyOnStack
<1> QED BY <1>3, <1>4, <1>5

(* The names a cycle error prints are a cycle of the document, for any     *)
(* number of rules.                                                        *)
THEOREM NoFalseAlarm == Spec => []CycleReportIsReal
<1>1. SearchInv /\ ErrorsHaveCause => CycleReportIsReal
  <2> SUFFICES ASSUME SearchInv, ErrorsHaveCause, "cycle" \in errors
               PROVE  CycleReportIsReal
    BY DEF CycleReportIsReal
  <2>1. DOMAIN stack = 1 .. Len(stack)
    BY LenProperties DEF SearchInv, TypeOK
  <2> QED BY <2>1, AlarmIsCycle DEF CycleReportIsReal
<1> QED BY <1>1, CausesAreKept, PTL

(* The rules from the one the alarm came back to form a set in which each  *)
(* mentions another.                                                       *)
LEMMA AlarmHasCycle ==
  ASSUME SearchInv, ErrorsHaveCause, "cycle" \in errors
  PROVE  \E S \in (SUBSET Rule) \ {{}} : \A r \in S : MentionsIn(r, S)
<1>1. Len(stack) \in Nat /\ \A i \in 1 .. Len(stack) : stack[i] \in Rule
  BY ElementOfSeq, LenProperties DEF SearchInv, TypeOK
<1>2. PICK k \in 1 .. Len(stack) : stack[k] = refs[Top(stack)][next[Top(stack)]]
  BY AlarmIsCycle
<1> DEFINE S == {stack[i] : i \in k .. Len(stack)}
<1>3. k \in k .. Len(stack) /\ \A i \in k .. Len(stack) : i \in 1 .. Len(stack)
  BY <1>1, <1>2
<1>4. S \in (SUBSET Rule) \ {{}}
  BY <1>1, <1>3
<1>5. ASSUME NEW i \in k .. Len(stack) PROVE MentionsIn(stack[i], S)
  <2>1. CASE i = Len(stack)
    <3>1. Mentions(stack[i], stack[k]) /\ stack[k] \in S
      BY <1>2, <1>3, <2>1, AlarmIsCycle
    <3> QED BY <3>1 DEF MentionsIn
  <2>2. CASE i # Len(stack)
    <3>1. i \in 1 .. Len(stack) - 1 /\ i + 1 \in k .. Len(stack)
      BY <1>1, <1>2, <2>2
    <3>2. Mentions(stack[i], stack[i + 1]) /\ stack[i + 1] \in S
      BY <3>1, AlarmIsCycle
    <3> QED BY <3>2 DEF MentionsIn
  <2> QED BY <2>1, <2>2
<1>6. \A r \in S : MentionsIn(r, S)
  BY <1>5
<1> HIDE DEF S
<1> QED BY <1>4, <1>6

(* A document is rejected for a defect it has, whatever the map order:     *)
(* with NoCyclePasses and NoUndefinedPasses the verdict is a function of   *)
(* the document.                                                           *)
THEOREM RejectionHasDefect == Spec => []NoFalseRejection
<1>1. SearchInv /\ ErrorsHaveCause => NoFalseRejection
  <2> SUFFICES ASSUME SearchInv, ErrorsHaveCause, phase = "rejected"
               PROVE  NoFalseRejection
    BY DEF NoFalseRejection
  <2>1. "unknown" \in errors \/ "undefined" \in errors \/ "cycle" \in errors
    BY DEF SearchInv, TypeOK, ErrorsHaveCause
  <2>2. CASE "unknown" \in errors \/ "undefined" \in errors
    BY <2>2 DEF ErrorsHaveCause, NoFalseRejection
  <2>3. CASE "cycle" \in errors
    BY <2>3, AlarmHasCycle DEF NoFalseRejection
  <2> QED BY <2>1, <2>2, <2>3
<1> QED BY <1>1, CausesAreKept, PTL
=============================================================================
