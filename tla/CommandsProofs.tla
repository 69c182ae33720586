--------------------------- MODULE CommandsProofs ---------------------------
(***************************************************************************)
(* The commands, for any number of them, any makefile and any number of    *)
(* kills and failing writes.  A file with one writer holds, while that     *)
(* command has it open, the blocks before its offset and nothing else;     *)
(* and a command that has succeeded never runs again, so what another one  *)
(* reads after it stays.                                                   *)
(***************************************************************************)
EXTENDS Commands, SequenceTheorems, TLAPS

Labels == {"ready", "dump", "dumping", "compile", "write", "writing", "ok", "failed"}

TypeInv ==
  /\ Options \in Makefiles
  /\ files \in [Path -> Seq(Block \cup {Hole})]
  /\ pc \in [Job -> Labels]
  /\ doc \in [Job -> Documents \cup {Fragment}]
  /\ offset \in [Job -> 0 .. 3]
  /\ troubles \in 0 .. MaxTroubles
  /\ \A j \in Job : /\ Writing(j) => offset[j] <= Blocks(Form(j))
                    /\ pc[j] \in {"dump", "dumping"} => Options[j].dump # NoPath
                    /\ pc[j] = "writing" => Options[j].out # NoPath

(* The first n blocks of what j writes, and nothing behind them.           *)
Begins(p, form, d, n) ==
  Len(files[p]) = n /\ \A i \in 1 .. n : files[p][i] = Content(form, d)[i]

OpenIsPrefix(j) ==
  Writing(j) /\ OnlyWriter(j, Target(j)) =>
    Begins(Target(j), Form(j), doc[j], offset[j])

DumpIsWhole(j) ==
  /\ pc[j] \in {"compile", "write", "writing", "ok"}
  /\ OnlyWriter(j, Options[j].dump) /\ Options[j].dump # Options[j].out
  => Options[j].dump = NoPath \/ files[Options[j].dump] = Content("yaml", doc[j])

OutputIsWhole(j) ==
  pc[j] = "ok" /\ OnlyWriter(j, Options[j].out) =>
    Options[j].out = NoPath \/ files[Options[j].out] = Content(Options[j].makes, doc[j])

FilesOf(j) == OpenIsPrefix(j) /\ DumpIsWhole(j) /\ OutputIsWhole(j)

OnlyAccepted ==
  \A j \in Job : pc[j] \in {"write", "writing"} =>
    Marshals(j) \/ doc[j] \in Compiles \cup {Fragment}

PredecessorsAreDone ==
  \A j \in Job : pc[j] \notin {"ready", "failed"} =>
    \A o \in Options[j].after : pc[o] = "ok"

FileInv == \A j \in Job : FilesOf(j)
OrderInv == OnlyAccepted /\ PredecessorsAreDone /\ ChainKeepsDocument
IInv == TypeInv /\ FileInv /\ OrderInv

-----------------------------------------------------------------------------
(* Contents                                                                *)

LEMMA ContentFacts ==
  ASSUME NEW form \in Forms, NEW d \in Documents \cup {Fragment}
  PROVE  /\ Content(form, d) \in Seq(Block)
         /\ Len(Content(form, d)) = Blocks(form)
         /\ Blocks(form) \in {2, 3}
         /\ \A i \in 1 .. Blocks(form) : Content(form, d)[i] = [form |-> form, doc |-> d, part |-> i]
         /\ Content(form, d) # Absent
<1>1. Blocks(form) \in {2, 3}
  BY DEF Blocks
<1>2. \A i \in 1 .. Blocks(form) : [form |-> form, doc |-> d, part |-> i] \in Block
  BY <1>1 DEF Block
<1>3. Content(form, d) \in Seq(Block) /\ Len(Content(form, d)) = Blocks(form)
  BY <1>1, <1>2 DEF Content
<1>4. Len(Absent) = 1
  BY DEF Absent
<1> QED
  BY <1>1, <1>3, <1>4 DEF Content

LEMMA ContentTellsDocument ==
  ASSUME NEW form \in Forms, NEW d \in Documents \cup {Fragment}, NEW other, NEW x,
         Content(form, d) = Content(other, x)
  PROVE  x = d
<1>1. 1 \in 1 .. Blocks(form) /\ 1 \in 1 .. Blocks(other)
  BY DEF Blocks
<1>2. Content(form, d)[1] = [form |-> form, doc |-> d, part |-> 1]
  BY <1>1 DEF Content
<1>3. Content(other, x)[1] = [form |-> other, doc |-> x, part |-> 1]
  BY <1>1 DEF Content
<1> QED
  BY <1>2, <1>3

(* Writing at the end of a file whose beginning is right.                  *)
LEMMA PutFacts ==
  ASSUME NEW content \in Seq(Block \cup {Hole}), NEW at \in Nat \ {0}, NEW block \in Block
  PROVE  /\ Put(content, at, block) \in Seq(Block \cup {Hole})
         /\ Len(content) = at - 1 =>
              /\ Len(Put(content, at, block)) = at
              /\ Put(content, at, block)[at] = block
              /\ \A i \in 1 .. at - 1 : Put(content, at, block)[i] = content[i]
<1> DEFINE n == IF at > Len(content) THEN at ELSE Len(content)
<1>1. /\ n \in Nat /\ Len(content) \in Nat
      /\ \A i \in 1 .. Len(content) : content[i] \in Block \cup {Hole}
  OBVIOUS
<1>2. Put(content, at, block) =
        [i \in 1 .. n |->
           IF i = at THEN block ELSE IF i <= Len(content) THEN content[i] ELSE Hole]
  BY DEF Put
<1>3. \A i \in 1 .. n :
        (IF i = at THEN block ELSE IF i <= Len(content) THEN content[i] ELSE Hole)
          \in Block \cup {Hole}
  BY <1>1
<1>4. Put(content, at, block) \in Seq(Block \cup {Hole}) /\ Len(Put(content, at, block)) = n
  <2> HIDE DEF n
  <2> QED BY <1>1, <1>2, <1>3
<1> QED
  BY <1>1, <1>2, <1>4

LEMMA OptionFacts ==
  ASSUME TypeInv, NEW j \in Job
  PROVE  /\ Options[j].in \in Path
         /\ Options[j].makes \in Forms
         /\ Options[j].out \in Path \cup {NoPath}
         /\ Options[j].dump \in Path \cup {NoPath}
         /\ Options[j].after \subseteq Job
         /\ Form(j) \in Forms
         /\ pc[j] \in Labels /\ doc[j] \in Documents \cup {Fragment} /\ offset[j] \in 0 .. 3
BY CommandAssumption DEF TypeInv, Form

-----------------------------------------------------------------------------
(* What a step leaves alone                                                *)

LEMMA OthersKeepFiles ==
  ASSUME TypeInv, UNCHANGED Options, NEW o \in Job, FilesOf(o),
         pc'[o] = pc[o], doc'[o] = doc[o], offset'[o] = offset[o],
         \A p \in Path : OnlyWriter(o, p) => files'[p] = files[p]
  PROVE  FilesOf(o)'
<1>1. \A p : OnlyWriter(o, p)' = OnlyWriter(o, p)
  BY DEF OnlyWriter, WrittenBy
<1>2. /\ Options[o].out \in Path \cup {NoPath}
      /\ Options[o].dump \in Path \cup {NoPath}
  BY OptionFacts
<1>3. Writing(o) => Target(o) \in Path
  BY <1>2 DEF TypeInv, Writing, Target, InDump
<1>4. Target(o)' = Target(o) /\ Form(o)' = Form(o) /\ (Writing(o)' <=> Writing(o))
  BY DEF Target, Form, InDump, Writing
<1>5. OpenIsPrefix(o)'
  <2>1. CASE Writing(o) /\ OnlyWriter(o, Target(o))
    <3>1. files'[Target(o)] = files[Target(o)]
      BY <1>3, <2>1
    <3>2. Begins(Target(o), Form(o), doc[o], offset[o])
      BY <2>1 DEF FilesOf, OpenIsPrefix
    <3> QED BY <1>4, <3>1, <3>2 DEF OpenIsPrefix, Begins
  <2>2. CASE ~ (Writing(o) /\ OnlyWriter(o, Target(o)))
    <3>1. ~ (Writing(o)' /\ OnlyWriter(o, Target(o))')
      BY <1>4, <2>2 DEF OnlyWriter, WrittenBy
    <3> QED BY <3>1 DEF OpenIsPrefix
  <2> QED BY <2>1, <2>2
<1>6. DumpIsWhole(o)'
  BY <1>1, <1>2 DEF FilesOf, DumpIsWhole, OnlyWriter, WrittenBy
<1>7. OutputIsWhole(o)'
  BY <1>1, <1>2 DEF FilesOf, OutputIsWhole, OnlyWriter, WrittenBy
<1> QED
  BY <1>5, <1>6, <1>7 DEF FilesOf

(* All but a load: no document changes, no command starts or is undone.    *)
LEMMA OrderKept ==
  ASSUME TypeInv, OrderInv, UNCHANGED Options, UNCHANGED doc,
         \A o \in Job :
           /\ pc[o] \in {"ready", "failed"} => pc'[o] \in {"ready", "failed"}
           /\ pc[o] = "ok" => pc'[o] = "ok"
           /\ pc'[o] \in {"write", "writing"} =>
                \/ pc[o] \in {"write", "writing"}
                \/ Marshals(o) \/ doc[o] \in Compiles \cup {Fragment}
  PROVE  OrderInv'
<1>1. OnlyAccepted'
  BY DEF OrderInv, OnlyAccepted, Marshals
<1>2. PredecessorsAreDone'
  BY OptionFacts DEF OrderInv, PredecessorsAreDone
<1>3. \A o, p : OnlyWriter(o, p)' = OnlyWriter(o, p)
  BY DEF OnlyWriter, WrittenBy
<1>4. ChainKeepsDocument'
  BY <1>3 DEF OrderInv, ChainKeepsDocument, OnlyWriter, WrittenBy
<1> QED
  BY <1>1, <1>2, <1>4 DEF OrderInv
-----------------------------------------------------------------------------
(* The steps                                                               *)

LEMMA LoadInv ==
  ASSUME IInv, UNCHANGED Options, NEW j \in Job, Load(j)
  PROVE  IInv'
<1>1. PICK d \in Loaded(j) : doc' = [doc EXCEPT ![j] = d]
  BY DEF Load
<1> DEFINE label == IF Options[j].dump = NoPath THEN "compile" ELSE "dump"
<1>2. /\ pc[j] = "ready" /\ pc' = [pc EXCEPT ![j] = label]
      /\ \A o \in Options[j].after : pc[o] = "ok"
      /\ UNCHANGED <<files, offset, troubles>>
  BY DEF Load, Ready, GoTo
<1>3. d \in Documents \cup {Fragment}
  BY CommandAssumption DEF Loaded
<1>4. TypeInv
  BY DEF IInv
<1>5. /\ \A o \in Job \ {j} : pc'[o] = pc[o] /\ doc'[o] = doc[o]
      /\ pc'[j] = label /\ doc'[j] = d
      /\ pc'[j] \in {"compile", "dump"}
  BY <1>1, <1>2, <1>4 DEF TypeInv
<1>6. TypeInv'
  BY <1>1, <1>2, <1>3, <1>4, <1>5 DEF TypeInv, Writing, Form, InDump, Labels
<1>7. FileInv'
  <2>1. FilesOf(j)'
    <3>1. pc'[j] = "compile" => Options'[j].dump = NoPath
      BY <1>5
    <3> QED BY <1>5, <3>1 DEF FilesOf, OpenIsPrefix, DumpIsWhole, OutputIsWhole, Writing
  <2>2. ASSUME NEW o \in Job \ {j} PROVE FilesOf(o)'
    BY <1>2, <1>4, <1>5, OthersKeepFiles DEF IInv, FileInv
  <2> QED BY <2>1, <2>2 DEF FileInv
<1>8. OnlyAccepted' /\ PredecessorsAreDone'
  <2>1. OnlyAccepted'
    BY <1>5 DEF IInv, OrderInv, OnlyAccepted, Marshals
  <2>2. \A o \in Job : pc[o] = "ok" => pc'[o] = "ok"
    BY <1>2, <1>5
  <2>3. PredecessorsAreDone'
    BY <1>2, <1>4, <1>5, <2>2, OptionFacts DEF IInv, OrderInv, PredecessorsAreDone
  <2> QED BY <2>1, <2>3
<1>9. ChainKeepsDocument'
  <2>1. ASSUME NEW o \in Options[j].after, Options[j].in = Options[o].out,
               OnlyWriter(o, Options[o].out)
        PROVE  o # j /\ doc[o] = d
    <3>1. o \in Job /\ pc[o] = "ok" /\ o # j
      BY <1>2, <1>4, OptionFacts
    <3>2. Options[o].out # NoPath
      BY <1>4, <2>1, OptionFacts, CommandAssumption
    <3>3. files[Options[j].in] = Content(Options[o].makes, doc[o])
      BY <2>1, <3>1, <3>2 DEF IInv, FileInv, FilesOf, OutputIsWhole
    <3>4. Options[o].makes \in Forms /\ doc[o] \in Documents \cup {Fragment}
      BY <1>4, <3>1, OptionFacts
    <3>5. Whole(files[Options[j].in]) /\ files[Options[j].in] # Absent
      BY <3>3, <3>4, ContentFacts DEF Whole
    <3>6. files[Options[j].in] = Content(Options[j].reads, d)
      BY <3>5 DEF Loaded, Parses
    <3> QED BY <3>1, <3>3, <3>4, <3>6, ContentTellsDocument
  <2>2. ASSUME NEW k \in Job, pc'[k] \notin {"ready", "failed"}, NEW o \in Options[k].after,
               Options[k].in = Options[o].out, OnlyWriter(o, Options[o].out)
        PROVE  doc'[k] = doc'[o]
    <3>1. CASE k = j
      BY <1>4, <1>5, <2>1, <2>2, <3>1, OptionFacts
    <3>2. CASE k # j
      <4>1. pc[k] \notin {"ready", "failed"} /\ o \in Job
        BY <1>4, <1>5, <2>2, <3>2, OptionFacts
      <4>2. pc[o] = "ok" /\ o # j
        BY <1>2, <2>2, <4>1 DEF IInv, OrderInv, PredecessorsAreDone
      <4>3. doc[k] = doc[o]
        BY <2>2, <4>1 DEF IInv, OrderInv, ChainKeepsDocument
      <4> QED BY <1>5, <3>2, <4>1, <4>2, <4>3
    <3> QED BY <3>1, <3>2
  <2>3. \A o, p : OnlyWriter(o, p)' = OnlyWriter(o, p)
    BY DEF OnlyWriter, WrittenBy
  <2>4. \A o : OnlyWriter(o, Options[o].out)' <=> OnlyWriter(o, Options[o].out)
    BY DEF OnlyWriter, WrittenBy
  <2> QED BY <2>2, <2>4 DEF ChainKeepsDocument
<1> QED
  BY <1>6, <1>7, <1>8, <1>9 DEF IInv, OrderInv

(* Steps that move the program counter and touch nothing else.             *)
LEMMA MoveInv ==
  ASSUME IInv, UNCHANGED Options, NEW j \in Job, NEW label, GoTo(j, label),
         UNCHANGED files, UNCHANGED doc, UNCHANGED offset, troubles' \in 0 .. MaxTroubles,
         \/ label \in {"ready", "failed"} /\ pc[j] # "ok"
         \/ label = "write" /\ pc[j] = "compile"
              /\ (Marshals(j) \/ doc[j] \in Compiles \cup {Fragment})
         \/ label = "ok" /\ pc[j] = "write" /\ Options[j].out = NoPath
         \/ Close(j) /\ label = IF InDump(j) THEN "compile" ELSE "ok"
  PROVE  IInv'
<1>1. TypeInv /\ pc[j] \in Labels
  BY OptionFacts DEF IInv
<1>2. (\A o \in Job \ {j} : pc'[o] = pc[o]) /\ pc'[j] = label
  BY <1>1 DEF TypeInv, GoTo
<1>3. Close(j) =>
        /\ \/ pc[j] = "dumping" /\ label = "compile"
           \/ pc[j] = "writing" /\ label = "ok"
        /\ Writing(j) /\ offset[j] = Blocks(Form(j))
  BY <1>1, <1>2 DEF TypeInv, Close, Writing, InDump, GoTo
<1>4. label \in Labels \ {"dump", "dumping", "writing"}
  BY <1>3 DEF Labels
<1>5. TypeInv'
  BY <1>1, <1>2, <1>4 DEF TypeInv, Writing, Form, InDump, GoTo
<1>6. FilesOf(j)'
  <2>1. OpenIsPrefix(j)'
    BY <1>2, <1>4 DEF OpenIsPrefix, Writing
  <2>2. ASSUME Close(j), OnlyWriter(j, Target(j))
        PROVE  files[Target(j)] = Content(Form(j), doc[j])
    <3>1. Begins(Target(j), Form(j), doc[j], Blocks(Form(j)))
      BY <1>3, <2>2 DEF IInv, FileInv, FilesOf, OpenIsPrefix
    <3>2. Target(j) \in Path
      BY <1>1, <1>3, <2>2, OptionFacts DEF Target, InDump, TypeInv
    <3>3. files[Target(j)] \in Seq(Block \cup {Hole})
      BY <1>1, <3>2 DEF TypeInv
    <3>4. /\ Content(Form(j), doc[j]) \in Seq(Block \cup {Hole})
          /\ Len(Content(Form(j), doc[j])) = Blocks(Form(j))
      BY <1>1, OptionFacts, ContentFacts
    <3> QED BY <3>1, <3>3, <3>4, SeqEqual DEF Begins
  <2>3. \A p : OnlyWriter(j, p)' = OnlyWriter(j, p)
    BY DEF OnlyWriter, WrittenBy
  <2>4. DumpIsWhole(j)'
    <3>1. ASSUME label \in {"compile", "write", "ok"}, OnlyWriter(j, Options[j].dump),
                 Options[j].dump # Options[j].out, Options[j].dump # NoPath
          PROVE  files[Options[j].dump] = Content("yaml", doc[j])
      <4>1. CASE pc[j] = "dumping"
        BY <1>3, <2>2, <3>1, <4>1 DEF Target, Form, InDump
      <4>2. CASE pc[j] # "dumping"
        <5>1. pc[j] \in {"compile", "write", "writing"}
          BY <1>3, <3>1, <4>2
        <5> QED BY <3>1, <5>1 DEF IInv, FileInv, FilesOf, DumpIsWhole
      <4> QED BY <4>1, <4>2
    <3> QED BY <1>2, <1>4, <3>1 DEF DumpIsWhole, OnlyWriter, WrittenBy
  <2>5. OutputIsWhole(j)'
    <3>1. ASSUME label = "ok", OnlyWriter(j, Options[j].out), Options[j].out # NoPath
          PROVE  files[Options[j].out] = Content(Options[j].makes, doc[j])
      <4>1. Close(j) /\ pc[j] = "writing"
        BY <1>3, <3>1
      <4> QED BY <2>2, <3>1, <4>1 DEF Target, Form, InDump
    <3> QED BY <1>2, <3>1 DEF OutputIsWhole, OnlyWriter, WrittenBy
  <2> QED BY <2>1, <2>4, <2>5 DEF FilesOf
<1>7. FileInv'
  <2>1. ASSUME NEW o \in Job \ {j} PROVE FilesOf(o)'
    BY <1>1, <1>2, OthersKeepFiles DEF IInv, FileInv
  <2> QED BY <1>6, <2>1 DEF FileInv
<1>8. OrderInv'
  BY <1>1, <1>2, <1>3, OrderKept DEF IInv
<1> QED
  BY <1>5, <1>7, <1>8 DEF IInv
(* A file that j writes to has another only writer for nobody else.        *)
LEMMA TargetIsOnes ==
  ASSUME TypeInv, NEW j \in Job, Target(j) # NoPath, NEW o \in Job \ {j}, NEW p,
         OnlyWriter(o, p)
  PROVE  p # Target(j)
BY DEF OnlyWriter, WrittenBy, Target

LEMMA OpenInv ==
  ASSUME IInv, UNCHANGED Options, NEW j \in Job, Open(j)
  PROVE  IInv'
<1> DEFINE label == IF InDump(j) THEN "dumping" ELSE "writing"
<1>1. /\ pc[j] \in {"dump", "write"} /\ Target(j) # NoPath
      /\ files' = [files EXCEPT ![Target(j)] = <<>>]
      /\ offset' = [offset EXCEPT ![j] = 0]
      /\ pc' = [pc EXCEPT ![j] = label]
      /\ doc' = doc /\ troubles' = troubles
  BY DEF Open, GoTo
<1>2. TypeInv
  BY DEF IInv
<1>3. Target(j) \in Path
  BY <1>1, <1>2, OptionFacts DEF Target
<1>4. /\ \A o \in Job \ {j} : pc'[o] = pc[o] /\ offset'[o] = offset[o]
      /\ pc'[j] = label /\ offset'[j] = 0
      /\ files'[Target(j)] = <<>>
      /\ \A p \in Path \ {Target(j)} : files'[p] = files[p]
  BY <1>1, <1>2, <1>3 DEF TypeInv
<1>5. Target(j)' = Target(j) /\ Form(j)' = Form(j)
  BY <1>1, <1>4 DEF Target, Form, InDump
<1>6. TypeInv'
  <2>1. files' \in [Path -> Seq(Block \cup {Hole})]
    <3>1. <<>> \in Seq(Block \cup {Hole})
      OBVIOUS
    <3> QED BY <1>1, <1>2, <3>1 DEF TypeInv
  <2>2. Options[j].dump # NoPath \/ pc[j] # "dump"
    BY <1>2 DEF TypeInv
  <2>3. pc'[j] = "writing" => Options'[j].out # NoPath
    BY <1>1, <1>4 DEF Target, InDump
  <2>4. \A form : Blocks(form) \in {2, 3}
    BY DEF Blocks
  <2>5. pc' \in [Job -> Labels] /\ offset' \in [Job -> 0 .. 3]
    BY <1>1, <1>2 DEF TypeInv, Labels
  <2>6. \A o \in Job \ {j} : Form(o)' = Form(o)
    BY <1>4 DEF Form, InDump
  <2>7. ASSUME NEW o \in Job
        PROVE  /\ Writing(o)' => offset'[o] <= Blocks(Form(o)')
               /\ pc'[o] \in {"dump", "dumping"} => Options'[o].dump # NoPath
               /\ pc'[o] = "writing" => Options'[o].out # NoPath
    <3>1. CASE o = j
      <4>1. offset'[o] <= Blocks(Form(o)')
        BY <1>4, <2>4, <3>1
      <4>2. pc'[o] \in {"dump", "dumping"} => Options'[o].dump # NoPath
        BY <1>1, <1>4, <2>2, <3>1 DEF InDump
      <4> QED BY <2>3, <3>1, <4>1, <4>2
    <3>2. CASE o # j
      BY <1>2, <1>4, <2>6, <3>2 DEF TypeInv, Writing
    <3> QED BY <3>1, <3>2
  <2> QED BY <1>1, <1>2, <2>1, <2>5, <2>7 DEF TypeInv
<1>7. FilesOf(j)'
  <2>1. OpenIsPrefix(j)'
    BY <1>4, <1>5 DEF OpenIsPrefix, Begins
  <2>2. OutputIsWhole(j)'
    BY <1>4 DEF OutputIsWhole
  <2>3. DumpIsWhole(j)'
    <3>1. ASSUME pc[j] = "write", OnlyWriter(j, Options[j].dump),
                 Options[j].dump # Options[j].out, Options[j].dump # NoPath
          PROVE  files'[Options[j].dump] = Content("yaml", doc[j])
      <4>1. files[Options[j].dump] = Content("yaml", doc[j])
        BY <3>1 DEF IInv, FileInv, FilesOf, DumpIsWhole
      <4>2. Options[j].dump \in Path \ {Target(j)}
        BY <1>2, <3>1, OptionFacts DEF Target, InDump
      <4> QED BY <1>4, <4>1, <4>2
    <3>2. pc'[j] = "dumping" \/ pc[j] = "write"
      BY <1>1, <1>4 DEF InDump
    <3> QED BY <1>1, <3>1, <3>2 DEF DumpIsWhole, OnlyWriter, WrittenBy
  <2> QED BY <2>1, <2>2, <2>3 DEF FilesOf
<1>8. FileInv'
  <2>1. ASSUME NEW o \in Job \ {j} PROVE FilesOf(o)'
    <3>1. \A p \in Path : OnlyWriter(o, p) => files'[p] = files[p]
      BY <1>1, <1>2, <1>4, TargetIsOnes
    <3> QED BY <1>1, <1>2, <1>4, <3>1, OthersKeepFiles DEF IInv, FileInv
  <2> QED BY <1>7, <2>1 DEF FileInv
<1>9. OrderInv'
  BY <1>1, <1>2, <1>4, OrderKept DEF IInv, InDump
<1> QED
  BY <1>6, <1>8, <1>9 DEF IInv

LEMMA WriteBlockInv ==
  ASSUME IInv, UNCHANGED Options, NEW j \in Job, WriteBlock(j)
  PROVE  IInv'
<1> DEFINE p0 == Target(j)
           at0 == offset[j] + 1
           whole == Content(Form(j), doc[j])
           new == Put(files[p0], at0, whole[at0])
<1>1. /\ Writing(j) /\ offset[j] < Blocks(Form(j))
      /\ offset' = [offset EXCEPT ![j] = at0]
      /\ files' = [files EXCEPT ![p0] = new]
      /\ pc' = pc /\ doc' = doc /\ troubles' = troubles
  BY DEF WriteBlock
<1>2. TypeInv
  BY DEF IInv
<1>3. p0 \in Path
  BY <1>1, <1>2, OptionFacts DEF Target, InDump, Writing, TypeInv
<1>4. /\ \A o \in Job \ {j} : offset'[o] = offset[o]
      /\ offset'[j] = at0
      /\ files'[p0] = new
      /\ \A p \in Path \ {p0} : files'[p] = files[p]
  BY <1>1, <1>2, <1>3 DEF TypeInv
<1>5. /\ offset[j] \in 0 .. 3 /\ Blocks(Form(j)) \in {2, 3}
      /\ at0 \in 1 .. Blocks(Form(j))
      /\ whole[at0] \in Block
      /\ files[p0] \in Seq(Block \cup {Hole})
  <2>1. /\ Blocks(Form(j)) \in {2, 3} /\ offset[j] \in 0 .. 3
        /\ whole \in Seq(Block) /\ Len(whole) = Blocks(Form(j))
    BY <1>2, OptionFacts, ContentFacts
  <2>2. at0 \in 1 .. Blocks(Form(j))
    BY <1>1, <2>1
  <2> HIDE DEF whole, at0
  <2>3. whole[at0] \in Block
    BY <2>1, <2>2
  <2> QED BY <1>2, <1>3, <2>1, <2>2, <2>3 DEF TypeInv
<1>6. /\ new \in Seq(Block \cup {Hole})
      /\ Len(files[p0]) = offset[j] =>
           /\ Len(new) = at0 /\ new[at0] = whole[at0]
           /\ \A i \in 1 .. offset[j] : new[i] = files[p0][i]
  <2>1. at0 \in Nat \ {0} /\ whole[at0] \in Block /\ at0 - 1 = offset[j]
    BY <1>5
  <2>2. offset[j] = at0 - 1
    BY <1>5
  <2>3. files[p0] \in Seq(Block \cup {Hole})
    BY <1>5
  <2> HIDE DEF at0, whole, p0
  <2>4. /\ Put(files[p0], at0, whole[at0]) \in Seq(Block \cup {Hole})
        /\ Len(files[p0]) = at0 - 1 =>
             /\ Len(Put(files[p0], at0, whole[at0])) = at0
             /\ Put(files[p0], at0, whole[at0])[at0] = whole[at0]
             /\ \A i \in 1 .. at0 - 1 : Put(files[p0], at0, whole[at0])[i] = files[p0][i]
    BY <2>1, <2>3, PutFacts
  <2> QED BY <2>2, <2>4
<1>7. \A o \in Job : Target(o)' = Target(o) /\ Form(o)' = Form(o) /\ (Writing(o)' <=> Writing(o))
  BY <1>1 DEF Target, Form, InDump, Writing
<1> HIDE DEF new
<1>8. TypeInv'
  <2>1. files' \in [Path -> Seq(Block \cup {Hole})]
    BY <1>1, <1>2, <1>6 DEF TypeInv
  <2>2. offset' \in [Job -> 0 .. 3]
    BY <1>1, <1>2, <1>5 DEF TypeInv
  <2>3. \A o \in Job : Writing(o)' => offset'[o] <= Blocks(Form(o)')
    BY <1>2, <1>4, <1>5, <1>7 DEF TypeInv
  <2> QED BY <1>1, <1>2, <2>1, <2>2, <2>3 DEF TypeInv
<1>9. FilesOf(j)'
  <2>1. OpenIsPrefix(j)'
    <3>1. ASSUME OnlyWriter(j, p0)
          PROVE  Len(new) = at0 /\ \A i \in 1 .. at0 : new[i] = whole[i]
      <4>1. Len(files[p0]) = offset[j] /\ \A i \in 1 .. offset[j] : files[p0][i] = whole[i]
        BY <1>1, <3>1 DEF IInv, FileInv, FilesOf, OpenIsPrefix, Begins
      <4> HIDE DEF whole, p0
      <4> QED BY <1>5, <1>6, <4>1
    <3>2. OnlyWriter(j, Target(j))' => OnlyWriter(j, p0)
      BY <1>1 DEF OnlyWriter, WrittenBy, Target, InDump
    <3>3. /\ Target(j)' = p0 /\ offset'[j] = at0 /\ files'[p0] = new
          /\ Content(Form(j), doc[j])' = whole
      BY <1>1, <1>4, <1>7 DEF Form, InDump
    <3>4. OnlyWriter(j, p0) => Begins(Target(j), Form(j), doc[j], offset[j])'
      BY <3>1, <3>3 DEF Begins
    <3> QED BY <3>2, <3>4 DEF OpenIsPrefix
  <2>2. OutputIsWhole(j)'
    BY <1>1 DEF OutputIsWhole, Writing
  <2>3. DumpIsWhole(j)'
    <3>1. ASSUME pc[j] = "writing", OnlyWriter(j, Options[j].dump),
                 Options[j].dump # Options[j].out, Options[j].dump # NoPath
          PROVE  files'[Options[j].dump] = Content("yaml", doc[j])
      <4>1. files[Options[j].dump] = Content("yaml", doc[j])
        BY <3>1 DEF IInv, FileInv, FilesOf, DumpIsWhole
      <4>2. Options[j].dump \in Path \ {p0}
        BY <1>2, <3>1, OptionFacts DEF Target, InDump
      <4> QED BY <1>4, <4>1, <4>2
    <3> QED BY <1>1, <3>1 DEF DumpIsWhole, OnlyWriter, WrittenBy, Writing
  <2> QED BY <2>1, <2>2, <2>3 DEF FilesOf
<1>10. FileInv'
  <2>1. ASSUME NEW o \in Job \ {j} PROVE FilesOf(o)'
    <3>1. p0 # NoPath
      BY <1>3, CommandAssumption
    <3>2. \A p \in Path : OnlyWriter(o, p) => files'[p] = files[p]
      BY <1>2, <1>4, <3>1, TargetIsOnes
    <3> QED BY <1>1, <1>2, <1>4, <3>2, OthersKeepFiles DEF IInv, FileInv
  <2> QED BY <1>9, <2>1 DEF FileInv
<1>11. OrderInv'
  BY <1>1, <1>2, OrderKept DEF IInv
<1> QED
  BY <1>8, <1>10, <1>11 DEF IInv

LEMMA EditInv ==
  ASSUME IInv, UNCHANGED Options, NEW p \in Path, Edit(p)
  PROVE  IInv'
<1>1. /\ p \in DOMAIN Sources /\ pc' = pc /\ doc' = doc /\ offset' = offset
      /\ troubles' = troubles
  BY DEF Edit, vars
<1>2. PICK d \in Documents : files' = [files EXCEPT ![p] = Content("authoring", d)]
  BY DEF Edit
<1>3. TypeInv
  BY DEF IInv
<1>4. TypeInv'
  <2>1. Content("authoring", d) \in Seq(Block \cup {Hole})
    BY ContentFacts, CommandAssumption
  <2>2. files' \in [Path -> Seq(Block \cup {Hole})]
    BY <1>2, <1>3, <2>1 DEF TypeInv
  <2> QED BY <1>1, <1>3, <2>2 DEF TypeInv, Writing, Form, InDump
<1>5. FileInv'
  <2>1. ASSUME NEW o \in Job PROVE FilesOf(o)'
    <3>1. \A x \in Path : OnlyWriter(o, x) => files'[x] = files[x]
      BY <1>1, <1>2, <1>3 DEF TypeInv, OnlyWriter
    <3> QED BY <1>1, <1>3, <3>1, OthersKeepFiles DEF IInv, FileInv
  <2> QED BY <2>1 DEF FileInv
<1>6. OrderInv'
  BY <1>1, <1>3, OrderKept DEF IInv
<1> QED
  BY <1>4, <1>5, <1>6 DEF IInv
-----------------------------------------------------------------------------
(* The theorems                                                            *)

LEMMA NextInv == IInv /\ [Next]_vars => IInv'
<1> SUFFICES ASSUME IInv, [Next]_vars PROVE IInv'
  OBVIOUS
<1>1. ASSUME UNCHANGED Options, NEW j \in Job, Step(j) PROVE IInv'
  <2>1. troubles \in 0 .. MaxTroubles /\ pc[j] \in Labels
    BY OptionFacts DEF IInv, TypeInv
  <2>2. CASE Load(j)
    BY <1>1, <2>2, LoadInv
  <2>3. CASE FailToLoad(j) \/ FailToCompile(j) \/ RunAgain(j)
    <3>1. \E label \in {"ready", "failed"} : GoTo(j, label)
      BY <2>3 DEF FailToLoad, FailToCompile, RunAgain
    <3>2. /\ UNCHANGED files /\ UNCHANGED doc /\ UNCHANGED offset /\ troubles' = troubles
          /\ pc[j] # "ok"
      BY <2>3 DEF FailToLoad, FailToCompile, RunAgain, Ready
    <3> QED BY <1>1, <2>1, <3>1, <3>2, MoveInv
  <2>4. CASE FailToWrite(j) \/ Kill(j)
    <3>1. /\ GoTo(j, "failed") /\ Trouble /\ pc[j] # "ok"
          /\ UNCHANGED files /\ UNCHANGED doc /\ UNCHANGED offset
      BY <2>4 DEF FailToWrite, Kill
    <3>2. troubles' \in 0 .. MaxTroubles
      BY <2>1, <3>1, CommandAssumption DEF Trouble
    <3> QED BY <1>1, <3>1, <3>2, MoveInv
  <2>5. CASE Compile(j)
    <3>1. /\ GoTo(j, "write") /\ pc[j] = "compile"
          /\ Marshals(j) \/ doc[j] \in Compiles \cup {Fragment}
          /\ UNCHANGED files /\ UNCHANGED doc /\ UNCHANGED offset /\ troubles' = troubles
      BY <2>5 DEF Compile
    <3> QED BY <1>1, <2>1, <3>1, MoveInv
  <2>6. CASE ToStdout(j)
    <3>1. /\ GoTo(j, "ok") /\ pc[j] = "write" /\ Options[j].out = NoPath
          /\ UNCHANGED files /\ UNCHANGED doc /\ UNCHANGED offset /\ troubles' = troubles
      BY <2>6 DEF ToStdout
    <3> QED BY <1>1, <2>1, <3>1, MoveInv
  <2>7. CASE Close(j)
    <3>1. /\ GoTo(j, IF InDump(j) THEN "compile" ELSE "ok")
          /\ UNCHANGED files /\ UNCHANGED doc /\ UNCHANGED offset /\ troubles' = troubles
      BY <2>7 DEF Close
    <3> QED BY <1>1, <2>1, <2>7, <3>1, MoveInv
  <2>8. CASE Open(j)
    BY <1>1, <2>8, OpenInv
  <2>9. CASE WriteBlock(j)
    BY <1>1, <2>9, WriteBlockInv
  <2> QED BY <1>1, <2>2, <2>3, <2>4, <2>5, <2>6, <2>7, <2>8, <2>9 DEF Step
<1>2. ASSUME UNCHANGED Options, NEW p \in Path, Edit(p) PROVE IInv'
  BY <1>2, EditInv
<1>3. CASE UNCHANGED vars
  <2>1. /\ Options' = Options /\ files' = files /\ pc' = pc /\ doc' = doc
        /\ offset' = offset /\ troubles' = troubles
    BY <1>3 DEF vars
  <2>2. TypeInv
    BY DEF IInv
  <2>3. TypeInv'
    BY <2>1, <2>2 DEF TypeInv, Writing, Form, InDump
  <2>4. FileInv'
    BY <2>1, <2>2, OthersKeepFiles DEF IInv, FileInv
  <2>5. OrderInv'
    BY <2>1, <2>2, OrderKept DEF IInv
  <2> QED BY <2>3, <2>4, <2>5 DEF IInv
<1> QED
  BY <1>1, <1>2, <1>3 DEF Next

LEMMA InitInv == Init => IInv
<1> SUFFICES ASSUME Init PROVE IInv
  OBVIOUS
<1>1. \A j \in Job : pc[j] = "ready"
  BY DEF Init
<1>2. files \in [Path -> Seq(Block \cup {Hole})]
  <2>1. Absent \in Seq(Block \cup {Hole})
    BY DEF Absent
  <2> QED BY <2>1, CommandAssumption DEF Init
<1>3. TypeInv
  BY <1>1, <1>2, CommandAssumption DEF Init, TypeInv, Labels, Writing
<1>4. FileInv
  BY <1>1 DEF FileInv, FilesOf, OpenIsPrefix, DumpIsWhole, OutputIsWhole, Writing
<1>5. OrderInv
  BY <1>1 DEF OrderInv, OnlyAccepted, PredecessorsAreDone, ChainKeepsDocument
<1> QED
  BY <1>3, <1>4, <1>5 DEF IInv

LEMMA SpecInv == Spec => []IInv
BY InitInv, NextInv, PTL DEF Spec

(* The commands and the files keep their types: TypeOK.                    *)
THEOREM CommandTypeCorrect == Spec => []TypeOK
<1>1. IInv => TypeOK
  BY DEF IInv, TypeInv, TypeOK, Labels
<1> QED
  BY <1>1, SpecInv, PTL

(* Whatever was killed or failed before, a command that succeeds has left  *)
(* its whole output and dump: SuccessIsWhole.                              *)
THEOREM SuccessLeavesWholeFiles == Spec => []SuccessIsWhole
<1>1. IInv => SuccessIsWhole
  BY DEF IInv, FileInv, FilesOf, DumpIsWhole, OutputIsWhole, SuccessIsWhole
<1> QED
  BY <1>1, SpecInv, PTL

(* A command works on the document of the one it comes after:              *)
(* ChainKeepsDocument.                                                     *)
THEOREM ChainsKeepDocuments == Spec => []ChainKeepsDocument
<1>1. IInv => ChainKeepsDocument
  BY DEF IInv, OrderInv
<1> QED
  BY <1>1, SpecInv, PTL

(* A document that does not compile leaves every output file as it was:    *)
(* FailureLeavesOutput.                                                    *)
THEOREM FailuresLeaveOutput == Spec => FailureLeavesOutput
<1>1. IInv /\ [Next]_vars =>
        [\A p \in Path \ DOMAIN Sources : files'[p] # files[p] =>
           \E j \in Job : \/ p = Options[j].dump
                          \/ p = Options[j].out /\ (Marshals(j) \/ doc[j] \in Compiles \cup {Fragment})]_vars
  <2> SUFFICES ASSUME IInv, Next, NEW p \in Path \ DOMAIN Sources, files'[p] # files[p]
               PROVE  \E j \in Job : \/ p = Options[j].dump
                                      \/ /\ p = Options[j].out
                                         /\ Marshals(j) \/ doc[j] \in Compiles \cup {Fragment}
    OBVIOUS
  <2>1. TypeInv
    BY DEF IInv
  <2>2. ~ \E x \in Path : Edit(x)
    BY <2>1 DEF TypeInv, Edit
  <2>3. PICK j \in Job : Step(j)
    BY <2>2 DEF Next
  <2>4. Open(j) \/ WriteBlock(j)
    BY <2>3 DEF Step, Load, FailToLoad, Compile, FailToCompile, ToStdout, Close, FailToWrite,
                Kill, RunAgain
  <2>5. p = Target(j) /\ pc[j] \in {"dump", "dumping", "write", "writing"}
    <3>1. p = Target(j)
      BY <2>1, <2>4 DEF TypeInv, Open, WriteBlock
    <3>2. pc[j] \in {"dump", "dumping", "write", "writing"}
      BY <2>4 DEF Open, WriteBlock, Writing
    <3> QED BY <3>1, <3>2
  <2>6. CASE InDump(j)
    BY <2>5, <2>6 DEF Target
  <2>7. CASE ~ InDump(j)
    <3>1. pc[j] \in {"write", "writing"}
      BY <2>5, <2>7 DEF InDump
    <3> QED BY <2>5, <2>7, <3>1 DEF Target, IInv, OrderInv, OnlyAccepted
  <2> QED BY <2>6, <2>7
<1> QED
  BY <1>1, SpecInv, PTL DEF Spec, FailureLeavesOutput
=============================================================================
