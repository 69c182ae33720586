------------------------------- MODULE Commands -------------------------------
(***************************************************************************)
(* The commands of ffcompile and ffcodegen on a file system: build,        *)
(* compile, normalize and go.  Each reads its input, loads it, writes the  *)
(* dump if it was asked for one, compiles, and writes its output.  Several *)
(* run at once or after one another, as a Makefile has them; a command may *)
(* be killed between any two steps, a write may fail half-way, and a       *)
(* command that did not succeed may be run again.                          *)
(*                                                                         *)
(* os.WriteFile truncates the file and then writes it, here in two blocks  *)
(* (three of YAML, the longest form), at the writer's own offset.  A block *)
(* says what it was made from.                                             *)
(***************************************************************************)
EXTENDS Integers, Sequences

CONSTANTS
  Job,          \* the commands of a build
  Makefiles,    \* Job -> [in, reads, out, makes, dump, after]
  Path,
  NoPath,       \* no dump; the output goes to stdout
  Forms,        \* the file formats
  Documents,    \* what an author may write
  Loads,        \* the documents that normalize and validate
  Compiles,     \* those the target of the build can express
  Fragment,     \* a document a torn file happens to parse as
  Sources,      \* the files there are in the beginning
  MaxTroubles   \* bound: kills and failing writes

Blocks(form) == IF form = "yaml" THEN 3 ELSE 2
Block == [form : Forms, doc : Documents \cup {Fragment}, part : 1 .. 3]
Hole == [form |-> "hole", doc |-> Fragment, part |-> 0]
Content(form, doc) == [i \in 1 .. Blocks(form) |-> [form |-> form, doc |-> doc, part |-> i]]
Absent == <<Hole>>

ASSUME CommandAssumption ==
  /\ {"authoring", "yaml"} \subseteq Forms /\ "hole" \notin Forms
  /\ Fragment \notin Documents
  /\ Compiles \subseteq Loads /\ Loads \subseteq Documents
  /\ NoPath \notin Path
  /\ \A p \in DOMAIN Sources : Sources[p] \in Seq(Block \cup {Hole})
  /\ MaxTroubles \in Nat
  /\ \A m \in Makefiles, j \in Job :
       /\ m[j].in \in Path /\ m[j].makes \in Forms
       /\ {m[j].out, m[j].dump} \subseteq Path \cup {NoPath}
       /\ m[j].after \subseteq Job

VARIABLES
  Options,   \* Job -> the options of the command; they never change
  files,     \* Path -> the blocks of the file
  pc,        \* Job -> where the command is
  doc,       \* Job -> the document it loaded
  offset,    \* Job -> blocks written to the file it has open
  troubles   \* kills and failing writes so far

vars == <<Options, files, pc, doc, offset, troubles>>

Init ==
  /\ Options \in Makefiles
  /\ files = [p \in Path |-> IF p \in DOMAIN Sources THEN Sources[p] ELSE Absent]
  /\ pc = [j \in Job |-> "ready"]
  /\ doc = [j \in Job |-> Fragment]
  /\ offset = [j \in Job |-> 0]
  /\ troubles = 0

GoTo(j, label) == pc' = [pc EXCEPT ![j] = label]

(* What the loaders may make of a file: a whole one of another format is   *)
(* an error, one that is torn or missing may be anything.                  *)
Whole(content) == \E f \in Forms, d \in Documents \cup {Fragment} : content = Content(f, d)
Parses(content, form) ==
  IF content = Absent THEN {}
  ELSE IF Whole(content)
       THEN {d \in Documents \cup {Fragment} : content = Content(form, d)}
       ELSE {Fragment}

(* The documents a load of the file may return; none is an error.          *)
Loaded(j) ==
  Parses(files[Options[j].in], Options[j].reads) \cap (Loads \cup {Fragment})

Ready(j) ==
  /\ pc[j] = "ready"
  /\ \A o \in Options[j].after : pc[o] = "ok"

Load(j) ==
  /\ Ready(j)
  /\ \E d \in Loaded(j) : doc' = [doc EXCEPT ![j] = d]
  /\ GoTo(j, IF Options[j].dump = NoPath THEN "compile" ELSE "dump")
  /\ UNCHANGED <<files, offset, troubles>>

(* Mutant of FailToLoad: goes on with a nil document.                      *)
LoadNothing(j) ==
  /\ Ready(j)
  /\ Loaded(j) \subseteq {Fragment}
  /\ doc' = [doc EXCEPT ![j] = NoPath]
  /\ GoTo(j, "compile")
  /\ UNCHANGED <<files, offset, troubles>>

FailToLoad(j) ==
  /\ Ready(j)
  /\ Loaded(j) \subseteq {Fragment}
  /\ GoTo(j, "failed")
  /\ UNCHANGED <<files, doc, offset, troubles>>

(* CompileIR.  normalize only marshals, which succeeds.                    *)
Marshals(j) == Options[j].makes \in {"yaml", "protobuf"}

(* Mutant of Compile: the output is written before the verdict is known.   *)
CompileLate(j) ==
  /\ pc[j] = "compile"
  /\ GoTo(j, "write")
  /\ UNCHANGED <<files, doc, offset, troubles>>

Compile(j) ==
  /\ pc[j] = "compile"
  /\ Marshals(j) \/ doc[j] \in Compiles \cup {Fragment}
  /\ GoTo(j, "write")
  /\ UNCHANGED <<files, doc, offset, troubles>>

FailToCompile(j) ==
  /\ pc[j] = "compile"
  /\ ~ Marshals(j) /\ doc[j] \notin Compiles
  /\ GoTo(j, "failed")
  /\ UNCHANGED <<files, doc, offset, troubles>>

ToStdout(j) ==
  /\ pc[j] = "write"
  /\ Options[j].out = NoPath
  /\ GoTo(j, "ok")
  /\ UNCHANGED <<files, doc, offset, troubles>>

(* The file a command writes next, or has open, and in which format.       *)
InDump(j) == pc[j] \in {"dump", "dumping"}
Target(j) == IF InDump(j) THEN Options[j].dump ELSE Options[j].out
Form(j) == IF InDump(j) THEN "yaml" ELSE Options[j].makes

(* Mutant of Open: the file is not truncated.                              *)
OpenOver(j) ==
  /\ pc[j] \in {"dump", "write"}
  /\ Target(j) # NoPath
  /\ files' = IF files[Target(j)] = Absent THEN [files EXCEPT ![Target(j)] = <<>>] ELSE files
  /\ offset' = [offset EXCEPT ![j] = 0]
  /\ GoTo(j, IF InDump(j) THEN "dumping" ELSE "writing")
  /\ UNCHANGED <<doc, troubles>>

Open(j) ==
  /\ pc[j] \in {"dump", "write"}
  /\ Target(j) # NoPath
  /\ files' = [files EXCEPT ![Target(j)] = <<>>]
  /\ offset' = [offset EXCEPT ![j] = 0]
  /\ GoTo(j, IF InDump(j) THEN "dumping" ELSE "writing")
  /\ UNCHANGED <<doc, troubles>>

Writing(j) == pc[j] \in {"dumping", "writing"}

(* Writing at an offset leaves a hole if the file was truncated since.     *)
Put(content, at, block) ==
  [i \in 1 .. (IF at > Len(content) THEN at ELSE Len(content)) |->
     IF i = at THEN block ELSE IF i <= Len(content) THEN content[i] ELSE Hole]

WriteBlock(j) ==
  /\ Writing(j)
  /\ offset[j] < Blocks(Form(j))
  /\ offset' = [offset EXCEPT ![j] = @ + 1]
  /\ files' = [files EXCEPT ![Target(j)] =
                 Put(@, offset[j] + 1, Content(Form(j), doc[j])[offset[j] + 1])]
  /\ UNCHANGED <<pc, doc, troubles>>

Close(j) ==
  /\ Writing(j)
  /\ offset[j] = Blocks(Form(j))
  /\ GoTo(j, IF InDump(j) THEN "compile" ELSE "ok")
  /\ UNCHANGED <<files, doc, offset, troubles>>

Trouble == troubles < MaxTroubles /\ troubles' = troubles + 1

(* Mutant of FailToWrite: the error is dropped.                            *)
IgnoreWriteError(j) ==
  /\ pc[j] \in {"dump", "dumping", "write", "writing"}
  /\ Trouble
  /\ GoTo(j, IF InDump(j) THEN "compile" ELSE "ok")
  /\ UNCHANGED <<files, doc, offset>>

(* The file cannot be opened, or the disk is full half-way.                *)
FailToWrite(j) ==
  /\ pc[j] \in {"dump", "dumping", "write", "writing"}
  /\ Trouble
  /\ GoTo(j, "failed")
  /\ UNCHANGED <<files, doc, offset>>

Kill(j) ==
  /\ pc[j] \notin {"ready", "failed", "ok"}
  /\ Trouble
  /\ GoTo(j, "failed")
  /\ UNCHANGED <<files, doc, offset>>

RunAgain(j) ==
  /\ pc[j] = "failed"
  /\ GoTo(j, "ready")
  /\ UNCHANGED <<files, doc, offset, troubles>>

(* An author saves another document at a source path.                      *)
Edit(p) ==
  /\ p \in DOMAIN Sources
  /\ \E d \in Documents : files' = [files EXCEPT ![p] = Content("authoring", d)]
  /\ UNCHANGED <<pc, doc, offset, troubles>>

Step(j) ==
  \/ Load(j) \/ FailToLoad(j)
  \/ Compile(j) \/ FailToCompile(j)
  \/ ToStdout(j) \/ Open(j) \/ WriteBlock(j) \/ Close(j) \/ FailToWrite(j)
  \/ Kill(j) \/ RunAgain(j)

Next == UNCHANGED Options /\ ((\E j \in Job : Step(j)) \/ (\E p \in Path : Edit(p)))

Spec == Init /\ [][Next]_vars

-----------------------------------------------------------------------------
(* Properties                                                              *)

TypeOK ==
  /\ Options \in Makefiles
  /\ files \in [Path -> Seq(Block \cup {Hole})]
  /\ pc \in [Job -> {"ready", "dump", "dumping", "compile", "write", "writing", "ok", "failed"}]
  /\ doc \in [Job -> Documents \cup {Fragment}]
  /\ offset \in [Job -> 0 .. 3]
  /\ troubles \in 0 .. MaxTroubles

WrittenBy(j) == {Options[j].out, Options[j].dump} \ {NoPath}
OnlyWriter(j, p) ==
  /\ p \notin DOMAIN Sources
  /\ \A o \in Job \ {j} : p \notin WrittenBy(o)

(* A command that succeeded has left its whole output, of the document it  *)
(* loaded, and its whole dump of the same document: after any number of    *)
(* runs that were killed or ran out of disk, on top of whatever they left, *)
(* and also when the dump and the output are one path.                     *)
SuccessIsWhole ==
  \A j \in Job : pc[j] = "ok" =>
    /\ OnlyWriter(j, Options[j].out)
         => Options[j].out = NoPath \/ files[Options[j].out] = Content(Options[j].makes, doc[j])
    /\ OnlyWriter(j, Options[j].dump) /\ Options[j].dump # Options[j].out
         => Options[j].dump = NoPath \/ files[Options[j].dump] = Content("yaml", doc[j])

(* In a chain, normalize and then compile, the second command works on     *)
(* the very document the first one loaded, never on a torn file, whatever  *)
(* failed before and however the source was edited in between.             *)
ChainKeepsDocument ==
  \A j \in Job : pc[j] \notin {"ready", "failed"} =>
    \A o \in Options[j].after :
      Options[j].in = Options[o].out /\ OnlyWriter(o, Options[o].out) => doc[j] = doc[o]

(* docs/authoring-format.md: a document the target cannot express returns  *)
(* its error "without emitting configuration".  A file other than a source *)
(* or a dump is only touched, truncated even, for a document the target    *)
(* takes; the configuration of the last good build stays in place.         *)
FailureLeavesOutput ==
  [][\A p \in Path \ DOMAIN Sources : files'[p] # files[p] =>
       \E j \in Job : \/ p = Options[j].dump
                      \/ p = Options[j].out /\ (Marshals(j) \/ doc[j] \in Compiles \cup {Fragment})]_vars
=============================================================================
