------------------------------ MODULE MCCommands ------------------------------
(* Makefiles: a build beside a chain of normalize and compile, and two     *)
(* commands whose dump and output meet.                                    *)
EXTENDS Commands

CONSTANTS build, normalize, compile, good, inexpressible, invalid,
          src, pb, json, out, dumped

Command(in, reads, makes, to, dump, after) ==
  [in |-> in, reads |-> reads, makes |-> makes, out |-> to, dump |-> dump, after |-> after]

BuildAndChain == [j \in Job |->
  CASE j = build -> Command(src, "authoring", "flagd", json, dumped, {})
    [] j = normalize -> Command(src, "authoring", "protobuf", pb, NoPath, {})
    [] j = compile -> Command(pb, "protobuf", "goff", out, NoPath, {normalize})]

(* The dump of the build goes where its output goes; the others print, and  *)
(* one of them is given a file of the wrong format.                        *)
OnePath == [j \in Job |->
  CASE j = build -> Command(src, "authoring", "go", json, json, {})
    [] j = normalize -> Command(src, "authoring", "yaml", NoPath, NoPath, {})
    [] j = compile -> Command(json, "protobuf", "flagd", NoPath, NoPath, {build})]

BothMakefiles == {BuildAndChain, OnePath}
AllForms == {"authoring", "protobuf", "yaml", "flagd", "goff", "go"}
OneSource == [p \in {src} |-> Content("authoring", good)]
=============================================================================
