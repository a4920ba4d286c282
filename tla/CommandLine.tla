----------------------------- MODULE CommandLine -----------------------------
(***************************************************************************)
(* How `cnftctl` reads its command line (src/internal/cli) and decides what *)
(* the service is asked to do, one argument at a time.                      *)
(*                                                                         *)
(* An argument is a record: a word; a flag with the text after its "=" (the *)
(* empty string when there is none, or nothing after it); or "--".  A flag   *)
(* is named as it was written, by its long or its short name.               *)
(*                                                                         *)
(*   args         the arguments                                            *)
(*   next         position of the next one                                 *)
(*   path         words that named a command and its subcommands           *)
(*   flags        values given to each flag, in order                      *)
(*   positionals  the other words                                          *)
(*   outcome      "parsing", then "help", "version", "run" or "error"       *)
(***************************************************************************)
EXTENDS Naturals, Sequences, FiniteSets

CONSTANT Inputs   \* the command lines considered

Argument == [kind : {"word", "flag", "dashes"}, name : STRING, value : STRING]

ASSUME InputsAssumption == Inputs \subseteq Seq(Argument)

VARIABLES args, next, path, flags, positionals, outcome

lineVars == <<args, next, path, flags, positionals, outcome>>

-----------------------------------------------------------------------------
(* The command tree.                                                         *)

Leaf(min, max, own) == [min |-> min, max |-> max, flags |-> own]

Leaves ==
  LET plain == {<<"status">>, <<"validate">>, <<"plan">>, <<"reconcile">>, <<"doctor">>,
                <<"config", "show">>, <<"transactions", "list">>, <<"ports", "list">>,
                <<"whitelist", "list">>, <<"ddns", "enable">>, <<"ddns", "disable">>,
                <<"ddns", "refresh">>, <<"ddns", "status">>, <<"ddns", "timer", "status">>,
                <<"ssh-harden", "open">>}
      hard == {<<"ssh-harden", "whitelist-only">>,
               <<"ssh-harden", "whitelist-rate-limit">>}
      one == {<<"ddns", "add">>, <<"ddns", "set-ipv6-prefix-len">>,
              <<"preset", "decode">>, <<"preset", "validate">>,
              <<"preset", "explain">>}
      strict == {<<"whitelist", "remove">>, <<"ddns", "remove">>}
      feature == {<<"feature", "enable">>, <<"feature", "disable">>}
      optional == {<<"confirm">>, <<"rollback">>}
      docker == {<<"docker", "status">>, <<"docker", "backend", "plan">>}
      others == {<<"init">>, <<"apply">>, <<"open">>, <<"close">>, <<"whitelist", "add">>,
                 <<"adopt", "reference">>, <<"docker", "backend", "write">>}
  IN [p \in plain \cup hard \cup one \cup strict \cup feature \cup optional \cup docker
            \cup others |->
        CASE p \in plain -> Leaf(0, 0, {})
          [] p \in hard -> Leaf(0, 0, {"force"})
          [] p \in one -> Leaf(1, 1, {})
          [] p \in strict -> Leaf(1, 1, {"strict"})
          [] p \in feature -> Leaf(1, 1, {"interface"})
          [] p \in optional -> Leaf(0, 1, {})
          [] p \in docker -> Leaf(0, 0, {"daemon-json"})
          [] p = <<"init">> ->
               Leaf(0, 0, {"dry-run", "wan-interface", "enable-docker", "trust-interface",
                           "enable-ddns-whitelist", "preset", "preset-file", "yes"})
          [] p = <<"apply">> ->
               Leaf(0, 0, {"dry-run", "acknowledge-ssh-lockout-risk", "reason"})
          [] p = <<"open">> -> Leaf(2, 2, {"comment"})
          [] p = <<"close">> -> Leaf(2, 2, {"strict"})
          [] p = <<"whitelist", "add">> -> Leaf(1, 1, {"comment"})
          [] p = <<"adopt", "reference">> -> Leaf(0, 0, {"dry-run", "yes"})
          [] p = <<"docker", "backend", "write">> -> Leaf(0, 0, {"daemon-json", "yes"})]

IsLeaf(p) == p \in DOMAIN Leaves
\* A command: a leaf or one of the groups above it, the empty path being root.
IsCommand(p) == \E l \in DOMAIN Leaves : Len(p) <= Len(l) /\ SubSeq(l, 1, Len(p)) = p

RootFlags == {"help", "version", "config", "root", "output", "detail"}
Bool == {"help", "version", "detail", "dry-run", "enable-docker",
         "enable-ddns-whitelist", "yes", "acknowledge-ssh-lockout-risk",
         "strict", "force"}
Repeat == {"trust-interface", "interface"}
Exclusive == {"preset", "preset-file"}
Long(name) ==
  CASE name = "h" -> "help" [] name = "y" -> "yes" [] name = "i" -> "interface"
    [] OTHER -> name

\* collectFlags: the root's and the current command's, groups having none.
Known(p) == RootFlags \cup (IF IsLeaf(p) THEN Leaves[p].flags ELSE {})
FlagNames == RootFlags \cup UNION {Leaves[p].flags : p \in DOMAIN Leaves}

Reporting == {<<"status">>, <<"doctor">>, <<"validate">>, <<"plan">>,
              <<"transactions", "list">>, <<"ddns", "status">>}

-----------------------------------------------------------------------------
(* Reading one argument.                                                     *)

Arg == args[next]
Given(name) == flags[name] # << >>
Fail == outcome' = "error" /\ UNCHANGED <<args, next, path, flags, positionals>>

\* parseFlag: a flag without a value takes the next argument, be it a word the
\* user meant otherwise, unless that looks like a flag, as the word "-" does.
Separate ==
  next < Len(args) /\ args[next + 1].kind = "word" /\ args[next + 1].name # "-"
\* The flag's value and the arguments it takes; empty when it is an error.
Values ==
  CASE Long(Arg.name) \in Bool ->
         IF Arg.value \in {"", "true"} THEN {<<"true", 1>>}
         ELSE IF Arg.value = "false" THEN {<<"false", 1>>} ELSE {}
    [] Long(Arg.name) \notin Bool /\ Arg.value # "" -> {<<Arg.value, 1>>}
    [] OTHER -> IF Separate THEN {<<args[next + 1].name, 2>>} ELSE {}

\* Mutation: the last of several values wins.
FlagReplaced ==
  LET name == Long(Arg.name)
  IN /\ name \in Known(path)
     /\ \E v \in Values :
          /\ flags' = [flags EXCEPT ![name] = <<v[1]>>] /\ next' = next + v[2]
     /\ UNCHANGED <<args, path, positionals, outcome>>
FlagAccepted ==
  LET name == Long(Arg.name)
  IN /\ name \in Known(path)
     /\ name \in Repeat \/ ~Given(name)
     /\ \E v \in Values :
          /\ flags' = [flags EXCEPT ![name] = Append(@, v[1])]
          /\ next' = next + v[2]
     /\ UNCHANGED <<args, path, positionals, outcome>>

FlagRefused ==
  LET name == Long(Arg.name)
  IN (name \notin Known(path) \/ Values = {} \/ (name \notin Repeat /\ Given(name)))
     /\ Fail

\* A word names a subcommand of the command so far, or is an argument for the
\* one the whole line turns out to name.
Word ==
  LET deeper == Append(path, Arg.name)
  IN /\ IF ~IsLeaf(path) /\ IsCommand(deeper)
        THEN path' = deeper /\ UNCHANGED positionals
        ELSE positionals' = Append(positionals, Arg) /\ UNCHANGED path
     /\ next' = next + 1 /\ UNCHANGED <<args, flags, outcome>>

\* Mutation: what follows "--" is dropped.
DashesDropping ==
  next' = Len(args) + 1 /\ UNCHANGED <<args, path, flags, positionals, outcome>>
\* "--": everything after it is positional.
Dashes ==
  /\ positionals' = positionals \o SubSeq(args, next + 1, Len(args))
  /\ next' = Len(args) + 1
  /\ UNCHANGED <<args, path, flags, outcome>>

ReadArgument ==
  /\ outcome = "parsing" /\ next <= Len(args)
  /\ \/ Arg.kind = "flag" /\ (FlagAccepted \/ FlagRefused)
     \/ Arg.kind = "word" /\ Word
     \/ Arg.kind = "dashes" /\ Dashes

-----------------------------------------------------------------------------
(* The end of the line.                                                      *)

Says(name, value) == flags[name] # << >> /\ flags[name][Len(flags[name])] = value
Help == Says("help", "true")
Version == Says("version", "true")

Arity ==
  Help \/ (IsLeaf(path) => /\ Leaves[path].min <= Len(positionals)
                           /\ Len(positionals) <= Leaves[path].max)
OneOfExclusive == Cardinality({f \in Exclusive : Given(f)}) <= 1
NoStrayWord == Help \/ IsLeaf(path) \/ positionals = << >>
ReportFlags == Help \/ path \in Reporting \/ ~(Given("output") \/ Given("detail"))

\* validateExecutionMode: an alternate root is only read.
Live == {<<"confirm">>, <<"rollback">>, <<"reconcile">>, <<"ddns", "refresh">>,
         <<"ddns", "timer", "status">>}
ExecutionMode ==
  Given("root") /\ ~Says("root", "") =>
    path \notin Live /\ (path = <<"apply">> => Says("dry-run", "true"))

Decide ==
  /\ outcome = "parsing" /\ next > Len(args)
  /\ outcome' =
       CASE Version -> IF path = << >> /\ positionals = << >> THEN "version" ELSE "error"
         [] ~Version /\ ~(Arity /\ OneOfExclusive /\ NoStrayWord /\ ReportFlags) -> "error"
         [] ~Version /\ Arity /\ OneOfExclusive /\ NoStrayWord /\ ReportFlags ->
              IF Help \/ ~IsLeaf(path) THEN "help"
              ELSE IF ExecutionMode THEN "run" ELSE "error"
  /\ flags' = IF Says("detail", "false") THEN [flags EXCEPT !["detail"] = << >>]
              ELSE flags
  /\ UNCHANGED <<args, next, path, positionals>>

\* Exit status of a line that reaches no handler (a handler has its own).
ExitsZero == outcome \in {"help", "version"}

Init ==
  /\ args \in Inputs /\ next = 1 /\ path = << >>
  /\ flags = [f \in FlagNames |-> << >>] /\ positionals = << >>
  /\ outcome = "parsing"

Next == ReadArgument \/ Decide

Spec == Init /\ [][Next]_lineVars

-----------------------------------------------------------------------------
(* What may be relied on.                                                    *)

\* The arguments that "--" has not made positional.
Options ==
  {i \in 1..Len(args) : args[i].kind = "flag"
     /\ \A j \in 1..(i - 1) : args[j].kind # "dashes"}
Spells(i, name, values) == Long(args[i].name) = name /\ args[i].value \in values

\* A command that runs has exactly the switches its line spells out: a preview
\* asked for anywhere on it is a preview, and nothing is confirmed, forced or
\* acknowledged by the value of another option or by an argument.
SwitchesAreSpelledOut ==
  outcome = "run" =>
    \A name \in Bool :
      Says(name, "true") <=> \E i \in Options : Spells(i, name, {"", "true"})

\* What the flags were given, one by one.
GivenValues == UNION {{<<f, k>> : k \in 1..Len(flags[f])} : f \in FlagNames}
\* The options whose value is the argument after them.
SeparateFlags == {i \in Options : args[i].value = "" /\ Long(args[i].name) \notin Bool}
\* The "--" that makes the rest positional.
FirstDashes ==
  {i \in 1..Len(args) : args[i].kind = "dashes"
     /\ \A j \in 1..(i - 1) : args[j].kind # "dashes"}
\* --detail=false, which is taken out of the flags at the end of the line.
DetailDenied == \E i \in Options : Spells(i, "detail", {"false"})

\* No argument is lost: each of those before "--" names a command, is an
\* argument of it, or belongs to one value of one flag.
EveryArgumentCounts ==
  outcome = "run" /\ ~DetailDenied =>
    Len(args) = Len(path) + Len(positionals) + Cardinality(GivenValues)
                + Cardinality(SeparateFlags) + Cardinality(FirstDashes)

\* Exit status 0 without a handler: only when help or the version was asked for.
SilenceIsAsked ==
  ExitsZero /\ args # << >> =>
    \E i \in Options : Spells(i, "help", {"", "true"}) \/ Spells(i, "version", {"", "true"})

-----------------------------------------------------------------------------
(* The inductive invariant behind the theorems of CommandLineProof.           *)

\* What a flag may be given; a switch is given one of the two words.
Text == STRING \cup {"true", "false"}

LineType ==
  /\ args \in Seq(Argument) /\ next \in 1..(Len(args) + 1)
  /\ flags \in [FlagNames -> Seq(Text)]
  /\ path \in Seq(STRING) /\ positionals \in Seq(Argument)
  /\ outcome \in {"parsing", "help", "version", "run", "error"}
  /\ outcome = "run" => next = Len(args) + 1

\* "--" ends the reading of options.
OnlyBeforeDashes ==
  next <= Len(args) => \A j \in 1..(next - 1) : args[j].kind # "dashes"

\* The arguments among S that were read.
ReadOf(S) == {i \in S : i < next}

\* What a switch says is what the flags read so far spell.
SwitchInv ==
  \A name \in Bool :
    /\ Says(name, "true") <=> \E i \in ReadOf(Options) : Spells(i, name, {"", "true"})
    /\ Says(name, "false") => \E i \in ReadOf(Options) : Spells(i, name, {"false"})

\* EveryArgumentCounts for the arguments read so far.
Accounted == Len(path) + Len(positionals) + Cardinality(GivenValues)
             + Cardinality(ReadOf(SeparateFlags)) + Cardinality(ReadOf(FirstDashes))

CountInv ==
  /\ IsFiniteSet(GivenValues)
  /\ ~DetailDenied => next - 1 = Accounted

LineInv == LineType /\ OnlyBeforeDashes /\ SwitchInv /\ CountInv
=============================================================================
