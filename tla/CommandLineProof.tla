--------------------------- MODULE CommandLineProof ---------------------------
(***************************************************************************)
(* The command line for lines of any length: LineInv (CommandLine) is        *)
(* inductive, and what may be relied on follows from it.                     *)
(***************************************************************************)
EXTENDS CommandLine, FiniteSetTheorems, SequenceTheorems, TLAPS

-----------------------------------------------------------------------------
(* The flags *)

LEMMA LeafFlags ==
  /\ <<"init">> \in DOMAIN Leaves /\ {"dry-run", "enable-docker", "enable-ddns-whitelist", "yes"}
       \subseteq Leaves[<<"init">>].flags
  /\ <<"apply">> \in DOMAIN Leaves /\ "acknowledge-ssh-lockout-risk" \in Leaves[<<"apply">>].flags
  /\ <<"close">> \in DOMAIN Leaves /\ "strict" \in Leaves[<<"close">>].flags
  /\ <<"ssh-harden", "whitelist-only">> \in DOMAIN Leaves
       /\ "force" \in Leaves[<<"ssh-harden", "whitelist-only">>].flags
  BY DEF Leaves, Leaf

\* Every switch is a flag of some command.
LEMMA SwitchesAreFlags == Bool \subseteq FlagNames
  BY LeafFlags DEF Bool, FlagNames, RootFlags

LEMMA KnownFlags == \A p : Known(p) \subseteq FlagNames
  BY DEF Known, FlagNames, IsLeaf

\* What a flag is given: one of two words for a switch, and how many arguments
\* it takes.
LEMMA ValuesOf ==
  ASSUME LineType, next <= Len(args), Arg.kind = "flag", NEW v \in Values
  PROVE  /\ v[1] \in Text /\ v[2] \in {1, 2}
         /\ Long(Arg.name) \in Bool =>
              \/ v[1] = "true" /\ Arg.value \in {"", "true"}
              \/ v[1] = "false" /\ Arg.value = "false"
         /\ v[2] = 2 => Arg.value = "" /\ Long(Arg.name) \notin Bool
         /\ Arg.value = "" /\ Long(Arg.name) \notin Bool => v[2] = 2
         /\ v[2] = 2 => next < Len(args) /\ args[next + 1].kind = "word"
<1>1. Arg \in Argument /\ (next < Len(args) => args[next + 1] \in Argument)
  BY DEF LineType, Arg
<1>2. Arg.value \in Text /\ (next < Len(args) => args[next + 1].name \in Text)
  BY <1>1 DEF Argument, Text
<1>3. CASE Long(Arg.name) \in Bool
  <2>1. CASE v = <<"true", 1>> /\ Arg.value \in {"", "true"}
    <3>1. v[1] = "true" /\ v[2] = 1
      BY <2>1
    <3>2. v[1] \in Text /\ v[2] \in {1, 2} /\ v[2] # 2
      BY <3>1 DEF Text
    <3>3. QED
      BY <1>3, <2>1, <3>1, <3>2
  <2>2. CASE v = <<"false", 1>> /\ Arg.value = "false"
    <3>1. v[1] = "false" /\ v[2] = 1
      BY <2>2
    <3>2. v[1] \in Text /\ v[2] \in {1, 2} /\ v[2] # 2
      BY <3>1 DEF Text
    <3>3. QED
      BY <1>3, <2>2, <3>1, <3>2
  <2>3. QED
    BY <1>3, <2>1, <2>2 DEF Values
<1>4. CASE Long(Arg.name) \notin Bool /\ Arg.value # ""
  <2>1. v = <<Arg.value, 1>>
    BY <1>4 DEF Values
  <2>2. v[1] = Arg.value /\ v[2] = 1
    BY <2>1
  <2>3. v[1] \in Text /\ v[2] \in {1, 2} /\ v[2] # 2
    BY <1>2, <2>2
  <2>4. QED
    BY <1>4, <2>3
<1>5. CASE Long(Arg.name) \notin Bool /\ Arg.value = ""
  <2>1. v = <<args[next + 1].name, 2>> /\ Separate
    BY <1>5 DEF Values
  <2>2. v[1] = args[next + 1].name /\ v[2] = 2
    BY <2>1
  <2>3. next < Len(args) /\ args[next + 1].kind = "word"
    BY <2>1 DEF Separate
  <2>4. v[1] \in Text /\ v[2] \in {1, 2}
    BY <1>2, <2>2, <2>3
  <2>5. QED
    BY <1>5, <2>2, <2>3, <2>4
<1>6. QED
  BY <1>3, <1>4, <1>5

-----------------------------------------------------------------------------
(* What a step reads *)

\* The positions of options, of flags with a separate value and of the first "--"
\* are positions of the line, hence finitely many.
LEMMA PositionsFinite ==
  ASSUME LineType
  PROVE  /\ Len(args) \in Nat /\ next \in Nat
         /\ Options \subseteq 1..Len(args) /\ IsFiniteSet(Options)
         /\ SeparateFlags \subseteq Options /\ IsFiniteSet(SeparateFlags)
         /\ FirstDashes \subseteq 1..Len(args) /\ IsFiniteSet(FirstDashes)
<1>1. Len(args) \in Nat /\ next \in Nat
  BY DEF LineType
<1>2. IsFiniteSet(1..Len(args))
  BY <1>1, FS_Interval
<1>3. /\ Options \subseteq 1..Len(args) /\ SeparateFlags \subseteq Options
      /\ FirstDashes \subseteq 1..Len(args)
  BY DEF Options, SeparateFlags, FirstDashes
<1>4. QED
  BY <1>1, <1>2, <1>3, FS_Subset

LEMMA ReadOfFinite ==
  ASSUME NEW S, IsFiniteSet(S)
  PROVE  IsFiniteSet(ReadOf(S))
BY FS_Subset DEF ReadOf

\* A line that was read to its end was read whole.
LEMMA ReadWhole ==
  ASSUME LineType, next = Len(args) + 1
  PROVE  /\ ReadOf(Options) = Options /\ ReadOf(SeparateFlags) = SeparateFlags
         /\ ReadOf(FirstDashes) = FirstDashes
BY PositionsFinite DEF ReadOf

\* A step leaves the line as it is.
LEMMA LineStays ==
  ASSUME [Next]_lineVars
  PROVE  args' = args
BY DEF Next, lineVars, ReadArgument, FlagAccepted, FlagRefused, Fail, Word, Dashes, Decide

LEMMA PositionsStay ==
  ASSUME args' = args
  PROVE  /\ Options' = Options /\ SeparateFlags' = SeparateFlags
         /\ FirstDashes' = FirstDashes /\ DetailDenied' = DetailDenied
BY DEF Options, SeparateFlags, FirstDashes, DetailDenied, Spells

-----------------------------------------------------------------------------
(* Types *)

LEMMA LineTypeStep ==
  ASSUME LineType, [Next]_lineVars
  PROVE  LineType'
<1>. USE DEF LineType
<1>0. args' = args /\ args' \in Seq(Argument) /\ Len(args) \in Nat
  BY LineStays
<1>1. CASE ReadArgument /\ Arg.kind = "flag" /\ FlagAccepted
  <2>1. PICK v \in Values :
          /\ flags' = [flags EXCEPT ![Long(Arg.name)] = Append(@, v[1])]
          /\ next' = next + v[2]
    BY <1>1 DEF FlagAccepted
  <2>2. next <= Len(args) /\ outcome = "parsing"
    BY <1>1 DEF ReadArgument
  <2>3. v[1] \in Text /\ v[2] \in {1, 2} /\ (v[2] = 2 => next < Len(args))
    BY <1>1, <2>2, ValuesOf
  <2>4. Long(Arg.name) \in FlagNames
    BY <1>1, KnownFlags DEF FlagAccepted
  <2>5. Append(flags[Long(Arg.name)], v[1]) \in Seq(Text)
    BY <2>3, <2>4, AppendProperties
  <2>6. flags' \in [FlagNames -> Seq(Text)]
    BY <2>1, <2>4, <2>5
  <2>7. next' \in 1..(Len(args) + 1)
    BY <2>1, <2>2, <2>3
  <2>8. UNCHANGED <<args, path, positionals, outcome>>
    BY <1>1 DEF FlagAccepted
  <2>9. QED
    BY <1>0, <2>2, <2>6, <2>7, <2>8
<1>2. CASE FlagRefused
  BY <1>2 DEF FlagRefused, Fail
<1>3. CASE ReadArgument /\ Word
  <2>1. next <= Len(args) /\ outcome = "parsing" /\ next' = next + 1
        /\ UNCHANGED <<flags, outcome>>
    BY <1>3 DEF ReadArgument, Word
  <2>2. Arg \in Argument /\ Arg.name \in STRING
    <3>1. Arg \in Argument
      BY <2>1 DEF Arg
    <3>2. QED
      BY <3>1 DEF Argument
  <2>3. Append(path, Arg.name) \in Seq(STRING) /\ Append(positionals, Arg) \in Seq(Argument)
    BY <2>2, AppendProperties
  <2>4. path' \in Seq(STRING) /\ positionals' \in Seq(Argument)
    BY <1>3, <2>3 DEF Word
  <2>5. QED
    BY <1>0, <2>1, <2>4
<1>4. CASE ReadArgument /\ Dashes
  <2>1. next <= Len(args) /\ outcome = "parsing" /\ next' = Len(args) + 1
        /\ UNCHANGED <<path, flags, outcome>>
        /\ positionals' = positionals \o SubSeq(args, next + 1, Len(args))
    BY <1>4 DEF ReadArgument, Dashes
  <2>2. SubSeq(args, next + 1, Len(args)) \in Seq(Argument)
    BY <2>1, SubSeqProperties
  <2>3. positionals' \in Seq(Argument)
    BY <2>1, <2>2, ConcatProperties
  <2>4. QED
    BY <1>0, <2>1, <2>3
<1>5. CASE Decide
  <2>1. next = Len(args) + 1 /\ UNCHANGED <<args, next, path, positionals>>
    BY <1>5 DEF Decide
  <2>2. outcome' \in {"parsing", "help", "version", "run", "error"}
    BY <1>5 DEF Decide
  <2>3. flags' \in [FlagNames -> Seq(Text)]
    <3>1. << >> \in Seq(Text)
      BY EmptySeq
    <3>2. QED
      BY <1>5, <3>1 DEF Decide
  <2>4. QED
    BY <1>0, <2>1, <2>2, <2>3
<1>6. CASE UNCHANGED lineVars
  BY <1>6 DEF lineVars
<1>7. QED
  BY <1>1, <1>2, <1>3, <1>4, <1>5, <1>6 DEF Next, ReadArgument

-----------------------------------------------------------------------------
(* What each kind of argument adds to what was read *)

LEMMA FlagReads ==
  ASSUME LineType, OnlyBeforeDashes, args' = args, ReadArgument, Arg.kind = "flag",
         NEW v \in Values, next' = next + v[2]
  PROVE  /\ next \in Options /\ next \notin ReadOf(Options)
         /\ ReadOf(Options)' = ReadOf(Options) \cup {next}
         /\ v[2] = 1 => ReadOf(SeparateFlags)' = ReadOf(SeparateFlags)
         /\ v[2] = 2 => ReadOf(SeparateFlags)' = ReadOf(SeparateFlags) \cup {next}
         /\ ReadOf(FirstDashes)' = ReadOf(FirstDashes)
<1>1. next \in 1..Len(args) /\ next <= Len(args) /\ Len(args) \in Nat
  BY DEF ReadArgument, LineType
<1>2. args[next].kind = "flag" /\ next \in Options
  BY <1>1 DEF OnlyBeforeDashes, Options, Arg
<1>3. next \notin FirstDashes
  BY <1>2 DEF FirstDashes
<1>4. /\ v[2] \in {1, 2}
      /\ v[2] = 2 => Arg.value = "" /\ Long(Arg.name) \notin Bool
      /\ Arg.value = "" /\ Long(Arg.name) \notin Bool => v[2] = 2
      /\ v[2] = 2 => next < Len(args) /\ args[next + 1].kind = "word"
  BY <1>1, ValuesOf
<1>5. (v[2] = 2 => next \in SeparateFlags) /\ (v[2] = 1 => next \notin SeparateFlags)
  <2>1. v[2] = 2 => next \in SeparateFlags
    BY <1>2, <1>4 DEF SeparateFlags, Arg
  <2>2. ASSUME v[2] = 1, next \in SeparateFlags PROVE FALSE
    <3>1. Arg.value = "" /\ Long(Arg.name) \notin Bool
      BY <2>2 DEF SeparateFlags, Arg
    <3>2. v[2] = 2
      BY <1>4, <3>1
    <3>3. QED
      BY <2>2, <3>2
  <2>3. QED
    BY <2>1, <2>2
<1>6. v[2] = 2 => next + 1 \notin Options /\ next + 1 \notin FirstDashes
  BY <1>4 DEF Options, FirstDashes
<1>7. /\ Options' = Options /\ SeparateFlags' = SeparateFlags /\ FirstDashes' = FirstDashes
      /\ Options \subseteq 1..Len(args) /\ SeparateFlags \subseteq Options
      /\ FirstDashes \subseteq 1..Len(args)
  BY PositionsStay, PositionsFinite
<1>8. \A i \in 1..Len(args) :
        i < next' <=> i < next \/ i = next \/ (v[2] = 2 /\ i = next + 1)
  <2>1. CASE v[2] = 1
    BY <1>1, <2>1
  <2>2. CASE v[2] = 2
    BY <1>1, <2>2
  <2>3. QED
    BY <1>4, <2>1, <2>2
<1>9. ReadOf(Options)' = ReadOf(Options) \cup {next}
  BY <1>1, <1>2, <1>6, <1>7, <1>8 DEF ReadOf
<1>10. v[2] = 1 => ReadOf(SeparateFlags)' = ReadOf(SeparateFlags)
  BY <1>1, <1>5, <1>7, <1>8 DEF ReadOf
<1>11. v[2] = 2 => ReadOf(SeparateFlags)' = ReadOf(SeparateFlags) \cup {next}
  BY <1>1, <1>5, <1>6, <1>7, <1>8 DEF ReadOf
<1>12. ReadOf(FirstDashes)' = ReadOf(FirstDashes)
  BY <1>1, <1>3, <1>6, <1>7, <1>8 DEF ReadOf
<1>13. next \notin ReadOf(Options)
  BY <1>1 DEF ReadOf
<1>14. QED
  BY <1>2, <1>9, <1>10, <1>11, <1>12, <1>13

LEMMA WordReads ==
  ASSUME LineType, args' = args, next <= Len(args), Arg.kind = "word", next' = next + 1
  PROVE  /\ ReadOf(Options)' = ReadOf(Options)
         /\ ReadOf(SeparateFlags)' = ReadOf(SeparateFlags)
         /\ ReadOf(FirstDashes)' = ReadOf(FirstDashes)
<1>1. next \in 1..Len(args) /\ Len(args) \in Nat
  BY DEF LineType
<1>2. next \notin Options /\ next \notin FirstDashes /\ next \notin SeparateFlags
  BY DEF Options, FirstDashes, SeparateFlags, Arg
<1>3. /\ Options' = Options /\ SeparateFlags' = SeparateFlags /\ FirstDashes' = FirstDashes
      /\ Options \subseteq 1..Len(args) /\ SeparateFlags \subseteq Options
      /\ FirstDashes \subseteq 1..Len(args)
  BY PositionsStay, PositionsFinite
<1>4. \A i \in 1..Len(args) : i < next' <=> i < next \/ i = next
  BY <1>1
<1>5. QED
  BY <1>2, <1>3, <1>4 DEF ReadOf

LEMMA DashesRead ==
  ASSUME LineType, OnlyBeforeDashes, args' = args, next <= Len(args),
         Arg.kind = "dashes", next' = Len(args) + 1
  PROVE  /\ ReadOf(Options)' = ReadOf(Options)
         /\ ReadOf(SeparateFlags)' = ReadOf(SeparateFlags)
         /\ ReadOf(FirstDashes) = {} /\ ReadOf(FirstDashes)' = {next}
<1>1. next \in 1..Len(args) /\ Len(args) \in Nat
  BY DEF LineType
<1>2. args[next].kind = "dashes" /\ \A j \in 1..(next - 1) : args[j].kind # "dashes"
  BY DEF OnlyBeforeDashes, Arg
<1>3. \A i \in Options : i < next
  <2>1. SUFFICES ASSUME NEW i \in Options, ~(i < next) PROVE FALSE
    OBVIOUS
  <2>2. i \in 1..Len(args) /\ args[i].kind = "flag" /\ \A j \in 1..(i - 1) : args[j].kind # "dashes"
    BY DEF Options
  <2>3. i # next
    BY <1>2, <2>2
  <2>4. next \in 1..(i - 1)
    BY <1>1, <2>1, <2>2, <2>3
  <2>5. QED
    BY <1>2, <2>2, <2>4
<1>4. FirstDashes = {next}
  <2>1. next \in FirstDashes
    BY <1>1, <1>2 DEF FirstDashes
  <2>2. SUFFICES ASSUME NEW i \in FirstDashes PROVE i = next
    BY <2>1
  <2>3. i \in 1..Len(args) /\ args[i].kind = "dashes"
        /\ \A j \in 1..(i - 1) : args[j].kind # "dashes"
    BY DEF FirstDashes
  <2>4. next \notin 1..(i - 1) /\ i \notin 1..(next - 1)
    BY <1>2, <2>3
  <2>5. QED
    BY <1>1, <2>3, <2>4
<1>5. /\ Options' = Options /\ SeparateFlags' = SeparateFlags /\ FirstDashes' = FirstDashes
      /\ Options \subseteq 1..Len(args) /\ SeparateFlags \subseteq Options
  BY PositionsStay, PositionsFinite
<1>6. \A i \in 1..Len(args) : i < next'
  BY <1>1
<1>7. ReadOf(Options)' = ReadOf(Options) /\ ReadOf(SeparateFlags)' = ReadOf(SeparateFlags)
  BY <1>3, <1>5, <1>6 DEF ReadOf
<1>8. ReadOf(FirstDashes) = {}
  BY <1>1, <1>4 DEF ReadOf
<1>9. ReadOf(FirstDashes)' = {next}
  BY <1>1, <1>4, <1>5, <1>6 DEF ReadOf
<1>10. QED
  BY <1>7, <1>8, <1>9

-----------------------------------------------------------------------------
(* The steps *)

LEMMA OnlyBeforeDashesStep ==
  ASSUME LineType, OnlyBeforeDashes, [Next]_lineVars
  PROVE  OnlyBeforeDashes'
<1>. USE DEF OnlyBeforeDashes
<1>0. args' = args /\ Len(args) \in Nat /\ next \in Nat
  BY LineStays DEF LineType
<1>1. CASE ReadArgument /\ Arg.kind = "flag" /\ FlagAccepted
  <2>1. PICK v \in Values : next' = next + v[2]
    BY <1>1 DEF FlagAccepted
  <2>2. next <= Len(args)
    BY <1>1 DEF ReadArgument
  <2>3. v[2] \in {1, 2} /\ (v[2] = 2 => args[next + 1].kind = "word")
    BY <1>1, <2>2, ValuesOf
  <2>4. args[next].kind # "dashes"
    BY <1>1 DEF Arg
  <2>5. \A j \in 1..(next' - 1) : j \in 1..(next - 1) \/ j = next \/ (v[2] = 2 /\ j = next + 1)
    BY <1>0, <2>1, <2>3
  <2>6. QED
    BY <1>0, <2>2, <2>3, <2>4, <2>5
<1>2. CASE FlagRefused
  BY <1>2 DEF FlagRefused, Fail
<1>3. CASE ReadArgument /\ Arg.kind = "word" /\ Word
  <2>1. next <= Len(args) /\ next' = next + 1 /\ args[next].kind # "dashes"
    BY <1>3 DEF ReadArgument, Word, Arg
  <2>2. \A j \in 1..(next' - 1) : j \in 1..(next - 1) \/ j = next
    BY <1>0, <2>1
  <2>3. QED
    BY <1>0, <2>1, <2>2
<1>4. CASE Dashes
  <2>1. next' = Len(args) + 1
    BY <1>4 DEF Dashes
  <2>2. QED
    BY <1>0, <2>1
<1>5. CASE Decide
  BY <1>5 DEF Decide
<1>6. CASE UNCHANGED lineVars
  BY <1>6 DEF lineVars
<1>7. QED
  BY <1>1, <1>2, <1>3, <1>4, <1>5, <1>6 DEF Next, ReadArgument

\* A flag that was accepted says the value it was given, and no other flag changed.
LEMMA FlagSays ==
  ASSUME LineType, NEW f \in FlagNames, NEW v, v[1] \in Text,
         flags' = [flags EXCEPT ![f] = Append(@, v[1])]
  PROVE  /\ \A w : Says(f, w)' <=> v[1] = w
         /\ \A g \in FlagNames \ {f} : flags'[g] = flags[g]
<1>1. flags[f] \in Seq(Text) /\ Len(flags[f]) \in Nat
  BY DEF LineType
<1>2. flags'[f] = Append(flags[f], v[1]) /\ \A g \in FlagNames \ {f} : flags'[g] = flags[g]
  BY DEF LineType
<1>3. /\ Append(flags[f], v[1]) # << >> /\ Len(Append(flags[f], v[1])) = Len(flags[f]) + 1
      /\ Append(flags[f], v[1])[Len(flags[f]) + 1] = v[1]
  BY <1>1, AppendProperties
<1>4. flags'[f] # << >> /\ flags'[f][Len(flags'[f])] = v[1]
  BY <1>2, <1>3
<1>5. \A w : Says(f, w)' <=> v[1] = w
  BY <1>4 DEF Says
<1>6. QED
  BY <1>2, <1>5

LEMMA SwitchStep ==
  ASSUME LineType, OnlyBeforeDashes, SwitchInv, [Next]_lineVars
  PROVE  SwitchInv'
<1>0. args' = args /\ \A i, name, values : Spells(i, name, values)' <=> Spells(i, name, values)
  BY LineStays DEF Spells
<1>a. ASSUME UNCHANGED flags, ReadOf(Options)' = ReadOf(Options)
      PROVE  SwitchInv'
  BY <1>0, <1>a DEF SwitchInv, Says
<1>1. CASE ReadArgument /\ Arg.kind = "flag" /\ FlagAccepted
  <2>1. PICK f \in FlagNames : f = Long(Arg.name)
    BY <1>1, KnownFlags DEF FlagAccepted
  <2>2. PICK v \in Values :
          flags' = [flags EXCEPT ![f] = Append(@, v[1])] /\ next' = next + v[2]
    BY <1>1, <2>1 DEF FlagAccepted
  <2>3. next <= Len(args) /\ ReadArgument /\ Arg.kind = "flag"
    BY <1>1 DEF ReadArgument
  <2>4. /\ v[1] \in Text
        /\ f \in Bool => \/ v[1] = "true" /\ Arg.value \in {"", "true"}
                         \/ v[1] = "false" /\ Arg.value = "false"
    BY <2>3, <2>1, ValuesOf
  <2>5. ReadOf(Options)' = ReadOf(Options) \cup {next}
    BY <1>0, <2>2, <2>3, FlagReads
  <2>6. /\ \A w : Says(f, w)' <=> v[1] = w
        /\ \A g \in FlagNames \ {f} : flags'[g] = flags[g]
    BY <2>2, <2>4, FlagSays
  <2>7. SUFFICES ASSUME NEW g \in Bool
                 PROVE  /\ Says(g, "true")'
                             <=> \E i \in ReadOf(Options)' : Spells(i, g, {"", "true"})
                        /\ Says(g, "false")'
                             => \E i \in ReadOf(Options)' : Spells(i, g, {"false"})
    BY <1>0 DEF SwitchInv
  <2>8. CASE g # f
    <3>1. \A w : Says(g, w)' <=> Says(g, w)
      BY <2>6, <2>8, SwitchesAreFlags DEF Says
    <3>2. \A values : ~Spells(next, g, values)
      BY <2>1, <2>8 DEF Spells, Arg
    <3>3. QED
      BY <2>5, <3>1, <3>2 DEF SwitchInv
  <2>9. CASE g = f
    <3>1. f \notin Repeat
      BY <2>9 DEF Bool, Repeat
    <3>2. flags[f] = << >>
      BY <1>1, <2>1, <3>1 DEF FlagAccepted, Given
    <3>3. ~ \E i \in ReadOf(Options) : Spells(i, g, {"", "true"})
      BY <2>9, <3>2 DEF SwitchInv, Says
    <3>4. CASE v[1] = "true" /\ Arg.value \in {"", "true"}
      <4>1. Says(g, "true")' /\ ~Says(g, "false")'
        BY <2>6, <2>9, <3>4
      <4>2. Spells(next, g, {"", "true"})
        BY <2>1, <2>9, <3>4 DEF Spells, Arg
      <4>3. QED
        BY <2>5, <4>1, <4>2
    <3>5. CASE v[1] = "false" /\ Arg.value = "false"
      <4>1. Says(g, "false")' /\ ~Says(g, "true")'
        BY <2>6, <2>9, <3>5
      <4>2. Spells(next, g, {"false"}) /\ ~Spells(next, g, {"", "true"})
        BY <2>1, <2>9, <3>5 DEF Spells, Arg
      <4>3. QED
        BY <2>5, <3>3, <4>1, <4>2
    <3>6. QED
      BY <2>4, <2>9, <3>4, <3>5
  <2>10. QED
    BY <2>8, <2>9
<1>2. CASE FlagRefused
  <2>1. UNCHANGED flags /\ UNCHANGED next
    BY <1>2 DEF FlagRefused, Fail
  <2>2. ReadOf(Options)' = ReadOf(Options)
    BY <1>0, <2>1, PositionsStay DEF ReadOf
  <2>3. QED
    BY <1>a, <2>1, <2>2
<1>3. CASE ReadArgument /\ Arg.kind = "word" /\ Word
  <2>1. UNCHANGED flags /\ next <= Len(args) /\ next' = next + 1
    BY <1>3 DEF Word, ReadArgument
  <2>2. QED
    BY <1>0, <1>3, <1>a, <2>1, WordReads
<1>4. CASE ReadArgument /\ Arg.kind = "dashes" /\ Dashes
  <2>1. UNCHANGED flags /\ next <= Len(args) /\ next' = Len(args) + 1
    BY <1>4 DEF Dashes, ReadArgument
  <2>2. QED
    BY <1>0, <1>4, <1>a, <2>1, DashesRead
<1>5. CASE Decide
  <2>1. UNCHANGED next
    BY <1>5 DEF Decide
  <2>2. ReadOf(Options)' = ReadOf(Options)
    BY <1>0, <2>1, PositionsStay DEF ReadOf
  <2>3. CASE ~Says("detail", "false")
    <3>1. UNCHANGED flags
      BY <1>5, <2>3 DEF Decide
    <3>2. QED
      BY <1>a, <2>2, <3>1
  <2>4. CASE Says("detail", "false")
    <3>1. flags' = [flags EXCEPT !["detail"] = << >>]
      BY <1>5, <2>4 DEF Decide
    <3>2. "detail" \in Bool /\ "detail" \in FlagNames
      BY SwitchesAreFlags DEF Bool
    <3>3. flags'["detail"] = << >> /\ \A g \in FlagNames \ {"detail"} : flags'[g] = flags[g]
      BY <3>1, <3>2 DEF LineType
    <3>4. ~Says("detail", "true") /\ \A w : ~Says("detail", w)'
      BY <2>4, <3>3 DEF Says
    <3>5. \A g \in Bool \ {"detail"} : \A w : Says(g, w)' <=> Says(g, w)
      BY <3>3, SwitchesAreFlags DEF Says
    <3>6. QED
      BY <1>0, <2>2, <3>2, <3>4, <3>5 DEF SwitchInv
  <2>5. QED
    BY <2>3, <2>4
<1>6. CASE UNCHANGED lineVars
  <2>1. UNCHANGED flags /\ UNCHANGED next
    BY <1>6 DEF lineVars
  <2>2. ReadOf(Options)' = ReadOf(Options)
    BY <1>0, <2>1, PositionsStay DEF ReadOf
  <2>3. QED
    BY <1>a, <2>1, <2>2
<1>7. QED
  BY <1>1, <1>2, <1>3, <1>4, <1>5, <1>6 DEF Next, ReadArgument

LEMMA GivenElements ==
  \A e : e \in GivenValues <=> \E f \in FlagNames : \E k \in 1..Len(flags[f]) : e = <<f, k>>
BY DEF GivenValues

\* A flag that was accepted was given one value more.
LEMMA FlagGives ==
  ASSUME LineType, IsFiniteSet(GivenValues), NEW f \in FlagNames, NEW x \in Text,
         flags' = [flags EXCEPT ![f] = Append(@, x)]
  PROVE  /\ IsFiniteSet(GivenValues')
         /\ Cardinality(GivenValues') = Cardinality(GivenValues) + 1
<1> DEFINE n == Len(flags[f]) + 1
<1>1. flags[f] \in Seq(Text) /\ Len(flags[f]) \in Nat
  BY DEF LineType
<1>2. Len(flags'[f]) = n /\ \A g \in FlagNames \ {f} : flags'[g] = flags[g]
  BY <1>1, AppendProperties DEF LineType
<1>3. <<f, n>> \notin GivenValues
  <2>1. SUFFICES ASSUME <<f, n>> \in GivenValues PROVE FALSE
    OBVIOUS
  <2>2. PICK g \in FlagNames : \E k \in 1..Len(flags[g]) : <<f, n>> = <<g, k>>
    BY <2>1, GivenElements
  <2>3. n \in 1..Len(flags[f])
    BY <2>2
  <2>4. QED
    BY <1>1, <2>3
<1>4. GivenValues' = GivenValues \cup {<<f, n>>}
  <2>1. \A e : e \in GivenValues' <=>
          \E g \in FlagNames : \E k \in 1..Len(flags'[g]) : e = <<g, k>>
    BY DEF GivenValues
  <2>2. 1..Len(flags'[f]) = 1..Len(flags[f]) \cup {n}
    BY <1>1, <1>2
  <2>3. ASSUME NEW e \in GivenValues' PROVE e \in GivenValues \cup {<<f, n>>}
    <3>1. PICK g \in FlagNames : \E k \in 1..Len(flags'[g]) : e = <<g, k>>
      BY <2>1, <2>3
    <3>2. CASE g = f
      BY <2>2, <3>1, <3>2, GivenElements
    <3>3. CASE g # f
      BY <1>2, <3>1, <3>3, GivenElements
    <3>4. QED
      BY <3>2, <3>3
  <2>4. ASSUME NEW e \in GivenValues PROVE e \in GivenValues'
    <3>1. PICK g \in FlagNames : \E k \in 1..Len(flags[g]) : e = <<g, k>>
      BY <2>4, GivenElements
    <3>2. 1..Len(flags[g]) \subseteq 1..Len(flags'[g])
      BY <1>2, <2>2
    <3>3. QED
      BY <2>1, <3>1, <3>2
  <2>5. <<f, n>> \in GivenValues'
    BY <2>1, <2>2
  <2>6. QED
    BY <2>3, <2>4, <2>5
<1>5. QED
  BY <1>3, <1>4, FS_AddElement

LEMMA CountStep ==
  ASSUME LineType, OnlyBeforeDashes, SwitchInv, CountInv, [Next]_lineVars
  PROVE  CountInv'
<1>0. args' = args /\ DetailDenied' = DetailDenied
  BY LineStays, PositionsStay
<1>n. /\ next \in Nat /\ Len(args) \in Nat /\ Len(path) \in Nat /\ Len(positionals) \in Nat
      /\ IsFiniteSet(GivenValues) /\ Cardinality(GivenValues) \in Nat
      /\ IsFiniteSet(ReadOf(SeparateFlags)) /\ Cardinality(ReadOf(SeparateFlags)) \in Nat
      /\ IsFiniteSet(ReadOf(FirstDashes)) /\ Cardinality(ReadOf(FirstDashes)) \in Nat
  BY PositionsFinite, ReadOfFinite, FS_CardinalityType DEF LineType, CountInv
<1>a. ASSUME UNCHANGED <<next, path, flags, positionals>> PROVE CountInv'
  BY <1>0, <1>a, PositionsStay DEF CountInv, Accounted, ReadOf, GivenValues
<1>t. Accounted \in Nat
  BY <1>n DEF Accounted
<1>b. ASSUME IsFiniteSet(GivenValues'),
             NEW k \in Nat, next' = next + k, Accounted' = Accounted + k
      PROVE  CountInv'
  <2>1. CASE DetailDenied
    BY <1>0, <1>b, <2>1 DEF CountInv
  <2>2. CASE ~DetailDenied
    <3>1. next - 1 = Accounted
      BY <2>2 DEF CountInv
    <3>2. next' - 1 = Accounted'
      BY <1>n, <1>t, <1>b, <3>1
    <3>3. QED
      BY <1>b, <3>2 DEF CountInv
  <2>3. QED
    BY <2>1, <2>2
<1>1. CASE ReadArgument /\ Arg.kind = "flag" /\ FlagAccepted
  <2>1. PICK f \in FlagNames : f = Long(Arg.name)
    BY <1>1, KnownFlags DEF FlagAccepted
  <2>2. PICK v \in Values :
          flags' = [flags EXCEPT ![f] = Append(@, v[1])] /\ next' = next + v[2]
    BY <1>1, <2>1 DEF FlagAccepted
  <2>3. next <= Len(args) /\ ReadArgument /\ Arg.kind = "flag"
        /\ UNCHANGED <<path, positionals>>
    BY <1>1 DEF ReadArgument, FlagAccepted
  <2>4. v[1] \in Text /\ v[2] \in {1, 2}
    BY <2>3, ValuesOf
  <2>5. IsFiniteSet(GivenValues') /\ Cardinality(GivenValues') = Cardinality(GivenValues) + 1
    BY <1>n, <2>2, <2>4, FlagGives
  <2>6. /\ next \notin ReadOf(SeparateFlags)
        /\ v[2] = 1 => ReadOf(SeparateFlags)' = ReadOf(SeparateFlags)
        /\ v[2] = 2 => ReadOf(SeparateFlags)' = ReadOf(SeparateFlags) \cup {next}
        /\ ReadOf(FirstDashes)' = ReadOf(FirstDashes)
    BY <1>0, <1>n, <2>2, <2>3, FlagReads DEF ReadOf
  <2>7. Cardinality(ReadOf(SeparateFlags)') = Cardinality(ReadOf(SeparateFlags)) + v[2] - 1
    <3>1. CASE v[2] = 1
      BY <1>n, <2>6, <3>1
    <3>2. CASE v[2] = 2
      BY <1>n, <2>6, <3>2, FS_AddElement
    <3>3. QED
      BY <2>4, <3>1, <3>2
  <2>8. Accounted' = Accounted + v[2]
    <3>1. Len(path') = Len(path) /\ Len(positionals') = Len(positionals)
      BY <2>3
    <3>2. Cardinality(ReadOf(FirstDashes)') = Cardinality(ReadOf(FirstDashes))
      BY <2>6
    <3>3. QED
      BY <1>n, <2>4, <2>5, <2>7, <3>1, <3>2 DEF Accounted
  <2>9. QED
    BY <1>b, <2>2, <2>4, <2>5, <2>8
<1>2. CASE FlagRefused
  BY <1>2, <1>a DEF FlagRefused, Fail
<1>3. CASE ReadArgument /\ Arg.kind = "word" /\ Word
  <2>1. next <= Len(args) /\ next' = next + 1 /\ UNCHANGED flags
    BY <1>3 DEF ReadArgument, Word
  <2>2. /\ ReadOf(SeparateFlags)' = ReadOf(SeparateFlags)
        /\ ReadOf(FirstDashes)' = ReadOf(FirstDashes)
    BY <1>0, <1>3, <2>1, WordReads
  <2>3. Arg \in Argument
    BY <2>1 DEF LineType, Arg
  <2>4. Arg.name \in STRING
    BY <2>3 DEF Argument
  <2>5. /\ Len(Append(path, Arg.name)) = Len(path) + 1
        /\ Len(Append(positionals, Arg)) = Len(positionals) + 1
    BY <2>3, <2>4, AppendProperties DEF LineType
  <2>6. Len(path') + Len(positionals') = Len(path) + Len(positionals) + 1
    BY <1>3, <1>n, <2>5 DEF Word
  <2>7. Len(path') \in Nat /\ Len(positionals') \in Nat
    BY <1>3, <1>n, <2>5 DEF Word
  <2>8. GivenValues' = GivenValues
    BY <2>1 DEF GivenValues
  <2>9. Accounted' = Accounted + 1
    <3>1. Cardinality(GivenValues') = Cardinality(GivenValues)
      BY <2>8
    <3>2. /\ Cardinality(ReadOf(SeparateFlags)') = Cardinality(ReadOf(SeparateFlags))
          /\ Cardinality(ReadOf(FirstDashes)') = Cardinality(ReadOf(FirstDashes))
      BY <2>2
    <3>3. QED
      BY <1>n, <2>6, <2>7, <3>1, <3>2 DEF Accounted
  <2>10. QED
    BY <1>b, <1>n, <2>1, <2>8, <2>9
<1>4. CASE ReadArgument /\ Arg.kind = "dashes" /\ Dashes
  <2>1. next <= Len(args) /\ next' = Len(args) + 1 /\ UNCHANGED <<path, flags>>
        /\ positionals' = positionals \o SubSeq(args, next + 1, Len(args))
    BY <1>4 DEF ReadArgument, Dashes
  <2>2. /\ ReadOf(SeparateFlags)' = ReadOf(SeparateFlags)
        /\ ReadOf(FirstDashes) = {} /\ ReadOf(FirstDashes)' = {next}
    BY <1>0, <1>4, <2>1, DashesRead
  <2>3. Cardinality(ReadOf(FirstDashes)) = 0 /\ Cardinality(ReadOf(FirstDashes)') = 1
    BY <2>2, FS_EmptySet, FS_Singleton
  <2>4. /\ SubSeq(args, next + 1, Len(args)) \in Seq(Argument)
        /\ Len(SubSeq(args, next + 1, Len(args))) = Len(args) - next
    <3>1. \A i \in (next + 1)..Len(args) : args[i] \in Argument
      BY <1>n DEF LineType
    <3>2. QED
      BY <1>n, <2>1, <3>1, SubSeqProperties
  <2>5. Len(positionals') = Len(positionals) + (Len(args) - next)
    BY <2>1, <2>4, ConcatProperties DEF LineType
  <2>6. GivenValues' = GivenValues
    BY <2>1 DEF GivenValues
  <2>7. Accounted' = Accounted + (Len(args) + 1 - next)
    <3>1. /\ Cardinality(GivenValues') = Cardinality(GivenValues)
          /\ Cardinality(ReadOf(SeparateFlags)') = Cardinality(ReadOf(SeparateFlags))
      BY <2>2, <2>6
    <3>2. Len(path') = Len(path)
      BY <2>1
    <3>3. QED
      BY <1>n, <2>3, <2>5, <3>1, <3>2 DEF Accounted
  <2>8. Len(args) + 1 - next \in Nat /\ next' = next + (Len(args) + 1 - next)
    BY <1>n, <2>1
  <2>9. QED
    BY <1>b, <1>n, <2>6, <2>7, <2>8
<1>5. CASE Decide
  <2>1. UNCHANGED <<next, path, positionals>>
    BY <1>5 DEF Decide
  <2>2. CASE ~Says("detail", "false")
    BY <1>5, <1>a, <2>1, <2>2 DEF Decide
  <2>3. CASE Says("detail", "false")
    <3>1. flags' = [flags EXCEPT !["detail"] = << >>]
      BY <1>5, <2>3 DEF Decide
    <3>2. "detail" \in Bool /\ "detail" \in FlagNames
      BY SwitchesAreFlags DEF Bool
    <3>3. DetailDenied
      BY <2>3, <3>2 DEF SwitchInv, DetailDenied, ReadOf
    <3>4. GivenValues' \subseteq GivenValues
      <4>1. flags'["detail"] = << >> /\ \A g \in FlagNames \ {"detail"} : flags'[g] = flags[g]
        BY <3>1, <3>2 DEF LineType
      <4>2. 1..Len(<< >>) = {}
        OBVIOUS
      <4>3. QED
        BY <4>1, <4>2 DEF GivenValues
    <3>5. QED
      BY <1>0, <1>n, <3>3, <3>4, FS_Subset DEF CountInv
  <2>4. QED
    BY <2>2, <2>3
<1>6. CASE UNCHANGED lineVars
  BY <1>6, <1>a DEF lineVars
<1>7. QED
  BY <1>1, <1>2, <1>3, <1>4, <1>5, <1>6 DEF Next, ReadArgument

-----------------------------------------------------------------------------
(* The theorems *)

LEMMA LineInit ==
  ASSUME Init
  PROVE  LineInv
<1>1. args \in Seq(Argument) /\ Len(args) \in Nat /\ next = 1
  BY InputsAssumption DEF Init
<1>2. \A f \in FlagNames : flags[f] = << >>
  BY DEF Init
<1>3. LineType
  <2>1. << >> \in Seq(Text) /\ << >> \in Seq(STRING) /\ << >> \in Seq(Argument)
    BY EmptySeq
  <2>2. flags \in [FlagNames -> Seq(Text)]
    BY <2>1 DEF Init
  <2>3. QED
    BY <1>1, <2>1, <2>2 DEF Init, LineType
<1>4. OnlyBeforeDashes
  BY <1>1 DEF OnlyBeforeDashes
<1>5. ReadOf(Options) = {} /\ ReadOf(SeparateFlags) = {} /\ ReadOf(FirstDashes) = {}
  BY <1>1, <1>3, PositionsFinite DEF ReadOf
<1>6. SwitchInv
  BY <1>2, <1>5, SwitchesAreFlags DEF SwitchInv, Says
<1>7. CountInv
  <2>1. GivenValues = {}
    <3>1. 1..Len(<< >>) = {}
      OBVIOUS
    <3>2. QED
      BY <1>2, <3>1 DEF GivenValues
  <2>2. Len(path) = 0 /\ Len(positionals) = 0
    BY DEF Init
  <2>3. Accounted = 0
    BY <1>5, <2>1, <2>2, FS_EmptySet DEF Accounted
  <2>4. QED
    BY <1>1, <2>1, <2>3, FS_EmptySet DEF CountInv
<1>8. QED
  BY <1>3, <1>4, <1>6, <1>7 DEF LineInv

\* Whatever the line, the parser keeps account of what it read: LineInv, from the
\* first argument to the verdict.
THEOREM LineInvariance == Spec => []LineInv
<1>1. Init => LineInv
  BY LineInit
<1>2. LineInv /\ [Next]_lineVars => LineInv'
  BY LineTypeStep, OnlyBeforeDashesStep, SwitchStep, CountStep DEF LineInv
<1>3. QED
  BY <1>1, <1>2, PTL DEF Spec

\* A command runs with exactly the switches its line spells out, however long the
\* line: a preview is a preview, and nothing is confirmed or forced by accident.
THEOREM SwitchesSpelledOut == Spec => []SwitchesAreSpelledOut
<1>1. LineInv => SwitchesAreSpelledOut
  <2>1. SUFFICES ASSUME LineInv, outcome = "run", NEW name \in Bool
                 PROVE  Says(name, "true") <=> \E i \in Options : Spells(i, name, {"", "true"})
    BY DEF SwitchesAreSpelledOut
  <2>2. ReadOf(Options) = Options
    BY <2>1, ReadWhole DEF LineInv, LineType
  <2>3. QED
    BY <2>1, <2>2 DEF LineInv, SwitchInv
<1>2. QED
  BY <1>1, LineInvariance, PTL

\* No argument of a line whose command runs is lost, and none counts twice.
THEOREM ArgumentsCount == Spec => []EveryArgumentCounts
<1>1. LineInv => EveryArgumentCounts
  <2>1. SUFFICES ASSUME LineInv, outcome = "run", ~DetailDenied
                 PROVE  Len(args) = Len(path) + Len(positionals) + Cardinality(GivenValues)
                          + Cardinality(SeparateFlags) + Cardinality(FirstDashes)
    BY DEF EveryArgumentCounts
  <2>2. next = Len(args) + 1 /\ Len(args) \in Nat /\ LineType
    BY <2>1 DEF LineInv, LineType
  <2>3. ReadOf(SeparateFlags) = SeparateFlags /\ ReadOf(FirstDashes) = FirstDashes
    BY <2>2, ReadWhole
  <2>4. Len(args) = Accounted
    BY <2>1, <2>2 DEF LineInv, CountInv
  <2>5. QED
    BY <2>3, <2>4 DEF Accounted
<1>2. QED
  BY <1>1, LineInvariance, PTL
=============================================================================
