---------------------------- MODULE MCCommandLine ----------------------------
(* Bounded command lines.                                                    *)
EXTENDS CommandLine, SequencesExt

word(w) == [kind |-> "word", name |-> w, value |-> ""]
flag(f, v) == [kind |-> "flag", name |-> f, value |-> v]
dashes == [kind |-> "dashes", name |-> "--", value |-> ""]

\* Words, switches and values that interact; "x" is any other word.
Tokens ==
  {word(w) : w \in {"apply", "rollback", "init", "transactions", "list", "x", "", "-"}}
  \cup {flag(f, "") : f \in {"dry-run", "y", "yes", "reason", "root", "preset",
                             "trust-interface", "detail", "help"}}
  \cup {flag("dry-run", "false"), flag("dry-run", "x"), flag("root", "x"),
        flag("detail", "false"), flag("version", ""), flag("preset-file", "x"),
        dashes}
FewTokens ==
  {word(w) : w \in {"transactions", "list", "x"}} \cup {flag("help", "")}

Core ==
  {word(w) : w \in {"apply", "init", "x"}}
  \cup {flag(f, "") : f \in {"dry-run", "reason", "root", "y", "detail"}}
  \cup {flag("dry-run", "false"), flag("root", "x"), dashes}

Lines == BoundedSeq(Tokens, 3) \cup BoundedSeq(Core, 4)
UpToTwo == BoundedSeq(FewTokens, 2)
=============================================================================
