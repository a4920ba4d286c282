----------------------- MODULE DesiredConfigProperties -----------------------
(* What the configuration commands promise: they do what they say and nothing   *)
(* else, and can be taken back.                                                 *)
EXTENDS DesiredConfig

\* The prefixes of the static allowlist.
Allowed(c) == {w[1] : w \in c.static}
SymDiff(S, T) == (S \ T) \cup (T \ S)

\* What the command asked for holds in configuration c.
Achieved(k, c) ==
  CASE k.do = "open"     -> k.range \in c.ports
    [] k.do = "close"    -> k.range \notin c.ports
    [] k.do = "allow"    -> k.prefix \in Allowed(c)
    [] k.do = "disallow" -> k.prefix \notin Allowed(c)
    [] k.do = "harden"   -> c.mode = k.mode
    [] k.do = "ddns"     -> c.ddns = k.on
    [] k.do = "host"     -> k.host \in c.hosts
    [] k.do = "unhost"   -> k.host \notin c.hosts
    [] k.do = "length"   -> c.length = k.length
    [] k.do = "trust"    -> c.trusted /\ k.ifaces \subseteq c.ifaces
    [] k.do = "distrust" -> k.ifaces \cap c.ifaces = {}
    [] k.do = "docker"   -> c.docker = k.on
    [] k.do = "init"     -> c.docker = k.docker /\ c.ddns = k.ddns /\ c.ifaces = k.ifaces

\* The fields a command may change.
Part(k) ==
  CASE k.do \in {"open", "close"}      -> {"ports"}
    [] k.do \in {"allow", "disallow"}  -> {"static"}
    [] k.do = "harden"                 -> {"mode", "rate"}
    [] k.do = "ddns"                   -> {"ddns"}
    [] k.do \in {"host", "unhost"}     -> {"hosts"}
    [] k.do = "length"                 -> {"length"}
    [] k.do \in {"trust", "distrust"}  -> {"trusted", "ifaces"}
    [] k.do = "docker"                 -> {"docker"}

\* c and d differ only in what command k is about.
OnlyAbout(k, c, d) ==
  k.do # "init" =>
    /\ \A field \in DOMAIN c : c[field] # d[field] => field \in Part(k)
    /\ k.do \in {"open", "close"} => SymDiff(c.ports, d.ports) \subseteq {k.range}
    /\ k.do \in {"allow", "disallow"} => SymDiff(Allowed(c), Allowed(d)) \subseteq {k.prefix}
    /\ k.do \in {"host", "unhost"} => SymDiff(c.hosts, d.hosts) \subseteq {k.host}
    /\ k.do \in {"trust", "distrust"} => SymDiff(c.ifaces, d.ifaces) \subseteq k.ifaces

Writes(e) ==
  /\ editor[e] # None /\ editor'[e] = None
  /\ file' = Outcome(editor[e].loaded, editor[e].command)

(* When a command has written, the file says what it was asked for, also when    *)
(* the file changed since the command loaded it.                                 *)
EditTakesEffect == [][ \A e \in Editors : Writes(e) => Achieved(editor[e].command, file') ]_vars

(* A command that writes changes, in what it loaded, the entry it was asked about  *)
(* and no other: the other sections survive the way through the packages that      *)
(* edit one of them, and so do the other entries of the list.                      *)
EditTouchesOnlyItsPart ==
  [][ \A e \in Editors : Writes(e) =>
        OnlyAbout(editor[e].command, editor[e].loaded, file') ]_vars

(* The same of what the file holds when the command writes.                        *)
NoUpdateIsLost ==
  [][ \A e \in Editors : Writes(e) => OnlyAbout(editor[e].command, file, file') ]_vars

(* Adding an entry that is not there and removing it again are both accepted and *)
(* give back the configuration, in every state the commands reach.               *)
AddRemoveRestores ==
  LET Back(add, remove) == Outcome(file, add) # Refused /\ Outcome(Outcome(file, add), remove) = file
  IN /\ \A r \in Ranges \ file.ports : ValidRange(r) =>
          Back([do |-> "open", range |-> r], [do |-> "close", range |-> r, strict |-> TRUE])
     /\ \A p \in Prefixes \ Allowed(file) :
          Back([do |-> "allow", prefix |-> p], [do |-> "disallow", prefix |-> p, strict |-> TRUE])
     /\ \A h \in HostNames \ file.hosts :
          Back([do |-> "host", host |-> h], [do |-> "unhost", host |-> h, strict |-> TRUE])
     /\ \A i \in Interfaces \ file.ifaces :
          Back([do |-> "trust", ifaces |-> {i}], [do |-> "distrust", ifaces |-> {i}])

(* SSH can always be set back to the mode that is safest against lockout.        *)
SSHCanBeOpened ==
  Valid(file) => Outcome(file, [do |-> "harden", mode |-> "open", force |-> FALSE]) # Refused

(* --force permits writing risky desired intent.                                 *)
ForceWrites ==
  Valid(file) => Outcome(file, [do |-> "harden", mode |-> "whitelist-only", force |-> TRUE]) # Refused

(* A trusted interface can be removed.                                           *)
InterfaceCanBeDistrusted ==
  Valid(file) => \A i \in file.ifaces : Outcome(file, [do |-> "distrust", ifaces |-> {i}]) # Refused
=============================================================================
