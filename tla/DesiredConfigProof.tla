-------------------------- MODULE DesiredConfigProof --------------------------
(***************************************************************************)
(* The configuration commands do what they were asked and nothing else, for    *)
(* any lists, any number of commands at once and any edits by hand that load.   *)
(***************************************************************************)
EXTENDS DesiredConfigProperties, TLAPS

USE ConfigAssumption

\* What an operator may have written by hand without the commands noticing: both
\* spellings of a prefix, a spelling that is not theirs, a list without its feature.
Spelled(c) == \A w \in c.static : w = Form(w[1])
AsWritten(c) == Valid(c) /\ Spelled(c) /\ c.trusted = (c.ifaces # {})

Fields == {"ports", "mode", "rate", "static", "ddns", "hosts", "length", "trusted", "ifaces",
           "forwarding", "docker"}
\* c and d are alike in every field but those in F.
AlikeBut(F, c, d) == \A field \in Fields \ F : c[field] = d[field]

\* What every edit d of c on request k does, and keeps as it should be.
GoodEdit(k, c, d) ==
  /\ d \in Configurations
  /\ AlikeBut(Part(k), c, d)
  /\ ~Twice(c.static) => Achieved(k, d)
  /\ OnlyAbout(k, c, d)
  /\ d.static = c.static \/ Spelled(d)
  /\ c.trusted = (c.ifaces # {}) => d.trusted = (d.ifaces # {})

-----------------------------------------------------------------------------

\* What is said of fields an edit leaves alone.
LEMMA LeftAlone ==
  ASSUME NEW c \in Configurations, NEW d \in Configurations, NEW F \in SUBSET Fields,
         AlikeBut(F, c, d)
  PROVE  /\ \A field \in DOMAIN c : c[field] # d[field] => field \in F
         /\ "static" \notin F => d.static = c.static
         /\ F \cap {"trusted", "ifaces"} = {} =>
              (c.trusted = (c.ifaces # {}) => d.trusted = (d.ifaces # {}))
<1>1. DOMAIN c = Fields BY DEF Configurations, Fields
<1> QED BY <1>1 DEF AlikeBut, Fields, Spelled

LEMMA OpenGood ==
  ASSUME NEW c \in Configurations, NEW k \in [do : {"open"}, range : Ranges], Effect(c, k) # Refused
  PROVE  GoodEdit(k, c, Effect(c, k))
<1> DEFINE d == [c EXCEPT !.ports = c.ports \cup {k.range}]
<1>1. Effect(c, k) = d BY DEF Effect, OpenPorts
<1>2. d \in Configurations BY DEF Configurations
<1>3. AlikeBut({"ports"}, c, d) /\ d.ports = c.ports \cup {k.range}
  BY DEF Configurations, AlikeBut, Fields
<1> HIDE DEF d
<1>4. Part(k) = {"ports"} /\ Achieved(k, d) BY <1>3 DEF Part, Achieved
<1> QED BY <1>1, <1>2, <1>3, <1>4, LeftAlone DEF GoodEdit, OnlyAbout, SymDiff, Fields

LEMMA CloseGood ==
  ASSUME NEW c \in Configurations,
         NEW k \in [do : {"close"}, range : Ranges, strict : BOOLEAN], Effect(c, k) # Refused
  PROVE  GoodEdit(k, c, Effect(c, k))
<1> DEFINE d == [c EXCEPT !.ports = c.ports \ {k.range}]
<1>1. Effect(c, k) = d BY DEF Effect, ClosePorts
<1>2. d \in Configurations BY DEF Configurations
<1>3. AlikeBut({"ports"}, c, d) /\ d.ports = c.ports \ {k.range}
  BY DEF Configurations, AlikeBut, Fields
<1> HIDE DEF d
<1>4. Part(k) = {"ports"} /\ Achieved(k, d) BY <1>3 DEF Part, Achieved
<1> QED BY <1>1, <1>2, <1>3, <1>4, LeftAlone DEF GoodEdit, OnlyAbout, SymDiff, Fields

LEMMA DDNSGood ==
  ASSUME NEW c \in Configurations, NEW k \in [do : {"ddns"}, on : BOOLEAN], Effect(c, k) # Refused
  PROVE  GoodEdit(k, c, Effect(c, k))
<1> DEFINE d == [c EXCEPT !.ddns = k.on]
<1>1. Effect(c, k) = d BY DEF Effect, SetDDNS
<1>2. d \in Configurations BY DEF Configurations
<1>3. AlikeBut({"ddns"}, c, d) /\ d.ddns = k.on
  BY DEF Configurations, AlikeBut, Fields
<1> HIDE DEF d
<1>4. Part(k) = {"ddns"} /\ Achieved(k, d) BY <1>3 DEF Part, Achieved
<1> QED BY <1>1, <1>2, <1>3, <1>4, LeftAlone DEF GoodEdit, OnlyAbout, SymDiff, Fields

LEMMA DockerGood ==
  ASSUME NEW c \in Configurations, NEW k \in [do : {"docker"}, on : BOOLEAN], Effect(c, k) # Refused
  PROVE  GoodEdit(k, c, Effect(c, k))
<1> DEFINE d == [c EXCEPT !.docker = k.on]
<1>1. Effect(c, k) = d BY DEF Effect, SetDocker
<1>2. d \in Configurations BY DEF Configurations
<1>3. AlikeBut({"docker"}, c, d) /\ d.docker = k.on
  BY DEF Configurations, AlikeBut, Fields
<1> HIDE DEF d
<1>4. Part(k) = {"docker"} /\ Achieved(k, d) BY <1>3 DEF Part, Achieved
<1> QED BY <1>1, <1>2, <1>3, <1>4, LeftAlone DEF GoodEdit, OnlyAbout, SymDiff, Fields

LEMMA HostGood ==
  ASSUME NEW c \in Configurations,
         NEW k \in [do : {"host"}, host : HostNames], Effect(c, k) # Refused
  PROVE  GoodEdit(k, c, Effect(c, k))
<1> DEFINE d == [c EXCEPT !.hosts = c.hosts \cup {k.host}]
<1>1. Effect(c, k) = d BY DEF Effect, AddHost
<1>2. d \in Configurations BY DEF Configurations
<1>3. AlikeBut({"hosts"}, c, d) /\ d.hosts = c.hosts \cup {k.host}
  BY DEF Configurations, AlikeBut, Fields
<1> HIDE DEF d
<1>4. Part(k) = {"hosts"} /\ Achieved(k, d) BY <1>3 DEF Part, Achieved
<1> QED BY <1>1, <1>2, <1>3, <1>4, LeftAlone DEF GoodEdit, OnlyAbout, SymDiff, Fields

LEMMA UnhostGood ==
  ASSUME NEW c \in Configurations,
         NEW k \in [do : {"unhost"}, host : HostNames, strict : BOOLEAN], Effect(c, k) # Refused
  PROVE  GoodEdit(k, c, Effect(c, k))
<1> DEFINE d == [c EXCEPT !.hosts = c.hosts \ {k.host}]
<1>1. Effect(c, k) = d BY DEF Effect, RemoveHost
<1>2. d \in Configurations BY DEF Configurations
<1>3. AlikeBut({"hosts"}, c, d) /\ d.hosts = c.hosts \ {k.host}
  BY DEF Configurations, AlikeBut, Fields
<1> HIDE DEF d
<1>4. Part(k) = {"hosts"} /\ Achieved(k, d) BY <1>3 DEF Part, Achieved
<1> QED BY <1>1, <1>2, <1>3, <1>4, LeftAlone DEF GoodEdit, OnlyAbout, SymDiff, Fields

LEMMA LengthGood ==
  ASSUME NEW c \in Configurations, NEW k \in [do : {"length"}, length : Int], Effect(c, k) # Refused
  PROVE  GoodEdit(k, c, Effect(c, k))
<1> DEFINE d == [c EXCEPT !.length = k.length]
<1>1. Effect(c, k) = d BY DEF Effect, SetLength
<1>2. d \in Configurations BY DEF Configurations
<1>3. AlikeBut({"length"}, c, d) /\ d.length = k.length
  BY DEF Configurations, AlikeBut, Fields
<1> HIDE DEF d
<1>4. Part(k) = {"length"} /\ Achieved(k, d) BY <1>3 DEF Part, Achieved
<1> QED BY <1>1, <1>2, <1>3, <1>4, LeftAlone DEF GoodEdit, OnlyAbout, SymDiff, Fields

LEMMA HardenGood ==
  ASSUME NEW c \in Configurations, NEW k \in [do : {"harden"}, mode : Modes, force : BOOLEAN],
         Effect(c, k) # Refused
  PROVE  GoodEdit(k, c, Effect(c, k))
<1> DEFINE rate == c.rate \/ k.mode = "whitelist-rate-limit"
           d == [c EXCEPT !.mode = k.mode, !.rate = rate]
<1>1. Effect(c, k) = d BY DEF Effect, Harden
<1>2. rate \in BOOLEAN OBVIOUS
<1>3. d \in Configurations BY <1>2 DEF Configurations
<1>4. AlikeBut({"mode", "rate"}, c, d) /\ d.mode = k.mode
  BY DEF Configurations, AlikeBut, Fields
<1> HIDE DEF d
<1>5. Part(k) = {"mode", "rate"} /\ Achieved(k, d) BY <1>4 DEF Part, Achieved
<1> QED BY <1>1, <1>3, <1>4, <1>5, LeftAlone DEF GoodEdit, OnlyAbout, Fields

\* Respelling keeps the prefixes and leaves the commands' own spelling of each.
LEMMA Respelled ==
  ASSUME NEW c \in Configurations, NEW S \in SUBSET Written, Rewritten(c, S) # Refused
  PROVE  /\ Rewritten(c, S) \in Configurations
         /\ AlikeBut({"static"}, c, Rewritten(c, S))
         /\ Allowed(Rewritten(c, S)) = {w[1] : w \in S}
         /\ Spelled(Rewritten(c, S))
<1> DEFINE new == {Form(w[1]) : w \in S}  d == [c EXCEPT !.static = new]
<1>1. Rewritten(c, S) = d BY DEF Rewritten
<1>2. \A w \in S : w[1] \in Prefixes BY SingleAssumption DEF Written
<1>3. \A p \in Prefixes : Form(p) \in Written /\ Form(p)[1] = p BY DEF Form, Written
<1>4. new \in SUBSET Written BY <1>2, <1>3
<1>5. \A w \in new : w = Form(w[1]) BY <1>2, <1>3
<1>6. {v[1] : v \in new} = {w[1] : w \in S} BY <1>2, <1>3
<1> HIDE DEF new
<1>7. d \in Configurations BY <1>4 DEF Configurations
<1>8. AlikeBut({"static"}, c, d) /\ d.static = new BY DEF Configurations, AlikeBut, Fields
<1> QED BY <1>1, <1>5, <1>6, <1>7, <1>8 DEF Allowed, Spelled

LEMMA AllowGood ==
  ASSUME NEW c \in Configurations, NEW k \in [do : {"allow"}, prefix : Prefixes],
         Effect(c, k) # Refused
  PROVE  GoodEdit(k, c, Effect(c, k))
<1> DEFINE p == k.prefix
           S == IF \E w \in c.static : w[1] = p THEN c.static ELSE c.static \cup {Form(p)}
           d == Rewritten(c, S)
<1>1. Effect(c, k) = d BY DEF Effect, Allow
<1>2. Form(p) \in Written /\ Form(p)[1] = p BY DEF Form, Written
<1>3. S \in SUBSET Written BY <1>2 DEF Configurations
<1>4. {w[1] : w \in S} = Allowed(c) \cup {p} BY <1>2 DEF Allowed
<1> HIDE DEF S
<1>5. /\ d \in Configurations /\ AlikeBut({"static"}, c, d) /\ Spelled(d)
      /\ Allowed(d) = Allowed(c) \cup {p}
  BY <1>1, <1>3, <1>4, Respelled
<1> HIDE DEF d
<1>6. Part(k) = {"static"} /\ Achieved(k, d) BY <1>5 DEF Part, Achieved
<1> QED BY <1>1, <1>5, <1>6, LeftAlone DEF GoodEdit, OnlyAbout, SymDiff, Fields

LEMMA DisallowGood ==
  ASSUME NEW c \in Configurations,
         NEW k \in [do : {"disallow"}, prefix : Prefixes, strict : BOOLEAN],
         Effect(c, k) # Refused
  PROVE  GoodEdit(k, c, Effect(c, k))
<1> DEFINE p == k.prefix
           forms == {w \in c.static : w[1] = p}
           gone == IF forms = {} THEN {} ELSE {CHOOSE w \in forms : TRUE}
           S == c.static \ gone
           d == Rewritten(c, S)
<1>1. Effect(c, k) = d BY DEF Effect, Disallow
<1>2. gone \subseteq forms /\ (forms # {} => gone # {}) OBVIOUS
<1>3. S \in SUBSET Written BY DEF Configurations
<1>4. SymDiff(Allowed(c), {w[1] : w \in S}) \subseteq {p} BY <1>2 DEF Allowed, SymDiff
<1>5. ~Twice(c.static) => p \notin {w[1] : w \in S}
  <2> SUFFICES ASSUME NEW w \in S, w[1] = p PROVE Twice(c.static) OBVIOUS
  <2>1. PICK v \in gone : v \in forms BY <1>2
  <2>2. v # w /\ v[1] = p /\ w[1] = p /\ v \in c.static /\ w \in c.static BY <2>1
  <2>3. v \in Written /\ w \in Written BY <2>2 DEF Configurations
  <2> QED BY <2>2, <2>3 DEF Written, Twice
<1> HIDE DEF S
<1>6. /\ d \in Configurations /\ AlikeBut({"static"}, c, d) /\ Spelled(d)
      /\ Allowed(d) = {w[1] : w \in S}
  BY <1>1, <1>3, Respelled
<1> HIDE DEF d
<1>7. Part(k) = {"static"} /\ (~Twice(c.static) => Achieved(k, d))
  BY <1>5, <1>6 DEF Part, Achieved
<1> QED BY <1>1, <1>4, <1>6, <1>7, LeftAlone DEF GoodEdit, OnlyAbout, Fields

LEMMA TrustGood ==
  ASSUME NEW c \in Configurations,
         NEW k \in [do : {"trust"}, ifaces : (SUBSET Interfaces) \ {{}}]
  PROVE  GoodEdit(k, c, Effect(c, k))
<1> DEFINE d == Trust(c, k.ifaces)
<1>1. Effect(c, k) = d BY DEF Effect
<1>2. d \in Configurations BY DEF Trust, Configurations
<1>3. /\ AlikeBut({"trusted", "ifaces"}, c, d)
      /\ d.trusted = TRUE /\ d.ifaces = c.ifaces \cup k.ifaces
  BY DEF Trust, Configurations, AlikeBut, Fields
<1> HIDE DEF d
<1>4. Part(k) = {"trusted", "ifaces"} /\ Achieved(k, d) BY <1>3 DEF Part, Achieved
<1>5. SymDiff(c.ifaces, d.ifaces) \subseteq k.ifaces BY <1>3 DEF SymDiff
<1>6. OnlyAbout(k, c, d) BY <1>2, <1>3, <1>4, <1>5, LeftAlone DEF OnlyAbout, Fields
<1>7. d.trusted = (d.ifaces # {})
  <2>1. k.ifaces # {} OBVIOUS
  <2>2. (d.ifaces # {}) = TRUE BY <1>3, <2>1
  <2> QED BY <1>3, <2>2
<1> QED BY <1>1, <1>2, <1>3, <1>4, <1>6, <1>7, LeftAlone DEF GoodEdit, Fields

LEMMA DistrustGood ==
  ASSUME NEW c \in Configurations,
         NEW k \in [do : {"distrust"}, ifaces : (SUBSET Interfaces) \ {{}}]
  PROVE  GoodEdit(k, c, Effect(c, k))
<1> DEFINE d == Distrust(c, k.ifaces)
<1>1. Effect(c, k) = d BY DEF Effect
<1>2. d \in Configurations BY DEF Distrust, Configurations
<1>3. /\ AlikeBut({"trusted", "ifaces"}, c, d)
      /\ d.ifaces = c.ifaces \ k.ifaces
      /\ c.trusted = (c.ifaces # {}) => d.trusted = (d.ifaces # {})
  BY DEF Distrust, Configurations, AlikeBut, Fields
<1> HIDE DEF d
<1>4. Part(k) = {"trusted", "ifaces"} /\ Achieved(k, d) BY <1>3 DEF Part, Achieved
<1>5. SymDiff(c.ifaces, d.ifaces) \subseteq k.ifaces BY <1>3 DEF SymDiff
<1>6. OnlyAbout(k, c, d) BY <1>2, <1>3, <1>4, <1>5, LeftAlone DEF OnlyAbout, Fields
<1> QED BY <1>1, <1>2, <1>3, <1>4, <1>6, LeftAlone DEF GoodEdit, Fields

LEMMA EffectGood ==
  ASSUME NEW c \in Configurations, NEW k \in Requests, k.do # "init", Effect(c, k) # Refused
  PROVE  GoodEdit(k, c, Effect(c, k))
BY OpenGood, CloseGood, AllowGood, DisallowGood, HardenGood, DDNSGood, DockerGood, HostGood,
   UnhostGood, LengthGood, TrustGood, DistrustGood DEF Requests

LEMMA InitialGood ==
  ASSUME NEW k \in [do : {"init"}, docker : BOOLEAN, ddns : BOOLEAN, ifaces : SUBSET Interfaces]
  PROVE  LET d == Initialized(k) IN
         /\ d \in Configurations /\ d.static = {} /\ d.docker = k.docker /\ d.ddns = k.ddns
         /\ d.ifaces = k.ifaces /\ d.trusted = (k.ifaces # {})
<1> DEFINE c == [Default EXCEPT !.docker = k.docker, !.ddns = k.ddns]
           t == Trust(c, k.ifaces)
<1>1. /\ c \in Configurations /\ c.static = {} /\ c.docker = k.docker /\ c.ddns = k.ddns
      /\ c.ifaces = {} /\ c.trusted = FALSE
  <2>1. /\ Default \in Configurations /\ Default.static = {} /\ Default.ifaces = {}
        /\ Default.trusted = FALSE
    BY DEF Default, Configurations, Modes
  <2> QED BY <2>1 DEF Configurations
<1>2. Initialized(k) = IF k.ifaces = {} THEN c ELSE t BY DEF Initialized
<1> HIDE DEF c
<1>3. /\ t \in Configurations /\ t.static = {} /\ t.docker = k.docker /\ t.ddns = k.ddns
      /\ t.ifaces = k.ifaces /\ t.trusted = TRUE
  BY <1>1 DEF Trust, Configurations
<1> HIDE DEF t
<1> QED BY <1>1, <1>2, <1>3

\* What a command that is not refused makes of the configuration it loaded.
LEMMA OutcomeGood ==
  ASSUME NEW c \in Configurations, NEW k \in Requests, Outcome(c, k) # Refused
  PROVE  LET d == Outcome(c, k) IN
         /\ d \in Configurations /\ Valid(d) /\ OnlyAbout(k, c, d)
         /\ ~Twice(c.static) => ~Twice(d.static) /\ Achieved(k, d)
         /\ AsWritten(c) => AsWritten(d)
<1> DEFINE d == Outcome(c, k)
<1>1. CASE k.do = "init"
  <2>1. d = Initialized(k) /\ Valid(d) BY <1>1 DEF Outcome, Save
  <2>2. k \in [do : {"init"}, docker : BOOLEAN, ddns : BOOLEAN, ifaces : SUBSET Interfaces]
    BY <1>1 DEF Requests
  <2>3. /\ d \in Configurations /\ d.static = {} /\ d.docker = k.docker /\ d.ddns = k.ddns
        /\ d.ifaces = k.ifaces /\ d.trusted = (k.ifaces # {})
    BY <2>1, <2>2, InitialGood
  <2>4. Achieved(k, d) /\ OnlyAbout(k, c, d) BY <1>1, <2>3 DEF Achieved, OnlyAbout
  <2>5. ~Twice(d.static) /\ AsWritten(d) BY <2>1, <2>3 DEF Twice, AsWritten, Spelled
  <2> QED BY <2>1, <2>3, <2>4, <2>5
<1>2. CASE k.do # "init"
  <2>1. d = Effect(c, k) /\ Valid(d) BY <1>2 DEF Outcome, Save
  <2>2. GoodEdit(k, c, d) BY <1>2, <2>1, EffectGood DEF Outcome
  <2>3. Spelled(d) => ~Twice(d.static) BY DEF Spelled, Twice, Form
  <2>4. Spelled(c) => Spelled(d) BY <2>2 DEF GoodEdit, Spelled
  <2> QED BY <1>2, <2>1, <2>2, <2>3, <2>4 DEF GoodEdit, AsWritten
<1> QED BY <1>1, <1>2

-----------------------------------------------------------------------------
(* The file and what commands have loaded.                                   *)

\* A command that is about to write has loaded a configuration and was not refused.
Accepted(r) ==
  /\ r \in [command : Requests, loaded : Configurations]
  /\ Outcome(r.loaded, r.command) # Refused

IInv ==
  /\ file \in Configurations
  /\ editor \in [Editors -> [command : Commands, loaded : Configurations] \cup {None}]
  /\ \A e \in Editors : editor[e] # None => Accepted(editor[e])

\* No prefix stands in the file twice; the file is as the commands would have written it.
SpelledOnce ==
  /\ ~Twice(file.static)
  /\ \A e \in Editors : editor[e] # None => ~Twice(editor[e].loaded.static)
Neat ==
  /\ AsWritten(file)
  /\ \A e \in Editors : editor[e] # None => AsWritten(editor[e].loaded)

LEMMA DefaultGood == Default \in Configurations /\ AsWritten(Default) /\ ~Twice(Default.static)
<1>1. Default \in Configurations BY DEF Default, Configurations, Modes
<1>2. Valid(Default)
  BY DEF Default, Valid, ValidSSH, ValidTrusted, Modes, Hardened
<1>3. Default.static = {} /\ Default.ifaces = {} /\ Default.trusted = FALSE BY DEF Default
<1> QED BY <1>1, <1>2, <1>3 DEF AsWritten, Spelled, Twice

LEMMA InitInv == Init => IInv /\ SpelledOnce /\ Neat
BY DefaultGood DEF Init, IInv, SpelledOnce, Neat

LEMMA BeginInv ==
  ASSUME IInv, NEW e \in Editors, NEW k \in Commands, Begin(e, k)
  PROVE  IInv' /\ (SpelledOnce => SpelledOnce') /\ (Neat => Neat')
<1> DEFINE r == [command |-> k, loaded |-> file]
<1>1. r \in [command : Commands, loaded : Configurations] /\ r # None /\ Accepted(r)
  BY DEF Begin, IInv, Accepted
<1>2. r.loaded = file OBVIOUS
<1> HIDE DEF r
<1>3. editor' = [editor EXCEPT ![e] = r] /\ file' = file BY DEF Begin, r
<1> QED BY <1>1, <1>2, <1>3 DEF IInv, SpelledOnce, Neat

LEMMA FinishInv ==
  ASSUME IInv, NEW e \in Editors, Finish(e)
  PROVE  IInv' /\ (SpelledOnce => SpelledOnce') /\ (Neat => Neat')
<1> DEFINE c == editor[e].loaded  d == Outcome(c, editor[e].command)
<1>1. c \in Configurations /\ editor[e].command \in Requests /\ d # Refused /\ editor[e] # None
  BY DEF Finish, IInv, Accepted
<1>2. /\ d \in Configurations /\ Valid(d) /\ (~Twice(c.static) => ~Twice(d.static))
      /\ AsWritten(c) => AsWritten(d)
  BY <1>1, OutcomeGood
<1>3. file' = d /\ editor' = [editor EXCEPT ![e] = None] BY DEF Finish
<1> HIDE DEF d
<1> QED BY <1>1, <1>2, <1>3 DEF IInv, SpelledOnce, Neat

LEMMA KilledInv ==
  ASSUME IInv, NEW e \in Editors, Killed(e)
  PROVE  IInv' /\ (SpelledOnce => SpelledOnce') /\ (Neat => Neat')
BY DEF Killed, IInv, SpelledOnce, Neat

LEMMA HandInv ==
  ASSUME IInv, EditByHand
  PROVE  /\ IInv'
         /\ (\A c \in HandEdits : ~Twice(c.static)) /\ SpelledOnce => SpelledOnce'
         /\ (\A c \in HandEdits : AsWritten(c)) /\ Neat => Neat'
BY DEF EditByHand, IInv, SpelledOnce, Neat

LEMMA NextInv ==
  ASSUME IInv, [Next]_vars
  PROVE  /\ IInv'
         /\ (\A c \in HandEdits : ~Twice(c.static)) /\ SpelledOnce => SpelledOnce'
         /\ (\A c \in HandEdits : AsWritten(c)) /\ Neat => Neat'
<1>1. CASE UNCHANGED vars BY <1>1 DEF vars, IInv, SpelledOnce, Neat
<1> QED BY <1>1, BeginInv, FinishInv, KilledInv, HandInv DEF Next

\* A write, and a kill at the moment the file is the same anyway, brings the outcome.
LEMMA WritesGood ==
  ASSUME IInv, NEW e \in Editors, Writes(e)
  PROVE  /\ OnlyAbout(editor[e].command, editor[e].loaded, file')
         /\ ~Twice(editor[e].loaded.static) => Achieved(editor[e].command, file')
BY OutcomeGood DEF Writes, IInv, Accepted

(* Whatever a command is asked, the file says so when it has written, unless a prefix  *)
(* stood in the file under two spellings (sshpolicy.go:99).                             *)
THEOREM EditsTakeEffect ==
  ASSUME \A c \in HandEdits : ~Twice(c.static)
  PROVE  Spec => EditTakesEffect
<1>1. Init => IInv /\ SpelledOnce BY InitInv
<1>2. IInv /\ SpelledOnce /\ [Next]_vars => (IInv /\ SpelledOnce)' BY NextInv
<1>3. IInv /\ SpelledOnce =>
        [ \A e \in Editors : Writes(e) => Achieved(editor[e].command, file') ]_vars
  BY WritesGood DEF SpelledOnce, Writes
<1> QED BY <1>1, <1>2, <1>3, PTL DEF Spec, EditTakesEffect

(* A command changes nothing in what it loaded but the entry it is about, whatever     *)
(* else is in the file (service_impl.go:1164).                                          *)
THEOREM EditsKeepToTheirPart == Spec => EditTouchesOnlyItsPart
<1>1. IInv => [ \A e \in Editors : Writes(e) =>
        OnlyAbout(editor[e].command, editor[e].loaded, file') ]_vars
  BY WritesGood
<1>2. Init => IInv BY InitInv
<1>3. IInv /\ [Next]_vars => IInv' BY NextInv
<1> QED BY <1>1, <1>2, <1>3, PTL DEF Spec, EditTouchesOnlyItsPart
-----------------------------------------------------------------------------
(* Adding and removing.                                                      *)

LEMMA Same ==
  ASSUME NEW c \in Configurations, NEW d \in Configurations, AlikeBut({}, c, d)
  PROVE  c = d
<1>1. /\ c.ports = d.ports /\ c.mode = d.mode /\ c.rate = d.rate /\ c.static = d.static
      /\ c.ddns = d.ddns /\ c.hosts = d.hosts /\ c.length = d.length /\ c.trusted = d.trusted
      /\ c.ifaces = d.ifaces /\ c.forwarding = d.forwarding /\ c.docker = d.docker
  BY DEF AlikeBut, Fields
<1> QED BY <1>1 DEF Configurations

\* The configuration a command leaves, when its edit is valid.
LEMMA Left ==
  ASSUME NEW c \in Configurations, NEW d \in Configurations, NEW k, k.do # "init",
         Valid(c), Effect(c, k) = d, Valid(d)
  PROVE  Outcome(c, k) = d /\ d # Refused
BY DEF Outcome, Loads, Save

LEMMA PortsRestored ==
  ASSUME NEW c \in Configurations, Valid(c), NEW r \in Ranges \ c.ports, ValidRange(r)
  PROVE  LET d == Outcome(c, [do |-> "open", range |-> r])
         IN  d # Refused /\ Outcome(d, [do |-> "close", range |-> r, strict |-> TRUE]) = c
<1> DEFINE add == [do |-> "open", range |-> r]
           remove == [do |-> "close", range |-> r, strict |-> TRUE]
           d == [c EXCEPT !.ports = c.ports \cup {r}]
           b == [d EXCEPT !.ports = d.ports \ {r}]
<1>1. /\ d \in Configurations /\ AlikeBut({"ports"}, c, d) /\ d.ports = c.ports \cup {r}
  BY DEF Configurations, AlikeBut, Fields
<1>2. Valid(d) BY <1>1 DEF Valid, ValidSSH, ValidTrusted, Covered, AlikeBut, Fields
<1>3. Effect(c, add) = d BY DEF Effect, OpenPorts
<1> HIDE DEF d
<1>4. Outcome(c, add) = d /\ d # Refused BY <1>1, <1>2, <1>3, Left
<1>5. /\ b \in Configurations /\ AlikeBut({"ports"}, d, b) /\ b.ports = c.ports
  BY <1>1 DEF Configurations, AlikeBut, Fields
<1>6. Effect(d, remove) = b BY <1>1 DEF Effect, ClosePorts
<1> HIDE DEF b
<1>7. b = c BY <1>1, <1>5, Same DEF AlikeBut, Fields
<1> QED BY <1>1, <1>2, <1>4, <1>6, <1>7, Left

LEMMA HostsRestored ==
  ASSUME NEW c \in Configurations, Valid(c), NEW h \in HostNames \ c.hosts
  PROVE  LET d == Outcome(c, [do |-> "host", host |-> h])
         IN  d # Refused /\ Outcome(d, [do |-> "unhost", host |-> h, strict |-> TRUE]) = c
<1> DEFINE add == [do |-> "host", host |-> h]
           remove == [do |-> "unhost", host |-> h, strict |-> TRUE]
           d == [c EXCEPT !.hosts = c.hosts \cup {h}]
           b == [d EXCEPT !.hosts = d.hosts \ {h}]
<1>1. /\ d \in Configurations /\ AlikeBut({"hosts"}, c, d) /\ d.hosts = c.hosts \cup {h}
  BY DEF Configurations, AlikeBut, Fields
<1>2. Valid(d) BY <1>1 DEF Valid, ValidSSH, ValidTrusted, Covered, AlikeBut, Fields
<1>3. Effect(c, add) = d BY DEF Effect, AddHost
<1> HIDE DEF d
<1>4. Outcome(c, add) = d /\ d # Refused BY <1>1, <1>2, <1>3, Left
<1>5. /\ b \in Configurations /\ AlikeBut({"hosts"}, d, b) /\ b.hosts = c.hosts
  BY <1>1 DEF Configurations, AlikeBut, Fields
<1>6. Effect(d, remove) = b BY <1>1 DEF Effect, RemoveHost
<1> HIDE DEF b
<1>7. b = c BY <1>1, <1>5, Same DEF AlikeBut, Fields
<1> QED BY <1>1, <1>2, <1>4, <1>6, <1>7, Left

LEMMA InterfacesRestored ==
  ASSUME NEW c \in Configurations, AsWritten(c), NEW i \in Interfaces \ c.ifaces
  PROVE  LET d == Outcome(c, [do |-> "trust", ifaces |-> {i}])
         IN  d # Refused /\ Outcome(d, [do |-> "distrust", ifaces |-> {i}]) = c
<1> DEFINE add == [do |-> "trust", ifaces |-> {i}]
           remove == [do |-> "distrust", ifaces |-> {i}]
           d == Trust(c, {i})
           b == Distrust(d, {i})
<1>1. /\ d \in Configurations /\ AlikeBut({"trusted", "ifaces"}, c, d)
      /\ d.ifaces = c.ifaces \cup {i} /\ d.trusted = TRUE
  BY DEF Trust, Configurations, AlikeBut, Fields
<1>2. Valid(d)
  BY <1>1 DEF AsWritten, Valid, ValidSSH, ValidTrusted, Covered, AlikeBut, Fields
<1>3. Effect(c, add) = d BY DEF Effect
<1> HIDE DEF d
<1>4. Outcome(c, add) = d /\ d # Refused BY <1>1, <1>2, <1>3, Left DEF AsWritten
<1>5. d.ifaces \ {i} = c.ifaces /\ {i} \cap d.ifaces # {} BY <1>1
<1>6. /\ b \in Configurations /\ AlikeBut({"trusted", "ifaces"}, d, b) /\ b.ifaces = c.ifaces
      /\ b.trusted = (c.ifaces # {})
  BY <1>1, <1>5 DEF Distrust, Configurations, AlikeBut, Fields
<1>7. Effect(d, remove) = b BY DEF Effect
<1> HIDE DEF b
<1>8. b = c BY <1>1, <1>6, Same DEF AsWritten, AlikeBut, Fields
<1> QED BY <1>1, <1>2, <1>4, <1>7, <1>8, Left DEF AsWritten

LEMMA PrefixesRestored ==
  ASSUME NEW c \in Configurations, AsWritten(c), NEW p \in Prefixes \ Allowed(c)
  PROVE  LET d == Outcome(c, [do |-> "allow", prefix |-> p])
         IN  d # Refused /\ Outcome(d, [do |-> "disallow", prefix |-> p, strict |-> TRUE]) = c
<1> DEFINE add == [do |-> "allow", prefix |-> p]
           remove == [do |-> "disallow", prefix |-> p, strict |-> TRUE]
           S == c.static \cup {Form(p)}
           d == [c EXCEPT !.static = S]
           b == [d EXCEPT !.static = c.static]
<1>1. c.static \in SUBSET Written /\ \A w \in c.static : w[1] \in Prefixes /\ w = Form(w[1])
  BY SingleAssumption DEF AsWritten, Spelled, Configurations, Written
<1>2. Form(p) \in Written /\ Form(p)[1] = p BY DEF Form, Written
<1>3. S \in SUBSET Written /\ \A w \in S : w = Form(w[1]) BY <1>1, <1>2
<1>4. {Form(w[1]) : w \in S} = S /\ {Form(w[1]) : w \in c.static} = c.static BY <1>1, <1>3
<1>5. \A T \in SUBSET S : ~Twice(T) BY <1>3 DEF Twice, Form
<1>6. \A w \in c.static : w[1] # p BY DEF Allowed
<1> HIDE DEF S
<1>7. /\ d \in Configurations /\ AlikeBut({"static"}, c, d) /\ d.static = S
  BY <1>3 DEF Configurations, AlikeBut, Fields
<1>8. c.static # {} => d.static # {} BY <1>7 DEF S
<1>9. Valid(d)
  BY <1>7, <1>8 DEF AsWritten, Valid, ValidSSH, ValidTrusted, Covered, AlikeBut, Fields
<1>10. Effect(c, add) = d BY <1>4, <1>5, <1>6 DEF Effect, Allow, Rewritten, S
<1> HIDE DEF d
<1>11. Outcome(c, add) = d /\ d # Refused BY <1>7, <1>9, <1>10, Left DEF AsWritten
<1>12. /\ b \in Configurations /\ AlikeBut({"static"}, d, b) /\ b.static = c.static
  BY <1>1, <1>7 DEF Configurations, AlikeBut, Fields
<1>13. {w \in d.static : w[1] = p} = {Form(p)} /\ d.static \ {Form(p)} = c.static
  BY <1>2, <1>6, <1>7 DEF S
<1>14. Effect(d, remove) = b
  <2>1. (CHOOSE w \in {Form(p)} : TRUE) = Form(p) OBVIOUS
  <2>2. ~Twice(c.static) BY <1>5 DEF S
  <2>3. Effect(d, remove) = Rewritten(d, c.static) BY <1>13, <2>1 DEF Effect, Disallow
  <2> QED BY <1>4, <2>2, <2>3 DEF Rewritten
<1> HIDE DEF b
<1>15. b = c BY <1>7, <1>12, Same DEF AlikeBut, Fields
<1> QED BY <1>7, <1>9, <1>11, <1>14, <1>15, Left DEF AsWritten

(* What a command adds another takes back, and the file is what it was, unless the    *)
(* file was written by hand in a way the commands do not (service_impl.go:1164).       *)
THEOREM EntriesCanBeTakenBack ==
  ASSUME \A c \in HandEdits : AsWritten(c)
  PROVE  Spec => []AddRemoveRestores
<1>1. Init => IInv /\ Neat BY InitInv
<1>2. IInv /\ Neat /\ [Next]_vars => (IInv /\ Neat)' BY NextInv
<1>3. IInv /\ Neat => AddRemoveRestores
  <2> SUFFICES ASSUME IInv, Neat PROVE AddRemoveRestores OBVIOUS
  <2>1. file \in Configurations /\ AsWritten(file) /\ Valid(file) BY DEF IInv, Neat, AsWritten
  <2> QED
    BY <2>1, PortsRestored, PrefixesRestored, HostsRestored, InterfacesRestored
    DEF AddRemoveRestores
<1> QED BY <1>1, <1>2, <1>3, PTL DEF Spec
=============================================================================
