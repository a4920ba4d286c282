----------------------------- MODULE PolicyProof -----------------------------
(***************************************************************************)
(* What the rendered rules admit, for every configuration, address, interface  *)
(* and port; and that apply keeps the session it runs in but for two cases, an   *)
(* answer that moved since the candidate was rendered and a trusted address of    *)
(* another interface.                                                             *)
(***************************************************************************)
EXTENDS PolicyProperties, TLAPS

USE FamilyAssumption, SessionAssumption

-----------------------------------------------------------------------------
(* The first rule that hits decides. *)

LEMMA FirstHit ==
  ASSUME NEW rules, NEW n \in Nat, DOMAIN rules = 1..n, NEW policy, NEW k \in 1..n,
         rules[k][1], \A j \in 1..n : j < k => ~rules[j][1]
  PROVE  Decide(rules, policy) = rules[k][2]
<1> DEFINE hits == {i \in DOMAIN rules : rules[i][1]}
<1>1. k \in hits /\ \A j \in hits : k <= j OBVIOUS
<1>2. \A i \in hits : (\A j \in hits : i <= j) => i = k BY <1>1
<1>3. (CHOOSE i \in hits : \A j \in hits : i <= j) = k BY <1>1, <1>2
<1>4. hits # {} BY <1>1
<1> QED BY <1>3, <1>4 DEF Decide

LEMMA NoHit ==
  ASSUME NEW rules, NEW policy, \A i \in DOMAIN rules : ~rules[i][1]
  PROVE  Decide(rules, policy) = policy
BY DEF Decide

LEMMA InputRules ==
  ASSUME NEW pol, NEW p
  PROVE  /\ DOMAIN Input(pol, p) = 1..10
         /\ Input(pol, p)[1][1] <=> p.proto = "icmp"
         /\ Input(pol, p)[2][1] <=> p.iif \in pol.trusted
         /\ Input(pol, p)[3][1] <=> p.ct = "established"
         /\ Input(pol, p)[4][1] <=> (p.proto = "tcp" /\ p.ct = "invalid")
         /\ Input(pol, p)[5][1] <=> p.iif = Loopback
         /\ Input(pol, p)[6][1] <=> (pol.docker /\ p.iif = Bridge)
         /\ Input(pol, p)[7][1] <=> (p.iif = WAN /\ p.spoofed)
         /\ Input(pol, p)[8][1] <=> (p.proto = "tcp" /\ p.ct = "new" /\ p.pace = "flood")
         /\ Input(pol, p)[9][1] <=> (<<p.proto, p.port>> = SSH /\ SSHAdmits(pol, p))
         /\ Input(pol, p)[10][1] <=> (p.iif = WAN /\ Open(pol, p.proto, p.port))
<1>1. DOMAIN Input(pol, p) = 1..10 BY DEF Input
<1>2. /\ Input(pol, p)[1][1] <=> p.proto = "icmp"
      /\ Input(pol, p)[2][1] <=> p.iif \in pol.trusted
      /\ Input(pol, p)[3][1] <=> p.ct = "established"
  BY DEF Input
<1>3. Input(pol, p)[4][1] <=> (p.proto = "tcp" /\ p.ct = "invalid") BY DEF Input
<1>4. Input(pol, p)[5][1] <=> p.iif = Loopback BY DEF Input
<1>5. Input(pol, p)[6][1] <=> (pol.docker /\ p.iif = Bridge) BY DEF Input
<1>6. Input(pol, p)[7][1] <=> (p.iif = WAN /\ p.spoofed) BY DEF Input
<1>7. Input(pol, p)[8][1] <=> (p.proto = "tcp" /\ p.ct = "new" /\ p.pace = "flood") BY DEF Input
<1>8. Input(pol, p)[9][1] <=> (<<p.proto, p.port>> = SSH /\ SSHAdmits(pol, p)) BY DEF Input
<1>9. Input(pol, p)[10][1] <=> (p.iif = WAN /\ Open(pol, p.proto, p.port)) BY DEF Input
<1> QED BY <1>1, <1>2, <1>3, <1>4, <1>5, <1>6, <1>7, <1>8, <1>9

LEMMA InputVerdicts ==
  ASSUME NEW pol, NEW p, NEW i \in 1..10
  PROVE  Input(pol, p)[i][2] = IF i \in {4, 7, 8} THEN "drop" ELSE "accept"
<1>1. /\ Input(pol, p)[1][2] = "accept" /\ Input(pol, p)[2][2] = "accept"
      /\ Input(pol, p)[3][2] = "accept" /\ Input(pol, p)[4][2] = "drop"
      /\ Input(pol, p)[5][2] = "accept"
  BY DEF Input
<1>2. /\ Input(pol, p)[6][2] = "accept" /\ Input(pol, p)[7][2] = "drop"
      /\ Input(pol, p)[8][2] = "drop" /\ Input(pol, p)[9][2] = "accept"
      /\ Input(pol, p)[10][2] = "accept"
  BY DEF Input
<1>3. i \in {1, 2, 3, 4, 5, 6, 7, 8, 9, 10} OBVIOUS
<1> QED BY <1>1, <1>2, <1>3

LEMMA InputDecides ==
  ASSUME NEW pol, NEW p, NEW k \in 1..10, Input(pol, p)[k][1],
         \A j \in 1..10 : j < k => ~Input(pol, p)[j][1]
  PROVE  Decide(Input(pol, p), "drop") = IF k \in {4, 7, 8} THEN "drop" ELSE "accept"
<1> DEFINE r == Input(pol, p)
<1>1. DOMAIN r = 1..10 BY InputRules
<1>2. r[k][2] = IF k \in {4, 7, 8} THEN "drop" ELSE "accept" BY InputVerdicts
<1> HIDE DEF r
<1>3. r[k][1] /\ \A j \in 1..10 : j < k => ~r[j][1] BY DEF r
<1>4. 10 \in Nat OBVIOUS
<1>5. Decide(r, "drop") = r[k][2] BY ONLY <1>1, <1>3, <1>4, k \in 1..10, FirstHit
<1> QED BY <1>2, <1>5 DEF r

LEMMA ForwardRules ==
  ASSUME NEW pol, NEW p, pol.docker
  PROVE  /\ DOMAIN Forward(pol, p) = 1..6
         /\ Forward(pol, p)[1][1] <=> p.proto = "icmp"
         /\ Forward(pol, p)[2][1] <=>
              (pol.forward /\ (p.iif \in pol.trusted \/ p.oif \in pol.trusted))
         /\ Forward(pol, p)[3][1] <=> p.ct = "established"
         /\ Forward(pol, p)[4][1] <=> (p.proto = "tcp" /\ p.ct = "invalid")
         /\ Forward(pol, p)[5][1] <=>
              (p.family = "v4" /\ p.iif = WAN /\ p.oif = Bridge /\ p.dnat)
         /\ Forward(pol, p)[5][2] = Verdict(GateIPv4(pol, p))
<1>1. DOMAIN Forward(pol, p) = 1..6 BY DEF Forward
<1>2. Forward(pol, p)[1][1] <=> p.proto = "icmp" BY DEF Forward
<1>3. Forward(pol, p)[2][1] <=>
        (pol.forward /\ (p.iif \in pol.trusted \/ p.oif \in pol.trusted))
  BY DEF Forward
<1>4. Forward(pol, p)[3][1] <=> p.ct = "established" BY DEF Forward
<1>5. Forward(pol, p)[4][1] <=> (p.proto = "tcp" /\ p.ct = "invalid") BY DEF Forward
<1>6. Forward(pol, p)[5][1] <=> (p.family = "v4" /\ p.iif = WAN /\ p.oif = Bridge /\ p.dnat)
  BY DEF Forward
<1>7. Forward(pol, p)[5][2] = Verdict(GateIPv4(pol, p)) BY DEF Forward
<1> QED BY <1>1, <1>2, <1>3, <1>4, <1>5, <1>6, <1>7

LEMMA ForwardDecides ==
  ASSUME NEW pol, NEW p, pol.docker, Forward(pol, p)[5][1],
         \A j \in {1, 2, 3, 4} : ~Forward(pol, p)[j][1]
  PROVE  Decide(Forward(pol, p), "accept") = Verdict(GateIPv4(pol, p))
<1> DEFINE r == Forward(pol, p)
<1>1. DOMAIN r = 1..6 /\ r[5][2] = Verdict(GateIPv4(pol, p)) BY ForwardRules
<1> HIDE DEF r
<1>2. \A j \in 1..6 : j < 5 => j \in {1, 2, 3, 4} OBVIOUS
<1>3. r[5][1] /\ \A j \in 1..6 : j < 5 => ~r[j][1] BY <1>2 DEF r
<1>4. 6 \in Nat /\ 5 \in 1..6 OBVIOUS
<1>5. Decide(r, "accept") = r[5][2] BY ONLY <1>1, <1>3, <1>4, FirstHit
<1> QED BY <1>1, <1>5 DEF r

-----------------------------------------------------------------------------
(* The packets of the properties. *)

LEMMA PacketFields ==
  ASSUME NEW i, NEW o, NEW a, NEW t, NEW u, NEW c, NEW s, NEW r
  PROVE  LET p == Packet(i, o, a, t, u, c, s, r) IN
         /\ p.iif = i /\ p.oif = o /\ p.family = FamilyOf[a] /\ p.src = a /\ p.proto = t[1]
         /\ p.port = t[2] /\ p.public = u[2] /\ p.ct = c /\ p.pace = r
         /\ p.dnat = (t # u) /\ p.spoofed = s
BY DEF Packet

\* What the rules say of a new connection from WAN.
LEMMA FromWAN ==
  ASSUME NEW pol, NEW p, WAN # Loopback, WAN # Bridge,
         p.ct = "new", p.proto # "icmp", Untrusted(pol, p), ToHost(pol, p)
  PROVE  /\ ~p.spoofed
         /\ Open(pol, p.proto, p.port) \/ (<<p.proto, p.port>> = SSH /\ SSHAdmits(pol, p))
<1> DEFINE r == Input(pol, p)
<1>1. p.iif = WAN /\ WAN \notin pol.trusted BY DEF Untrusted
<1>2. DOMAIN r = 1..10 BY InputRules
<1>3. /\ ~r[1][1] /\ ~r[2][1] /\ ~r[3][1] /\ ~r[4][1] /\ ~r[5][1] /\ ~r[6][1]
      /\ (r[7][1] <=> p.spoofed)
  BY <1>1, InputRules
<1>4. Decide(r, "drop") = "accept" BY DEF ToHost
<1> HIDE DEF r
<1>5. ASSUME p.spoofed PROVE FALSE
  <2>1. r[7][1] BY <1>3, <1>5
  <2>2. \A j \in 1..10 : j < 7 => ~r[j][1]
    <3>1. \A j \in 1..10 : j < 7 => j \in {1, 2, 3, 4, 5, 6} OBVIOUS
    <3> QED BY <3>1, <1>3
  <2>3. Decide(r, "drop") = "drop" BY <2>1, <2>2, InputDecides DEF r
  <2> QED BY <1>4, <2>3
<1>6. ASSUME ~Open(pol, p.proto, p.port), ~(<<p.proto, p.port>> = SSH /\ SSHAdmits(pol, p))
      PROVE  FALSE
  <2>1. ~r[9][1] BY <1>6, InputRules DEF r
  <2>2. ~r[10][1] BY <1>6, InputRules DEF r
  <2>3. ~r[7][1] BY <1>3, <1>5
  <2>4. \A j \in 1..10 : j # 8 => ~r[j][1]
    <3>1. \A j \in 1..10 : j # 8 => j \in {1, 2, 3, 4, 5, 6, 7, 9, 10} OBVIOUS
    <3> QED BY <3>1, <1>3, <2>1, <2>2, <2>3
  <2>5. CASE r[8][1]
    <3>1. Decide(r, "drop") = "drop" BY <2>4, <2>5, InputDecides DEF r
    <3> QED BY <1>4, <3>1
  <2>6. CASE ~r[8][1]
    <3>1. Decide(r, "drop") = "drop" BY <1>2, <2>4, <2>6, NoHit
    <3> QED BY <1>4, <3>1
  <2> QED BY <2>5, <2>6
<1> QED BY <1>5, <1>6

(* Whatever the configuration, a packet from an untrusted WAN that opens a       *)
(* connection with the host gets in at a public port or at SSH under the mode's   *)
(* conditions only, and not from a forged source: no earlier rule of the input    *)
(* chain accepts it.  config.Validate does not keep the WAN interface from being  *)
(* the loopback or a bridge, whose rules accept everything; here it is neither.   *)
THEOREM DefaultDeny ==
  ASSUME WAN # Loopback, WAN # Bridge
  PROVE  Spec => []WANIsClosed
<1>1. WANIsClosed
  <2> SUFFICES ASSUME NEW p \in ToHostPackets, p.ct = "new", p.proto # "icmp",
                      Untrusted(table, p), ToHost(table, p)
               PROVE  /\ ~p.spoofed
                      /\ \/ Open(table, p.proto, p.port)
                         \/ /\ <<p.proto, p.port>> = SSH
                            /\ table.mode = "open" \/ Allowed(table, p.src)
    BY DEF WANIsClosed
  <2>1. PICK i \in Interfaces, a \in Addrs, t \in Tuples, c \in Connection,
             s \in BOOLEAN, r \in Pace :
          p = Packet(i, None, a, t, t, c, s, r)
    BY DEF ToHostPackets
  <2>2. p.family = FamilyOf[p.src] BY <2>1, PacketFields
  <2>3. SSHAdmits(table, p) => table.mode = "open" \/ Allowed(table, p.src)
    BY <2>2 DEF SSHAdmits, Allowed
  <2> QED BY <2>3, FromWAN
<1> QED BY <1>1, PTL

-----------------------------------------------------------------------------
(* The invariant: what a running apply goes on with. *)

Elems == {ElementOf(a) : a \in Addrs}
Applies ==
  [pc : {"idle", "check", "load"}, cfg : Configs \cup {None}, req : Requests \cup {None},
   elements : [Families -> SUBSET Elems], moved : BOOLEAN]

TypeOK ==
  /\ dns \in [Hosts -> UNION {Answers[h] : h \in Hosts}]
  /\ \A h \in Hosts : dns[h] \in Answers[h]
  /\ session \in Sessions \cup {None}
  /\ apply \in Applies
  /\ apply.pc # "idle" => apply.cfg \in Configs

\* The loaded policy is that of a configuration.
TableRendered == table # None =>
  \E c \in Configs, e \in [Families -> SUBSET Elems] : table = Rendered(c, e)

\* The candidate admits the session, or the operator said to do without, or only the
\* second lookup named the session's address.
CandidateCovers ==
  apply.pc = "load" =>
    \/ session = None \/ apply.cfg.mode = "open" \/ session.src \in apply.cfg.static
    \/ apply.cfg.ddns /\ ElementOf(session.src) \in apply.elements[FamilyOf[session.src]]
    \/ apply.cfg.trusted /\ session.server \in apply.cfg.ifaces
    \/ apply.req.ack \/ apply.moved

IInv == TypeOK /\ TableRendered
CInv == IInv /\ CandidateCovers

LEMMA SetsType ==
  ASSUME NEW found \in SUBSET Addrs
  PROVE  SetsOf(found) \in [Families -> SUBSET Elems]
<1>1. \A f \in Families : {ElementOf(a) : a \in {b \in found : FamilyOf[b] = f}} \in SUBSET Elems
  BY DEF Elems
<1> QED BY <1>1 DEF SetsOf

LEMMA FoundType ==
  ASSUME TypeOK, NEW c \in Configs
  PROVE  Found(c) \in SUBSET Addrs
<1>1. \A h \in c.hosts : h \in Hosts /\ dns[h] \in Answers[h] BY DEF TypeOK
<1>2. \A h \in c.hosts : Answer(h) \in SUBSET Addrs BY <1>1 DEF Answer
<1> QED BY <1>2 DEF Found

LEMMA InitInv == Init => CInv
<1> SUFFICES ASSUME Init PROVE CInv OBVIOUS
<1>1. NoElements \in [Families -> SUBSET Elems] BY SetsType DEF NoElements
<1>2. apply \in Applies /\ apply.pc = "idle" BY <1>1 DEF Init, Idle, Applies
<1> QED BY <1>2 DEF Init, CInv, IInv, TypeOK, TableRendered, CandidateCovers

LEMMA StopType == ASSUME Stop PROVE apply' \in Applies /\ apply'.pc = "idle"
<1>1. NoElements \in [Families -> SUBSET Elems] BY SetsType DEF NoElements
<1> QED BY <1>1 DEF Stop, Idle, Applies

LEMMA ApplyStartStep ==
  ASSUME IInv, NEW cfg \in Configs, NEW req \in Requests, ApplyStart(cfg, req)
  PROVE  IInv' /\ apply'.pc # "load"
<1>1. CASE Stop
  BY <1>1, StopType DEF ApplyStart, IInv, TypeOK, TableRendered
<1>2. CASE /\ ~(cfg.ddns /\ ~Resolvable(cfg))
           /\ apply' = [pc |-> "check", cfg |-> cfg, req |-> req,
                        elements |-> IF cfg.ddns THEN SetsOf(Found(cfg)) ELSE NoElements,
                        moved |-> FALSE]
  <2>1. Found(cfg) \in SUBSET Addrs BY FoundType DEF IInv
  <2>2. SetsOf(Found(cfg)) \in [Families -> SUBSET Elems] BY <2>1, SetsType
  <2>3. NoElements \in [Families -> SUBSET Elems] BY SetsType DEF NoElements
  <2>4. apply' \in Applies /\ apply'.pc = "check" /\ apply'.cfg = cfg
    BY <1>2, <2>2, <2>3 DEF Applies
  <2> QED BY <2>4 DEF ApplyStart, IInv, TypeOK, TableRendered
<1> QED BY <1>1, <1>2 DEF ApplyStart

LEMMA CheckSessionStep ==
  ASSUME IInv, CheckSession
  PROVE  /\ IInv'
         /\ apply'.pc # "idle" =>
              /\ CheckPasses(apply.cfg, apply.req)
              /\ apply'.cfg = apply.cfg /\ apply'.elements = apply.elements
              /\ apply'.req = apply.req /\ (Moved => apply'.moved)
<1>1. CASE Stop BY <1>1, StopType DEF CheckSession, IInv, TypeOK, TableRendered
<1>2. CASE /\ CheckPasses(apply.cfg, apply.req)
           /\ apply' = [apply EXCEPT !.pc = "load", !.moved = Moved]
  <2> DEFINE m == Moved
  <2>0. m \in BOOLEAN BY DEF Moved
  <2>a. apply' = [apply EXCEPT !.pc = "load", !.moved = m] BY <1>2
  <2>b. m <=> Moved OBVIOUS
  <2> HIDE DEF m
  <2>1. /\ apply' \in Applies /\ apply'.cfg = apply.cfg /\ apply'.elements = apply.elements
        /\ apply'.req = apply.req /\ apply'.moved = m
    BY <2>0, <2>a DEF IInv, TypeOK, Applies
  <2> QED BY <1>2, <2>1, <2>b DEF CheckSession, IInv, TypeOK, TableRendered
<1> QED BY <1>1, <1>2 DEF CheckSession

LEMMA ApplyLoadStep ==
  ASSUME IInv, ApplyLoad
  PROVE  IInv' /\ apply'.pc = "idle"
<1>1. apply.cfg \in Configs /\ apply.elements \in [Families -> SUBSET Elems]
  BY DEF ApplyLoad, IInv, TypeOK, Applies
<1>2. TableRendered' BY <1>1 DEF ApplyLoad, IInv, TableRendered
<1> QED BY <1>2, StopType DEF ApplyLoad, IInv, TypeOK

LEMMA DNSChangesStep ==
  ASSUME IInv, NEW h \in Hosts, DNSChanges(h)
  PROVE  IInv'
<1>1. PICK x \in Answers[h] : dns' = [dns EXCEPT ![h] = x] BY DEF DNSChanges
<1> QED BY <1>1 DEF DNSChanges, IInv, TypeOK, TableRendered

LEMMA InvStep == IInv /\ [Next]_vars => IInv'
<1> SUFFICES ASSUME IInv, [Next]_vars PROVE IInv' OBVIOUS
<1>1. CASE UNCHANGED vars BY <1>1 DEF vars, IInv, TypeOK, TableRendered
<1> QED BY <1>1, ApplyStartStep, CheckSessionStep, ApplyLoadStep, DNSChangesStep DEF Next

LEMMA Invariance == Spec => []IInv
<1>1. Init => IInv BY InitInv DEF CInv
<1> QED BY <1>1, InvStep, PTL DEF Spec

(* Once the backend is on, a new IPv4 connection from an untrusted WAN reaches a   *)
(* published service only if its public port is open, whatever the configuration:  *)
(* the gate of forward_wan_gate sees it, unless the Docker bridge itself is made a  *)
(* trusted interface, which config.Validate allows and this theorem excludes.       *)
THEOREM PublishedNeedsTuple ==
  ASSUME \A c \in Configs : Bridge \notin c.ifaces
  PROVE  Spec => []PublishedIPv4ByTuple
<1>1. IInv => PublishedIPv4ByTuple
  <2> SUFFICES ASSUME IInv, table # None, table.docker, NEW p \in PublishedPackets,
                      p.family = "v4", Untrusted(table, p), Through(table, p)
               PROVE  Open(table, p.proto, p.public)
    BY DEF PublishedIPv4ByTuple, PublishedByTuple
  <2>1. PICK a \in Addrs, q \in Published :
          p = Packet(WAN, Bridge, a, q[1], q[2], "new", FALSE, "calm")
    BY DEF PublishedPackets, Packet
  <2>2. /\ p.iif = WAN /\ p.oif = Bridge /\ p.ct = "new" /\ p.proto # "icmp" /\ p.dnat
    <3>1. q[1][1] # "icmp" /\ q[1] # q[2] BY DEF Published
    <3> HIDE DEF Published
    <3>2. p.iif = WAN /\ p.oif = Bridge /\ p.ct = "new" /\ p.proto = q[1][1]
      BY <2>1 DEF Packet
    <3>3. p.dnat = (q[1] # q[2]) BY <2>1 DEF Packet
    <3> QED BY <3>1, <3>2, <3>3
  <2>3. Bridge \notin table.trusted
    <3>1. PICK c \in Configs, e \in [Families -> SUBSET Elems] : table = Rendered(c, e)
      BY DEF IInv, TableRendered
    <3>2. table.trusted = InForce(c) BY <3>1 DEF Rendered
    <3> QED BY <3>2 DEF InForce
  <2>4. WAN \notin table.trusted BY <2>2 DEF Untrusted
  <2>5. Forward(table, p)[5][1] BY <2>2, ForwardRules
  <2>6. ~Forward(table, p)[1][1] /\ ~Forward(table, p)[2][1]
        /\ ~Forward(table, p)[3][1] /\ ~Forward(table, p)[4][1]
    BY <2>2, <2>3, <2>4, ForwardRules
  <2>7. Decide(Forward(table, p), "accept") = Verdict(GateIPv4(table, p))
    BY <2>5, <2>6, ForwardDecides
  <2> QED BY <2>7 DEF Through, Verdict, GateIPv4
<1> QED BY <1>1, Invariance, PTL

-----------------------------------------------------------------------------
(* The session of the operator. *)

LEMMA CoverInvStep == CInv /\ [Next]_vars => CInv'
<1> SUFFICES ASSUME CInv, [Next]_vars PROVE CandidateCovers'
  BY InvStep DEF CInv
<1>1. ASSUME NEW cfg \in Configs, NEW req \in Requests, ApplyStart(cfg, req)
      PROVE  CandidateCovers'
  BY <1>1, ApplyStartStep DEF CInv, CandidateCovers
<1>2. CASE CheckSession
  <2>1. /\ apply.cfg \in Configs
        /\ apply'.pc # "idle" =>
             /\ CheckPasses(apply.cfg, apply.req)
             /\ apply'.cfg = apply.cfg /\ apply'.elements = apply.elements
             /\ apply'.req = apply.req /\ (Moved => apply'.moved)
    BY <1>2, CheckSessionStep DEF CInv, IInv, TypeOK, CheckSession
  <2>2. session' = session BY <1>2 DEF CheckSession
  <2>3. ASSUME apply'.pc = "load" PROVE CandidateCovers'
    <3>1. Covered(apply.cfg) \/ apply.req.ack BY <2>1, <2>3 DEF CheckPasses, Acknowledged
    <3>2. DDNSCovers(apply.cfg) /\ session # None =>
            apply'.moved \/ ElementOf(session.src) \in apply.elements[FamilyOf[session.src]]
      BY <2>1, <2>3 DEF Moved
    <3> QED BY <2>1, <2>2, <3>1, <3>2
            DEF CandidateCovers, Covered, StaticCovers, TrustCovers, DDNSCovers
  <2> QED BY <2>3 DEF CandidateCovers
<1>3. CASE ApplyLoad BY <1>3, ApplyLoadStep DEF CInv, CandidateCovers
<1>4. ASSUME NEW h \in Hosts, DNSChanges(h) PROVE CandidateCovers'
  BY <1>4 DEF DNSChanges, CInv, CandidateCovers
<1>5. CASE UNCHANGED vars
  BY <1>5 DEF vars, CInv, CandidateCovers
<1> QED BY <1>1, <1>2, <1>3, <1>4, <1>5 DEF Next

\* What is rendered of a candidate that covers the session accepts it.
LEMMA CandidateAccepts ==
  ASSUME CInv, apply.pc = "load", session # None,
         NEW pol, pol = Rendered(apply.cfg, apply.elements),
         session.iif = WAN \/ pol.mode # "open", ~apply.req.ack, ~apply.moved,
         ~TrustedElsewhere(pol)
  PROVE  Covers(pol)
<1> DEFINE p == NewConnection
           r == Input(pol, p)
           c == apply.cfg
<1>1. /\ p.iif = session.iif /\ p.src = session.src /\ p.family = FamilyOf[session.src]
      /\ p.proto = "tcp" /\ p.port = 22 /\ p.ct = "new" /\ p.pace = "calm" /\ ~p.spoofed
  BY DEF NewConnection, Packet, SSH
<1>2. /\ pol.mode = c.mode /\ pol.static = c.static /\ pol.trusted = InForce(c)
      /\ c.ddns => pol.ddns = apply.elements
  BY DEF Rendered
<1>3. session \in Sessions /\ c \in Configs BY DEF CInv, IInv, TypeOK
<1> HIDE DEF p
<1>4. p.iif \in pol.trusted \/ SSHAdmits(pol, p)
  <2>1. CASE c.mode = "open" BY <2>1, <1>1, <1>2 DEF SSHAdmits
  <2>2. CASE c.mode # "open" /\ (\/ session.src \in c.static
                                 \/ c.ddns /\ ElementOf(session.src)
                                                \in apply.elements[FamilyOf[session.src]])
    BY <2>2, <1>1, <1>2 DEF SSHAdmits
  <2>3. CASE c.trusted /\ session.server \in c.ifaces
    <3>1. session.server \in pol.trusted BY <2>3, <1>2 DEF InForce
    <3> QED BY <3>1, <1>1 DEF TrustedElsewhere
  <2> QED BY <2>1, <2>2, <2>3 DEF CInv, CandidateCovers
<1>5. /\ ~r[1][1] /\ ~r[3][1] /\ ~r[4][1] /\ ~r[7][1] /\ ~r[8][1]
  BY <1>1, InputRules
<1>6. r[2][1] <=> p.iif \in pol.trusted BY InputRules
<1>7. SSHAdmits(pol, p) => r[9][1]
  <2>1. <<p.proto, p.port>> = SSH BY <1>1 DEF SSH
  <2> QED BY <2>1, InputRules
<1>8. Decide(r, "drop") = "accept"
  <2> HIDE DEF r
  <2>1. CASE r[2][1]
    <3>1. \A j \in 1..10 : j < 2 => j = 1 OBVIOUS
    <3>2. \A j \in 1..10 : j < 2 => ~r[j][1] BY <3>1, <1>5
    <3> QED BY <2>1, <3>2, InputDecides DEF r
  <2>2. CASE ~r[2][1] /\ r[5][1]
    <3>1. \A j \in 1..10 : j < 5 => j \in {1, 2, 3, 4} OBVIOUS
    <3>2. \A j \in 1..10 : j < 5 => ~r[j][1] BY <3>1, <1>5, <2>2
    <3> QED BY <2>2, <3>2, InputDecides DEF r
  <2>3. CASE ~r[2][1] /\ ~r[5][1] /\ r[6][1]
    <3>1. \A j \in 1..10 : j < 6 => j \in {1, 2, 3, 4, 5} OBVIOUS
    <3>2. \A j \in 1..10 : j < 6 => ~r[j][1] BY <3>1, <1>5, <2>3
    <3> QED BY <2>3, <3>2, InputDecides DEF r
  <2>4. CASE ~r[2][1] /\ ~r[5][1] /\ ~r[6][1]
    <3>1. \A j \in 1..10 : j < 9 => j \in {1, 2, 3, 4, 5, 6, 7, 8} OBVIOUS
    <3>2. \A j \in 1..10 : j < 9 => ~r[j][1] BY <3>1, <1>5, <2>4
    <3>3. r[9][1] BY <2>4, <1>4, <1>6, <1>7
    <3> QED BY <3>2, <3>3, InputDecides DEF r
  <2> QED BY <2>1, <2>2, <2>3, <2>4
<1> QED BY <1>8 DEF Covers, ToHost, p

(* A policy that an apply loads admits a new SSH connection like the session apply   *)
(* runs in, or the override was acknowledged, however DNS answers: what                *)
(* checkSSHSessionCoverage accepts the rendered rules accept, except a session that    *)
(* only the answers of its own lookup name and one that is trusted by an address of    *)
(* another interface.                                                                  *)
THEOREM SessionStaysCovered == Spec => CoveredWhenLoaded
<1>1. Spec => []CInv BY InitInv, CoverInvStep, PTL DEF Spec
<1>2. CInv /\ [Next]_vars =>
        [table' # table /\ session # None /\ (session.iif = WAN \/ table'.mode # "open")
           => \/ Covers(table') \/ audit'
              \/ apply.moved \/ TrustedElsewhere(table')]_vars
  <2> SUFFICES ASSUME CInv, [Next]_vars, table' # table, session # None,
                      session.iif = WAN \/ table'.mode # "open", ~audit',
                      ~apply.moved, ~TrustedElsewhere(table')
               PROVE  Covers(table')
    OBVIOUS
  <2>1. ApplyLoad
    BY DEF Next, ApplyStart, CheckSession, DNSChanges, vars
  <2>2. apply.pc = "load" /\ table' = Rendered(apply.cfg, apply.elements) /\ ~apply.req.ack
    BY <2>1 DEF ApplyLoad
  <2> QED BY <2>2, CandidateAccepts
<1> QED BY <1>1, <1>2, PTL DEF Spec, CoveredWhenLoaded
=============================================================================
