--------------------------- MODULE RenderedPolicy ---------------------------
(***************************************************************************)
(* The policy cnftctl renders (src/internal/render): from a desired           *)
(* configuration to the rules of table inet hostfw, and what those rules say   *)
(* of a packet.  Text, ordering of lists and include files are left out; the   *)
(* order of the rules is kept, since the first that matches decides.           *)
(*                                                                             *)
(* A packet has: iif, oif (interfaces), family, src, proto, port (its          *)
(* destination port), public (the port before destination NAT), dnat, ct (its  *)
(* connection: "new", "established" or "invalid"), spoofed (the kernel has no  *)
(* route back to the source there) and pace ("calm", "fast": over the SSH rate *)
(* limit, "flood": over 200 new TCP connections a second).                     *)
(***************************************************************************)
EXTENDS Integers, Sequences

CONSTANTS
  Addrs,      \* source addresses
  FamilyOf,   \* FamilyOf[a]: "v4" or "v6"
  PrefixOf,   \* PrefixOf[a]: the prefix of the configured length a lies in
  WAN,        \* wan_interface
  Bridge      \* a Docker interface: docker0 or br-*

SSH == <<"tcp", 22>>
Families == {"v4", "v6"}
Loopback == "lo"

\* A DDNS element: the address itself, or the prefix of an IPv6 address.
ElementOf(a) == IF FamilyOf[a] = "v6" THEN PrefixOf[a] ELSE a
\* An IPv6 prefix is no IPv4 address.
ASSUME FamilyAssumption ==
  /\ FamilyOf \in [Addrs -> Families]
  /\ \A a, b \in Addrs : ElementOf(a) = ElementOf(b) => FamilyOf[a] = FamilyOf[b]
\* The two sets apply embeds.
SetsOf(found) == [f \in Families |-> {ElementOf(a) : a \in {b \in found : FamilyOf[b] = f}}]
NoElements == SetsOf({})

\* The interfaces whose rules are rendered.
InForce(cfg) == IF cfg.trusted THEN cfg.ifaces ELSE {}

\* newModel, with the DDNS elements apply embeds.
Rendered(cfg, elements) ==
  [mode |-> cfg.mode, open |-> cfg.ports, static |-> cfg.static,
   ddns |-> IF cfg.ddns THEN elements ELSE NoElements,
   trusted |-> InForce(cfg), forward |-> cfg.forwarding /\ InForce(cfg) # {},
   docker |-> cfg.docker]

-----------------------------------------------------------------------------
(* Chains.  A rule is a condition and a verdict; the first whose condition      *)
(* holds decides, the chain's policy if there is none.                          *)

Decide(rules, policy) ==
  LET hits == {i \in DOMAIN rules : rules[i][1]}
  IN IF hits = {} THEN policy ELSE rules[CHOOSE i \in hits : \A j \in hits : i <= j][2]

Open(pol, proto, port) == <<proto, port>> \in pol.open

\* The SSH rules of each mode; the hardened ones name no interface.
SSHAdmits(pol, p) ==
  IF pol.mode = "open" THEN p.iif = WAN
  ELSE /\ p.src \in pol.static \/ ElementOf(p.src) \in pol.ddns[p.family]
       /\ pol.mode = "whitelist-rate-limit" => p.pace = "calm"

\* Mutation: public ports come before the reverse-path rules.
InputOpenPortsFirst(pol, p) ==
  << <<p.ct = "established", "accept">>,
     <<p.iif = WAN /\ Open(pol, p.proto, p.port), "accept">>,
     <<p.iif = WAN /\ p.spoofed, "drop">> >>
\* The input chain.
Input(pol, p) ==
  << <<p.proto = "icmp", "accept">>,
     <<p.iif \in pol.trusted, "accept">>,
     <<p.ct = "established", "accept">>,
     <<p.proto = "tcp" /\ p.ct = "invalid", "drop">>,
     <<p.iif = Loopback, "accept">>,
     <<pol.docker /\ p.iif = Bridge, "accept">>,
     <<p.iif = WAN /\ p.spoofed, "drop">>,
     <<p.proto = "tcp" /\ p.ct = "new" /\ p.pace = "flood", "drop">>,
     <<<<p.proto, p.port>> = SSH /\ SSHAdmits(pol, p), "accept">>,
     <<p.iif = WAN /\ Open(pol, p.proto, p.port), "accept">> >>

\* docker_wan_allow
GateIPv4(pol, p) == Open(pol, p.proto, p.public)
\* docker_wan_allow_ipv6
GateIPv6(pol, p) == (p.dnat /\ Open(pol, p.proto, p.public)) \/ Open(pol, p.proto, p.port)
Verdict(accepted) == IF accepted THEN "accept" ELSE "drop"

\* Mutation: the gate looks at the port after translation.
ForwardTranslated(pol, p) ==
  IF ~pol.docker THEN <<>> ELSE
  << <<p.ct = "established", "accept">>,
     <<p.iif = WAN /\ p.oif = Bridge /\ p.dnat, Verdict(Open(pol, p.proto, p.port))>> >>
\* forward_wan_gate: what it accepts is still Docker's to decide.
Forward(pol, p) ==
  IF ~pol.docker THEN <<>> ELSE
  << <<p.proto = "icmp", "accept">>,
     <<pol.forward /\ (p.iif \in pol.trusted \/ p.oif \in pol.trusted), "accept">>,
     <<p.ct = "established", "accept">>,
     <<p.proto = "tcp" /\ p.ct = "invalid", "drop">>,
     <<p.family = "v4" /\ p.iif = WAN /\ p.oif = Bridge /\ p.dnat, Verdict(GateIPv4(pol, p))>>,
     <<p.family = "v6" /\ p.iif = WAN /\ p.oif = Bridge, Verdict(GateIPv6(pol, p))>> >>

ToHost(pol, p) == Decide(Input(pol, p), "drop") = "accept"
Through(pol, p) == Decide(Forward(pol, p), "accept") = "accept"
=============================================================================
