------------------------------ MODULE MCPolicy ------------------------------
(* Instances of the rendered policy: two IPv4 addresses, two IPv6 ones of which    *)
(* one shares a prefix with a third, a LAN and a VPN interface.                    *)
EXTENDS PolicyProperties
CONSTANTS a4, b4, a6, n6, b6, pa, pb, eth, docker0, lan, vpn, h1

FiveAddrs == {a4, b4, a6, n6, b6}
Family == [a \in FiveAddrs |-> IF a \in {a4, b4} THEN "v4" ELSE "v6"]
Masked == [a \in FiveAddrs |-> IF a \in {a6, n6} THEN pa ELSE IF a = b6 THEN pb ELSE a]
Ifaces == {eth, docker0, lan, vpn, "lo"}
Web == <<"tcp", 80>>
WebAlt == <<"tcp", 8080>>
Ports == {SSH, Web, WebAlt, <<"icmp", 0>>}

\* A host that moves, keeps an address, or may not be looked up.
Moving == [h \in {h1} |-> {Failing, {}, {a4, a6}, {a6, b4}}]
AllRequests == [ack : BOOLEAN, reason : BOOLEAN]
Plain == {[ack |-> FALSE, reason |-> FALSE]}

All == [mode : {"open", "whitelist-only", "whitelist-rate-limit"},
        ports : SUBSET {SSH, Web, WebAlt}, static : {{}, {b4}, {n6}}, ddns : BOOLEAN, hosts : {{}, {h1}},
        trusted : BOOLEAN, ifaces : {{}, {vpn}}, forwarding : BOOLEAN, docker : BOOLEAN]
\* config.Validate
Valid(c) == /\ c.mode # "open" => c.static # {} \/ c.ddns
            /\ c.ddns => c.hosts # {}
            /\ c.trusted => c.ifaces # {}
            /\ c.forwarding => c.trusted
AllConfigs == {c \in All : Valid(c)}
ValidConfigs == {c \in AllConfigs : SSH \notin c.ports}
FromWAN == {[src |-> a, iif |-> eth, server |-> s] : a \in FiveAddrs, s \in {eth, None}}
\* The second is connected to an address of the VPN and comes in at WAN.
FromVPN == {[src |-> b6, iif |-> i, server |-> vpn] : i \in {vpn, eth}}
\* Sessions from an allowed, a resolved, a foreign and a trusted place.
Usual == {w \in FromWAN : w.src \in {a4, b4, n6, b6} /\ w.server = eth} \cup FromVPN
=============================================================================
