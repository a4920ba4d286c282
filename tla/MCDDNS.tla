------------------------------- MODULE MCDDNS -------------------------------
(* Instances of the DDNS refresh.                                              *)
EXTENDS DDNSProperties
CONSTANTS h1, h2, a1, a2, a3, b1, net, op1

TwoHosts == {h1, h2}
OneHost == {h1}
AllAddrs == {a1, a2, a3, b1}
OnePrefix == [a \in AllAddrs |-> net]
AllOrNone == {{}, Hosts}

\* An IPv4 host whose address changes, and a dual-stack host one of whose two
\* lookups may fail.
TwoKinds == [h \in TwoHosts |-> [f \in {"v4", "v6"} |->
  IF h = h1 THEN IF f = "v4" THEN {{a1}, {a2}} ELSE {{}}
            ELSE IF f = "v4" THEN {Failing, {a3}} ELSE {{b1}}]]
\* An IPv4 host that moves, loses its record or cannot be looked up.
Moving == [h \in OneHost |-> [f \in {"v4", "v6"} |->
  IF f = "v4" THEN {Failing, {}, {a1}, {a2}} ELSE {{}}]]
=============================================================================
