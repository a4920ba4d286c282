--------------------------- MODULE MCDesiredConfig ---------------------------
(* Instances of the desired configuration: two nested port ranges and one that  *)
(* is invalid, an address and a network, one host, two interfaces.              *)
EXTENDS DesiredConfigProperties
CONSTANTS e1, e2, addr, net, h1, i1, i2

Web == [proto |-> "tcp", from |-> 2, to |-> 2]
Wide == [proto |-> "tcp", from |-> 1, to |-> 3]
Reversed == [proto |-> "udp", from |-> 3, to |-> 2]
TooHigh == [proto |-> "udp", from |-> 1, to |-> 4]
ThreePorts == 3
SomeRanges == {Web, Wide, Reversed, TooHigh}
Both == {addr, net}
TwoInterfaces == {i1, i2}
OneEditor == {e1}
TwoEditors == {e1, e2}

Lists ==
  [do : {"open"}, range : SomeRanges]
  \cup [do : {"close"}, range : SomeRanges, strict : BOOLEAN]
  \cup [do : {"allow"}, prefix : Both]
  \cup [do : {"disallow"}, prefix : Both, strict : BOOLEAN]
SSHCommands ==
  [do : {"harden"}, mode : Modes, force : BOOLEAN]
  \cup [do : {"ddns"}, on : BOOLEAN]
  \cup [do : {"host"}, host : {h1}] \cup [do : {"unhost"}, host : {h1}, strict : BOOLEAN]
  \cup [do : {"length"}, length : {48, 56, 64}]
Features ==
  [do : {"trust", "distrust"}, ifaces : {{i1}, {i2}, {i1, i2}}]
  \cup [do : {"docker"}, on : BOOLEAN]
  \cup [do : {"init"}, docker : BOOLEAN, ddns : BOOLEAN, ifaces : {{}, {i1}}]
AllCommands == Lists \cup SSHCommands \cup Features

Doubled == {[Default EXCEPT !.static = {<<addr, "prefix">>, <<addr, "address">>}]}
Forwarding == {[Default EXCEPT !.trusted = TRUE, !.ifaces = {i1}, !.forwarding = TRUE]}
Prepared == {[Default EXCEPT !.static = {<<addr, "address">>}, !.mode = "whitelist-only"],
             [Default EXCEPT !.ports = {Web, Wide}, !.docker = TRUE]} \cup Forwarding
Unusual == Doubled \cup Forwarding
=============================================================================
