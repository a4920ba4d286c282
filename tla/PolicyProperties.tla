-------------------------- MODULE PolicyProperties --------------------------
(* What the loaded policy admits, and that an apply does not shut its own        *)
(* operator out.                                                                 *)
EXTENDS SessionCoverage

CONSTANTS Interfaces, Tuples   \* those packets are built from

Connection == {"new", "established", "invalid"}
Pace == {"calm", "fast", "flood"}
\* The packet of source a to port t of the host, or of a service published as u.
Packet(i, o, a, t, u, c, s, r) ==
  [iif |-> i, oif |-> o, family |-> FamilyOf[a], src |-> a, proto |-> t[1], port |-> t[2],
   public |-> u[2], dnat |-> t # u, ct |-> c, spoofed |-> s, pace |-> r]
ToHostPackets ==
  {Packet(i, None, a, t, t, c, s, r) : i \in Interfaces, a \in Addrs, t \in Tuples,
                                       c \in Connection, s \in BOOLEAN, r \in Pace}
\* A container's port q[1], published as q[2] of the same protocol.
Published == {q \in Tuples \X Tuples : q[1][1] = q[2][1] /\ q[1][1] # "icmp" /\ q[1] # q[2]}
PublishedPackets ==
  {Packet(WAN, Bridge, a, q[1], q[2], "new", FALSE, "calm") : a \in Addrs, q \in Published}

Allowed(pol, a) == a \in pol.static \/ ElementOf(a) \in pol.ddns[FamilyOf[a]]
Untrusted(pol, p) == p.iif = WAN /\ WAN \notin pol.trusted

\* README.md:85, "Default-deny host input": from WAN a new connection reaches a
\* public port or, as the mode says, SSH, and never from a forged source (ICMP aside).
WANIsClosed ==
  table # None => \A p \in ToHostPackets :
    p.ct = "new" /\ p.proto # "icmp" /\ Untrusted(table, p) /\ ToHost(table, p) =>
      /\ ~p.spoofed
      /\ \/ Open(table, p.proto, p.port)
         \/ <<p.proto, p.port>> = SSH /\ (table.mode = "open" \/ Allowed(table, p.src))

\* commands.md:350, "WAN traffic to Docker-published services is admitted only for
\* a matching `open_ports` tuple", the public one (commands.md:184).
PublishedByTuple(f) ==
  table # None /\ table.docker => \A p \in PublishedPackets :
    p.family = f /\ Untrusted(table, p) /\ Through(table, p) => Open(table, p.proto, p.public)
PublishedIPv4ByTuple == PublishedByTuple("v4")
PublishedIPv6ByTuple == PublishedByTuple("v6")

\* commands.md:261, "so only static or DDNS allowlist entries are accepted".
OnlyAllowlistReachesSSH ==
  table # None /\ table.mode # "open" => \A p \in ToHostPackets :
    p.ct = "new" /\ Untrusted(table, p) /\ <<p.proto, p.port>> = SSH /\ ToHost(table, p)
      => Allowed(table, p.src)

NewConnection == Packet(session.iif, None, session.src, SSH, SSH, "new", FALSE, "calm")
Covers(pol) == ToHost(pol, NewConnection)
\* A session that the check counts as trusted, by the address it is connected to,
\* and that the rules do not, by the interface it comes in at.
TrustedElsewhere(pol) == session.server \in pol.trusted /\ session.iif \notin pol.trusted

\* The check of checkSSHSessionCoverage and the rendered rules agree: a policy that
\* an apply loads admits a new SSH connection like the one apply runs in, or the
\* override is on record. It fails in two ways only, both beyond what the check
\* compares: the hosts answered the second lookup with addresses that the candidate
\* does not embed, or the session is trusted by an address of another interface.
\* In mode open the check is not made, and the rules are about WAN.
CoveredWhenLoaded ==
  [][table' # table /\ session # None /\ (session.iif = WAN \/ table'.mode # "open")
      => \/ Covers(table') \/ audit'
         \/ apply.moved \/ TrustedElsewhere(table')]_vars

\* README.md:81, without these two ways.
SessionIsCovered ==
  [][table' # table /\ session # None /\ (session.iif = WAN \/ table'.mode # "open")
      => Covers(table') \/ audit']_vars

\* The same of every session and mode.
EverySessionIsCovered ==
  [][table' # table /\ session # None => Covers(table') \/ audit']_vars
=============================================================================
