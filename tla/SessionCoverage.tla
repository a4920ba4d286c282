--------------------------- MODULE SessionCoverage ---------------------------
(***************************************************************************)
(* `cnftctl apply` as the operator's SSH session sees it: the configuration   *)
(* is read and its DDNS hosts are resolved, the session is checked against    *)
(* it, and the rendered policy is loaded (realService.apply and                *)
(* checkSSHSessionCoverage).  DNS may change between any two of these steps.   *)
(* The transaction around the load is in module Activation.                    *)
(***************************************************************************)
EXTENDS RenderedPolicy, FiniteSets

CONSTANTS
  Configs,     \* valid desired configurations
  Hosts,       \* names in the DDNS allowlist
  Answers,     \* Answers[h]: sets of addresses the resolver may return
  Failing,     \* the resolver times out
  Sessions,    \* [src, iif, server]: server is an interface, or None
  Requests,    \* flags of apply: [ack, reason : BOOLEAN]
  MaxApplies,  \* bound on the commands of one behaviour
  None

ASSUME SessionAssumption ==
  /\ \A w \in Sessions : w.src \in Addrs
  /\ \A h \in Hosts : Answers[h] \subseteq {Failing} \cup SUBSET Addrs
  /\ \A c \in Configs : c.hosts \subseteq Hosts /\ None \notin c.ifaces

VARIABLES
  dns,         \* dns[h]: the present answer
  session,     \* the SSH session that runs the commands, None on a console
  apply,       \* the running apply; history: the check found the session by an answer
               \* that is not in the candidate
  table,       \* the loaded policy
  audit,       \* its transaction records an SSH override
  applies      \* commands so far
vars == <<dns, session, apply, table, audit, applies>>

Idle == [pc |-> "idle", cfg |-> None, req |-> None, elements |-> NoElements, moved |-> FALSE]
Stop == apply' = Idle

Answer(h) == IF dns[h] = Failing THEN {} ELSE dns[h]
Resolvable(cfg) == \A h \in cfg.hosts : dns[h] # Failing /\ dns[h] # {}
Found(cfg) == UNION {Answer(h) : h \in cfg.hosts}

\* loadConfig, and Resolve when DDNS is on: no candidate unless every host answers.
ApplyStart(cfg, req) ==
  /\ apply.pc = "idle" /\ applies < MaxApplies
  /\ applies' = applies + 1
  /\ IF cfg.ddns /\ ~Resolvable(cfg) THEN Stop
     ELSE apply' = [pc |-> "check", cfg |-> cfg, req |-> req,
                    elements |-> IF cfg.ddns THEN SetsOf(Found(cfg)) ELSE NoElements,
                    moved |-> FALSE]
  /\ UNCHANGED <<dns, session, table, audit>>

StaticCovers(cfg) == session.src \in cfg.static
\* The hosts are looked up again; errors count as no addresses.
DDNSCovers(cfg) ==
  cfg.ddns /\ ElementOf(session.src) \in {ElementOf(a) : a \in Found(cfg)}
\* Mutation: an interface counts although the feature is off.
TrustCoversAnyway(cfg) == session.server \in cfg.ifaces
\* The address the session is connected to is one of a trusted interface.
TrustCovers(cfg) == cfg.trusted /\ session.server \in cfg.ifaces

Covered(cfg) ==
  \/ session = None \/ cfg.mode = "open"
  \/ StaticCovers(cfg) \/ DDNSCovers(cfg) \/ TrustCovers(cfg)

Acknowledged(req) == req.ack /\ req.reason
\* validateSSHOverride: acknowledgement and reason come together.
ValidOverride(req) == req.ack = req.reason
CheckPasses(cfg, req) == (Covered(cfg) \/ Acknowledged(req)) /\ ValidOverride(req)

Moved == /\ session # None /\ DDNSCovers(apply.cfg)
         /\ ElementOf(session.src) \notin apply.elements[FamilyOf[session.src]]

CheckSession ==
  /\ apply.pc = "check"
  /\ IF CheckPasses(apply.cfg, apply.req)
     THEN apply' = [apply EXCEPT !.pc = "load", !.moved = Moved] ELSE Stop
  /\ UNCHANGED <<dns, session, table, audit, applies>>

\* Activation, which may fail and leaves the table then.
ApplyLoad ==
  /\ apply.pc = "load" /\ Stop
  /\ \/ table' = Rendered(apply.cfg, apply.elements) /\ audit' = apply.req.ack
     \/ UNCHANGED <<table, audit>>
  /\ UNCHANGED <<dns, session, applies>>

DNSChanges(h) ==
  /\ dns' \in {[dns EXCEPT ![h] = a] : a \in Answers[h]}
  /\ UNCHANGED <<session, apply, table, audit, applies>>

\* No table: the kernel accepts everything.
Init ==
  /\ dns \in [Hosts -> UNION {Answers[h] : h \in Hosts}]
  /\ \A h \in Hosts : dns[h] \in Answers[h]
  /\ session \in Sessions \cup {None}
  /\ apply = Idle /\ table = None /\ audit = FALSE /\ applies = 0

Next ==
  \/ \E cfg \in Configs, req \in Requests : ApplyStart(cfg, req)
  \/ CheckSession \/ ApplyLoad
  \/ \E h \in Hosts : DNSChanges(h)

Spec == Init /\ [][Next]_vars
=============================================================================
