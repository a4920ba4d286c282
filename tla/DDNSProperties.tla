--------------------------- MODULE DDNSProperties ---------------------------
(* What the DDNS allowlist promises: complete answers only, nothing lost on     *)
(* failure, metadata and status that tell the truth, and convergence.           *)
EXTENDS DDNSRefresh

\* What host h may ever have contributed to family f.
Possible(h, f) == UNION {ElementsOf(f, answer) : answer \in Answers[h][f] \ {Failing}}

(* Whatever the sets hold came from a resolution in which every host was        *)
(* answered: no host is missing, and no family of a host that always has        *)
(* addresses in it, also after a timeout of one lookup, an expiry of one set    *)
(* or the loss of one set of the batch (ddns.go:168, runner.go:137).             *)
NoPartialAnswer ==
  Admitting =>
    \A h \in live.hosts :
      /\ \E f \in Families : Elements(f) \cap Possible(h, f) # {}
      /\ \A f \in Families : {} \notin Answers[h][f] => Elements(f) \cap Possible(h, f) # {}

(* Sets that admit somebody become empty by the TTL, an activation or another    *)
(* tool; a refresh, whatever it meets, leaves somebody admitted.                 *)
RefreshNeverEmpties ==
  [][ \A p \in Refreshers :
        proc[p].pc = "replace" /\ proc'[p].pc = "record" /\ Admitting => Admitting' ]_vars

(* With no refresh under way, metadata without an error describes the elements   *)
(* the last refresh left in the sets.                                            *)
MetadataDescribesSets ==
  (\A p \in Refreshers : proc[p].pc = "idle") /\ live # None /\ live.by = "refresh" /\ ~meta.failed
    => meta.sets = live.sets

(* An element is trusted for at most its TTL after it was resolved.              *)
TrustIsRecent == Admitting => live.age < TTL

(* What is live follows what was applied: hosts in the sets are those of the     *)
(* generation that is selected.                                                  *)
LiveFollowsApplied == Admitting /\ previous = None => live.hosts = current.hosts

(* The verdict of `ddns status`: configuration resolves, sets are readable and   *)
(* metadata is not stale.                                                        *)
StatusOK == desired # {} /\ Works(dns) /\ live # None /\ ~Stale(meta)
\* An allowlist that has run empty is not reported as healthy.
EmptyIsReported == StatusOK /\ current.hosts # {} => Admitting

ResultFor(d, hosts) == ResultOf([h \in Hosts |-> IF h \in hosts THEN d[h] ELSE NoAnswers[h]])

(* Whenever DNS settles on answers for all hosts, and nobody edits the hosts      *)
(* without applying them, the sets hold those answers from some time on for ever,  *)
(* whatever was killed, refused or loaded before: the timer refreshes before the    *)
(* TTL runs out.                                                                    *)
Converges ==
  \A d \in {e \in DNSStates : Works(e)} :
    <>[](dns = d /\ desired = current.hosts) =>
      <>[](current.hosts # {} /\ live # None =>
             /\ live.sets = ResultFor(d, current.hosts)
             /\ \A f \in Families : live.left[f] > 0)
=============================================================================
