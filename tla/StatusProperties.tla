-------------------------- MODULE StatusProperties --------------------------
(* What a reader of status and plan may conclude from their exit status.     *)
EXTENDS StatusReport

HealthyReport == at = "done" /\ ExitsZero(seen)

\* An inspection nothing interfered with exits 0 only if the kernel runs the
\* desired generation and the operator has confirmed it: the checks look for
\* any cnftctl marker, and it is the activation protocol that makes it the
\* right one.
HealthyIsApproved ==
  HealthyReport /\ calm => Healthy /\ approved = active

\* A trial that stays undecided while an inspection runs is never reported as
\* a healthy host, whatever else happens meanwhile.
TrialIsReported == HealthyReport => trials = {}

\* Status run by automation: exit 0 means that at some moment since the
\* command was started the host was healthy, whatever ran beside it.
HealthyAtSomeMoment == HealthyReport => wasHealthy

\* A plan with changes is never an alarm about a policy in force, provided it
\* has no DDNS whitelist: its generation is not the one that is selected.
PlainPlanIsReal ==
  planned = "pending" /\ ~WantsDDNS(desired) => active # desired

\* The same of every configuration: drift, not a no-op, is what exit 1 tells.
PlanTellsDrift == planned = "pending" => active \notin Candidates(desired)

\* And with nothing running or undecided, exit 0 tells that the policy is
\* selected already and an apply would change nothing.
PlanTellsNoop ==
  planned = "ok" /\ Idle /\ Pending = {} => active \in Candidates(desired)
=============================================================================
