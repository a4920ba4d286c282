# cnftctl in TLA+

`cnftctl` manages one nftables table (`inet hostfw`) on a Debian host. A change
of policy is tried, and undone by a dead-man timer unless the operator confirms
it within 120 seconds. This directory models that machinery and what surrounds
it - the desired configuration, the rules it renders to, the DDNS allowlist, the
files everything is kept in, the package, the reports - checks it with TLC, and
proves the central safety properties with TLAPS. Paths below are relative to
`src/`.

## 1. The system

| component | code | state it keeps | operations | what makes it correct |
|---|---|---|---|---|
| activation transactions | `internal/apply/apply.go` | `transactions/ID/state.json`, symlink `active`, `ownership.json`, `generations/` | Apply, Plan, Confirm, Restore, Reconcile, recoverApply | one trial at a time; the journal runs ahead of every mutation, on disk as well; an unconfirmed trial ends where it began |
| systemd integration | `internal/systemd/systemd.go`, `deploy/systemd/` | enablement and activity of the firewall, reconcile, rollback and DDNS units | arm and stop the dead-man timer, restart and enable the firewall unit, switch the DDNS timer | every trial has its timer; boot loads only a confirmed policy |
| nft runner | `internal/nft/runner.go` | the table in the kernel | list, load, delete, replace set elements | a table of another program is never touched; both sets are replaced or neither |
| DDNS refresh | `internal/ddns/ddns.go`, `internal/app/service_impl.go` | elements of the DDNS sets, `ddns-runtime.json` | Resolve, Refresh, RecordAttempt | all hosts or none; a refresh never empties the sets; they follow DNS |
| desired configuration | `internal/config`, `ports`, `whitelist`, `features` | `/etc/cnftctl/config.yaml` | init, open, close, whitelist, ddns, ssh-harden, feature | a command that succeeds has done what it was asked, changes nothing else, and can be taken back |
| rendering | `internal/render` | none | configuration to rules | WAN is closed but for what is public |
| session check | `internal/app/service_impl.go` | the SSH override of a transaction | checkSSHSessionCoverage | no operator is shut out unasked |
| status and plan | `internal/app/service_impl.go`, `internal/apply` | none | status, doctor, plan | the exit status may be relied on |
| Docker backend | `internal/docker/docker.go` | `/etc/docker/daemon.json`, backups | plan, write | what is written was validated; nothing is lost |
| packaging | `packaging/debian` | installed files and units | preinst, postinst, prerm, postrm | nothing is left that needs what is removed |
| command line | `internal/cli` | none | parse, check, dispatch | no switch is lost or invented |
| installation inspection | `internal/install` | none | inspect | (read only) |
| presets, reference profile, scripts, CI | `internal/preset`, `reference`, `scripts` | none | | (data and tooling) |

How they interact. Every command that changes the firewall takes the advisory
lock `/run/cnftctl/apply.lock` without waiting: a command that finds it taken
fails. `apply` reads the desired configuration, resolves its DDNS hosts, checks
the operator's session, writes a *generation* (an immutable directory named by
its hash) and a *transaction*, starts `cnftctl-rollback@ID.timer`, records
`activating`, moves the selector, records ownership, restarts the firewall unit
(which loads what the selector names), records `activated`, and sets DDNS timer
and enablement. `confirm` checks selector, ownership and the marker in the live
table, then records `confirmed`. The timer, the operator, a failing apply and the
reconcile unit at boot all roll back through `rollbackWithManager`, which has two
shapes: a *fresh install* is deleted step by step, collecting errors; an *update*
is resumed at the stage that selector, ownership and live marker show. The DDNS
refresh shares the lock with them and the two sets with the kernel. The
configuration commands, `docker backend write`, `status`, `plan` and the
maintainer scripts take no lock at all. Commands run in separate processes; what
they share is the disk, the kernel table and systemd.

Hard behaviour: a crash or a power loss between any two effects; effects that
happened although an error was reported; four callers of rollback that race with
confirm; a one-shot timer against a lock that is not waited for; a boot order
that must not load a policy nobody confirmed; reads that are used after somebody
else has written, in all the commands without a lock; DNS that changes or fails
between two lookups; set elements that expire beside a timer that may fail.
`hazards` in `PROJECT.json` lists them one by one, with the line where each bites
and the properties about it.

## 2. The modules

Each group below is one specification; modules in a group extend one another.
Operators commented "Mutation" are faulty variants of the definition after them;
no action uses them. They exist to show that each property can fail.

### Activation

| module | contents |
|---|---|
| `FirewallState` | constants, variables, transactions, and the questions the commands ask (`Pending`, `UpdateRollbackStage`, `VerifyActivated`, `CheckOwnership`), fault injection, types |
| `RollbackCommand` | `rollbackWithManager`, one action per effect |
| `ApplyCommand` | `Apply` and `recoverApply`, one action per effect |
| `Activation` | composition: all commands on one lock, timer, boot, environment; `Init`, `Next`, `Spec`, `FairSpec` |
| `TrialSwitch` | what an activation promises without its steps |
| `ActivationProperties` | properties, the inductive invariants `IInv`, `HostInv` and `OneFaultInv`, the mapping onto `TrialSwitch` |
| `ActivationProof` | theorems and proofs |
| `MCActivation` | instances for TLC |

* `journal[i]` is `state.json` of transaction `i`; phase `"dir"` is the directory
  that `writeTransaction` creates before the file. `Confirmed`, `RolledBack` and
  `FreshInstall` of the Go struct are functions of phase and previous generation
  at every write of the code, so they are not stored twice.
* `active`, `ownership`, `generations`: selector symlink, `ownership.json`,
  complete generation directories. `live` is the generation marker of the table
  in the kernel, `None` without a table, `Foreign` for a table without marker.
* `fwEnabled`, `ddnsTimer`: what `systemctl enable`/`disable` left. `timers`,
  `reconciled`, `host`: the dead-man timers, the reconcile unit, boot progress.
* `pc`, `caller`, `cur`, `tx`, `todo`, `failed`, `errs`: the process that holds
  the lock. There is at most one, and a command that does not get the lock changes
  nothing, so one process suffices for any number of concurrent commands. The
  exception is the rollback service, whose failure to get the lock matters, since
  nothing starts it again: `TimerElapses` is the timer whose service gets the lock,
  `DeadlineMissed` the one whose service finds it taken, by whatever command.
* `PassStart` and `PassEnd` are a command that holds the lock and changes nothing
  here: a refresh, or an apply, confirm, rollback or reconcile that is refused or
  has nothing to do once it has the lock.
* `approved` and `met` are history: the generation confirmed last, and whether the
  table of another program has been there since the command, or the rollback it
  runs, began.

Each action is one durable or runtime effect together with the checks before it,
and `Kill` or `Reboot` may come between any two. `writeTransaction`, `setActive`
and `writeJSON` rename before they sync the directory, so an error they report
leaves either content (`MaybeWritten`, `active' \in {active, tx.gen}`); the same
holds of a failing `systemctl`, except that a failing `nft -f` changes nothing.
Files read under the lock cannot change while it is held, so they are read in the
action that uses them. The live table can: another program may delete it, or
create its own, at any moment. The ownership check of apply is made once, well
before the load; a rollback looks at the table in one step and loads or deletes in
a later one (`InspectTable` and `DeleteTable`, `FindStage` and `LoadPrevious`). So
`ForeignUntouched` speaks of a table the command began over (`met`), and what happens
to one that appears in between is disagreement 4.
Hashes, file contents and time stamps are abstracted: a generation is a model
value, a deadline is the moment the timer elapses.

`TrialSwitch` has a policy the host returns to, at most one candidate on trial,
and what was accepted last. `SelectionByTrialOnly` maps the pending transaction
to the trial and what its rollback would select to the policy. Of the whole
machinery one step is left that an operator would not expect: `Forfeit`, see
disagreement 7.

### Files

| module | contents |
|---|---|
| `DurableFile` | how a state file is replaced (create, write, chmod, sync, rename, sync the directory) by concurrent savers, over a kernel that writes back what it likes and a host that loses power |
| `AtomicFile`, `DurableProperties` | a file that is replaced at once, and the properties |
| `DurableJournal`, `JournalProperties` | the order in which apply, confirm and rollback use `DurableFile` |
| `DurableProof` | theorems and proofs |
| `MCDurable`, `MCJournal` | instances for TLC |

`Activation` takes a durable write as one step that may fail; here it is taken
apart. `durableWrite`, `SaveMetadata` and `SaveFile` are three functions of three
packages with the same steps, `setActive` makes a link instead. `entry` and `data`
are what a reader finds, `disk` and `stored` what survives a power loss; only a
sync, or the kernel's own `WriteBack`, carries one to the other. `DurableJournal`
keeps what remains to be written in `todo` and performs it one system call at a
time; that the code checks the journal between two writes is in `Knows`. A command
may stop at any of them. `slipped` is history: the names that one which stopped
between a rename and the sync of the directory left unsynced.

### DDNS allowlist

`DDNSRefresh` (`DDNSProperties`, `DDNSProof`, `MCDDNS`) has the present answer of every lookup
(`dns`), the hosts of `config.yaml` (`desired`), `ddns-runtime.json` (`meta`), the
elements in the kernel with the ticks they have left (`live`), the lock, and a
record for each running command: the operator's refreshes, the unit's, and an
apply. A refresh reads configuration and metadata (`RefreshStart`), takes the lock
or ends (`TakeLock`), looks up A and AAAA of each host in turn (`Lookup`), sends
one batch for both sets (`Replace`), releases the lock and then records (`Record`).
An activation is one step here (`ApplyLoad`, `Confirm`, `RollBack`); reboots, kills,
edits, failing batches and a flushed table are events. One `Tick` is a minute: the
unit is gone before the next one begins (`TimeoutStartSec=45s`), other commands may
take longer.

### Desired configuration

`DesiredConfig` (`DesiredConfigProperties`, `DesiredConfigProof`, `MCDesiredConfig`):
`file` is the
configuration in `config.yaml`, `editor[e]` a command that has loaded and not yet
written. `Effect` gives what each command makes of what it loaded, `Outcome` adds
loading and saving, both of which validate (`Valid`). Lists whose order means
nothing are sets; an allowlist entry keeps its two spellings, since the code
compares texts in one place and prefixes in another.

### Policy

`RenderedPolicy` gives the chains `newModel` and the templates produce, as ordered
rules over packets, so that what they accept can be asked (`ToHost`, `Through`).
`SessionCoverage` is an apply as the operator's session sees it: configuration and
lookups, `checkSSHSessionCoverage` with its own lookups, the load. DNS may change
between any two of them; `apply.moved` is history: the second lookup named the session's
address and the first had not. `PolicyProperties`, `PolicyProof` and `MCPolicy`
complete it.

### Reports, package, Docker, command line

* `StatusReport` (`StatusProperties`, `MCStatus`) extends `Activation` with
  `status`, one action per thing it reads, and `plan`. `seen` collects the states of
  the checks; the overall state is the worst by the code's rank. `calm`,
  `wasHealthy` and `trials` are history.
* `Packaging` (`MCPackaging`) extends `Activation` with the maintainer scripts:
  `dpkg` is the next step of the package operation, `assets` whether the binary and
  the units are there. Without them a running command finds no unit (`UnitGone`) and
  a timer has nothing to start. Operators run commands between any two steps of the
  scripts, which take no lock, and the scripts' `nft` may fail. `raced` and `blind` are
  history: an apply ran since the scripts first looked; their `nft` failed.
* `DockerBackend` (its own instance): `docker backend plan|write` read, plan,
  validate, compare again, back up, stage and rename; with `--root` they do not ask
  dockerd. Other programs edit between any two steps. All commands want the backup
  name of the same second. `DockerProof` has its theorems, `LocklessProof` those of
  status, plan and the package.
* `CommandLine` (`CommandLineProof`, `MCCommandLine`): the command tree, the reader
  of words and flags, the checks after it and the refusal of live commands with
  another root. An argument is a record of kind, name and value.

## 3. What the runs check

| run | properties | what it shows |
|---|---|---|
| `faults` | `TypeOK`, `OwnershipFollowsSelector`, `OnlyApprovedSettles`, `JournalBeforeMutation`, `NoOrphanPolicy`, `CandidateUnderDeadMan`, `RolledBackMeansRestored`, `ConfirmedIsLive`, `BootLoadsApproved`, `ForeignUntouched`, `SelectionByTrialOnly` | activation with 2 generations, 3 transactions and any 3 of: kill, reboot, failing write, failing command, a table another tool deletes or creates; other commands hold the lock at any time, and deadlines fall into them. It implements `TrialSwitch` |
| `live` | `EveryTrialEnds` | after up to two kills, reboots, failing writes or commands, and with other commands competing for the lock, a trial whose timer runs or that a boot finds is decided if nothing more goes wrong, but for a missed deadline and a refused update |
| `status_inspect` | `HealthyIsApproved`, `TrialIsReported`, `PlainPlanIsReal`, `BootRefusesOnlyHalfSwitched`, `FailedApplyIsUndone`, `ApprovedSurvivesReboot` | status and plan at every moment of every command, with one fault; what a failing apply and an interrupted command leave |
| `update_boot` | `BootReconciles` | violation: disagreement 1 below |
| `ddns_refresh` | `NoPartialAnswer`, `RefreshNeverEmpties`, `Converges` | the timer's refresh and an operator's beside applies, edits, kills, reboots, failing batches, a flushed table and DNS that moves or fails |
| `desiredconfig_edits` | `AddRemoveRestores`, `EditTakesEffect`, `EditTouchesOnlyItsPart` | every editing command in every order, killed between load and write, beside changes by hand |
| `policy` | `WANIsClosed`, `PublishedIPv4ByTuple`, `CoveredWhenLoaded` | every combination of SSH mode, ports, allowlist, DDNS, trust, forwarding and Docker, against every kind of packet, applied from WAN and VPN while the answer for the host moves or fails |
| `durable_saves` | `SuccessIsDurable`, `ReplacesAtomically` | two savers, three kinds of file, failures and power losses at any step; implements `AtomicFile` |
| `journal_order` | `SelectionIsJournaled`, `SelectedIsOnDiskUnlessSlipped`, `DecidedIsComplete` | two transactions with failing writes, kills and power losses at any system call: what a boot finds is in the order recovery relies on, and where a stop between rename and sync breaks it |
| `docker_write` | `WritesWhatWasValidated`, `OnlyLateEditsAreLost` | two commands, with and without `--root`, and two changes by others, from every kind of `daemon.json` |
| `packaging_lifecycle` | `RemovedIsInert` | upgrade, removal and reinstallation over the activation system while operators run commands, with any three faults: what only a raced apply or a failing `nft` can leave behind |
| `commandline_lines` | `SwitchesAreSpelledOut`, `EveryArgumentCounts` | every line of up to three of 24 arguments, and of up to four of a core of them |

Each property has a comment with what it says and of which code.

### Disagreements between code and documents

`PROJECT.json` gives each with the lines on both sides. `update_boot` is a run;
the others are kept in the `*_claims.cfg` files, which are not runs: each property
there states what a document promises, and `tlc -config X_claims.cfg M` finds it
violated (with `-continue`, or with the other properties taken out, each of them).
Where the table says "with it added", the property is violated when it is added to
the configuration of that run.

| | statement | configuration | what happens |
|---|---|---|---|
| 1 | `BootReconciles` | `MCActivation_update_boot` | an update interrupted between selector and ownership is not a state rollback recognises: reconcile fails, no policy is loaded, applies are refused |
| 2 | `FailedApplyIsUndone` without its exception `Unloaded` | | the same of an update whose unit restart or ownership write fails |
| 3 | `DeadlineEnforced` | `MCActivation_claims` | the timer is one-shot, the lock is not waited for, confirm does not look at the deadline: any command at the wrong moment extends the trial for ever |
| 4 | `ForeignNeverReplaced` | `MCActivation_claims` | apply checks the table once and loads later, rollback looks and then loads or deletes: a table another program creates in between is replaced |
| 5 | `ApprovedSurvivesReboot` | `MCActivation_claims` | confirmed after its apply was killed, before the unit was enabled, a policy is not loaded at boot |
| 6 | `BootFixesDDNSTimer` | `MCActivation_claims` | reconcile leaves the DDNS timer alone with nothing pending |
| 7 | `ApprovedIsKept` | `MCActivation_claims` | re-applying the active generation when its table is gone counts as a fresh install; its rollback takes the approved selection away |
| 8 | `MetadataDescribesSets` | `MCDDNS_claims` | two refreshes record in the other order than they replaced |
| 9 | `TrustIsRecent` | `MCDDNS_claims` | boot and rollback load embedded addresses for a whole TTL again, however old |
| 10 | `LiveFollowsApplied` | `MCDDNS_claims` | the refresh resolves the desired file's hosts, not the applied ones |
| 11 | `EmptyIsReported` | `MCDDNS_claims` | an allowlist that ran empty is reported as healthy |
| 12 | `Converges` with `TTL = Interval` | `MCDDNS_refresh`, changed | the timer ignores `refresh_interval`: a short TTL runs out between two refreshes |
| 13 | `NoUpdateIsLost` | `MCDesiredConfig_claims` | two configuration commands at once lose an edit |
| 14 | `SSHCanBeOpened` | `MCDesiredConfig_claims` | `whitelist-rate-limit` leaves a rate limit that makes the way back invalid |
| 15 | `ForceWrites` | `MCDesiredConfig_claims` | `--force` never changes the outcome |
| 16 | `InterfaceCanBeDistrusted` | `MCDesiredConfig_claims` | with `trust_forwarding` the last interface cannot be removed |
| 17 | `EditTakesEffect` | `MCDesiredConfig_claims` | an address that is listed in both spellings stays allowed after its removal |
| 18 | `SessionIsCovered` | `MCPolicy_claims` | the session check resolves a second time, and DNS moves in between; it goes by the address a session is connected to, and the rules by the interface it comes in at |
| 19 | `EverySessionIsCovered` | `MCPolicy_claims` | mode open covers WAN only, and the check passes every session |
| 20 | `OnlyAllowlistReachesSSH` | `MCPolicy_claims` | tcp/22 in `open_ports` undoes the hardening |
| 21 | `PublishedIPv6ByTuple` | `MCPolicy_claims` | the IPv6 gate accepts the container's port as well as the public one |
| 22 | `RemovedStaysRemoved` | `MCJournal_claims` | removals are not synced: after a power loss an unconfirmed selection is back |
| 23 | `SelectedIsOnDisk`, `ConfirmedIsComplete` | `MCJournal_claims` | a name that is visible but not synced, left by a killed command, is trusted by the next |
| 24 | `NothingLost` | `DockerBackend_write`, with it added | a change to `daemon.json` after the last comparison is replaced |
| 25 | `HealthyAtSomeMoment` | `MCStatus_inspect`, with it added | a rollback between two reads of status: exit 0 for a host that was never healthy |
| 26 | `PlanTellsNoop` | `MCStatus_inspect`, with it added | a rolled-back generation is "no changes" |
| 27 | `PlanTellsDrift` | `MCStatus_inspect`, with it added | with DDNS, plan never sees the applied generation |
| 28 | `NothingIsLeft` | `MCPackaging_claims` | prerm checks without the lock; an apply slips in |
| 29 | `NothingPendingIsAccepted` | `MCPackaging_claims` | a transaction directory without `state.json` blocks upgrade and removal, and no command shows it |
| 30 | `RemovalSparesActivePolicy` | `MCPackaging_claims` | prerm takes a failing nft for an absent table |
| 31 | `SilenceIsAsked` | `MCCommandLine_lines`, with it added | a command group without a subcommand exits 0 |

### Bounds, and why they are enough

* `faults`: three transactions - one confirmed, one that failed halfway, one after
  it; the code relates a transaction only to the selector and ownership its
  predecessor left. IDs are interchangeable (symmetry); generations are not, since
  `DDNSOf` tells them apart. A third generation appears to the code only as
  "neither of them", which `None` and `Foreign` cover. `MaxFaults = 3` lets a fault
  hit an apply, the rollback after it and the boot after that; a table another
  program creates counts as one. Other commands on the lock are not counted. The proofs
  lift all three bounds. `"slow"`, an apply that outlasts its own timer, is left out
  here because `CandidateUnderDeadMan` needs a timer that is still armed;
  `packaging_lifecycle` has it.
* `live`: two transactions, so that there are updates, and two faults
  (`CommandFaults`: kill, reboot, failing write, failing command), so that one can hit
  the apply and one its rollback. A further fault gives the trial up as far as this
  property goes (`faults > n`): every promise begins again where the last one happened.
  A missed deadline is disagreement 3, a refused update disagreements 1 and 2.
* `status_inspect`: two transactions and one fault. `FailedApplyIsUndone` and
  `BootRefusesOnlyHalfSwitched` are promises about one failure: a second one could
  hit the recovery itself, of which nothing is promised. `ApprovedSurvivesReboot`
  needs two to fail, disagreement 5. The proofs for one fault lift the bound on
  transactions and generations.
* `ddns_refresh`: an IPv4 host that moves and a dual-stack host one of whose lookups
  fails, so that partial answers of either family can arise; three events; TTL 2 and
  interval 1, the smallest pair with TTL above the interval.
* `desiredconfig_edits`: nested ranges, two invalid ones, an address and a network,
  one host, two interfaces. The state space is finite without a bound. One command
  runs at a time, and the file changes under it by hand. Each property of an edit is
  about one command and what it loaded; two commands are in `MCDesiredConfig_claims`
  (disagreement 13).
* `policy`: two IPv4 addresses, three IPv6 ones of which two share a prefix; one
  apply, since a policy does not depend on the one before. Ports of `open_ports`
  exclude 22 (disagreement 20). The host's answers move and fail between any two steps
  (`Moving`); what they let pass is disagreement 18.
* `durable_saves`: two changes of each name, three files - enough for two savers on
  one name with a spare. `journal_order`: one process (the lock), seven changes of a
  name, ten files, two transactions between two generations, so that there is a
  fresh install, an update and a return. Errors, kills and power losses are not
  counted and may come at any system call, also between a rename and the sync of the
  directory. `VIEW Seen` takes states for one that differ only in which file holds
  a content.
* `docker_write`: two commands, two edits, two names for backups.
* `packaging_lifecycle`: one generation, two transactions, three faults of every kind,
  failing `nft` listings and slow commands among them; commands, units and timers do as
  they please between the steps of the scripts. What an apply among them, or a failing
  `nft`, leaves behind is disagreements 28 and 30.
* `commandline_lines`: four arguments cover a command, a flag, its value and a word
  after it, in every order, and two flags that contradict each other. The proofs are
  about lines of any length.

`CHECK_DEADLOCK FALSE` stands where a system may rest: with all transaction IDs or
bounded events used and the operator idle (activation, status, packaging, journal,
Docker), or with the one line read or policy loaded (command line, policy).

### Fairness

`Activation`'s `FairSpec`: a started command finishes, boot jobs run, an armed
timer elapses (systemd owns it). All of it is weak fairness: a timer elapses when it
is due, whether its service then gets the lock (`TimerElapses`) or not
(`DeadlineMissed`), and one of the two is possible at every moment but while the apply
that armed it still runs. The operator owes nothing.

`DDNSRefresh`'s `FairSpec`: time passes, the refresh timer elapses when due, and a
running command goes on, since every lookup and every nft call ends by its answer
or by its timeout. Nothing is assumed of DNS, the operator or other tools:
`Converges` is about what follows once DNS has settled and the configuration is
the applied one.

## 4. What is proved

For every set of generations, transaction IDs, savers, paths, files, hosts,
answers, configurations, addresses and command lines, every environment and any
number of commands and faults. "If" names the hypotheses of a theorem; where none stands the
statement holds of the specification as it is.

| theorem | module | statement | if |
|---|---|---|---|
| `Invariance` | `ActivationProof` | `Spec => []IInv` | |
| `TypeCorrect` | | `Spec => []TypeOK` | |
| `OnePending` | | `Spec => []AtMostOnePending` | |
| `OwnershipAgrees` | | `Spec => []OwnershipFollowsSelector` | |
| `ApprovedSettles` | | `Spec => []OnlyApprovedSettles` | |
| `TerminalStays` | | `Spec => TerminalIsFinal` | |
| `ImplementsTrialSwitch` | | `Spec => SelectionByTrialOnly` | |
| `HostInvariance` | | `Spec => [](IInv /\ HostInv)` | |
| `JournalFirst` | | `Spec => []JournalBeforeMutation` | |
| `SelectionLoadable` | | `Spec => []SelectorResolves` | |
| `NoOrphan` | | `Spec => []NoOrphanPolicy` | |
| `BootLoads` | | `Spec => BootLoadsApproved` | |
| `ConfirmsWhatRuns` | | `Spec => ConfirmedIsLive` | |
| `RollbackRestores` | | `Spec => RolledBackMeansRestored` | |
| `TrialUnderTimer` | | `Spec => CandidateUnderDeadMan` | `"slow" \notin Env` |
| `ForeignKept` | | `Spec => ForeignUntouched` | |
| `OneFaultInvariance` | | `Spec => [](IInv /\ HostInv /\ OneFaultInv)` | `MaxFaults <= 1` |
| `FailedApplyUndone` | | `Spec => FailedApplyIsUndone` | `MaxFaults <= 1`, `"slow" \notin Env` |
| `BootRefusesLittle` | | `Spec => []BootRefusesOnlyHalfSwitched` | `MaxFaults <= 1` |
| `ApprovedComesBack` | | `Spec => ApprovedSurvivesReboot` | `MaxFaults <= 1` |
| `ReportedHealthIsApproved` | `LocklessProof` | `StatusSpec => []HealthyIsApproved` | |
| `UndecidedTrialIsReported` | | `StatusSpec => []TrialIsReported` | |
| `PlanSeesTheSelection` | | `StatusSpec => []PlainPlanIsReal` | |
| `RemovalLeavesNothing` | | `PackageSpec => []RemovedIsInert` | |
| `StoreTypeCorrect` | `DurableProof` | `FileSpec => []StoreTypeOK` | |
| `ReportedIsDurable` | | `FileSpec => []SuccessIsDurable` | |
| `ImplementsAtomicFile` | | `FileSpec => ReplacesAtomically` | |
| `SelectionHasRecord` | | `Spec => []SelectionIsJournaled` | |
| `SelectionHasFiles` | | `Spec => []SelectedIsOnDiskUnlessSlipped` | |
| `DecisionIsLast` | | `Spec => []DecidedIsComplete` | |
| `NoHostIsMissing` | `DDNSProof` | `Spec => []NoPartialAnswer` | |
| `RefreshKeepsSomebody` | | `Spec => RefreshNeverEmpties` | |
| `EditsTakeEffect` | `DesiredConfigProof` | `Spec => EditTakesEffect` | no hand edit lists a prefix in two spellings |
| `EditsKeepToTheirPart` | | `Spec => EditTouchesOnlyItsPart` | |
| `EntriesCanBeTakenBack` | | `Spec => []AddRemoveRestores` | hand edits are spelled as the commands would |
| `DefaultDeny` | `PolicyProof` | `Spec => []WANIsClosed` | WAN is neither loopback nor the bridge |
| `PublishedNeedsTuple` | | `Spec => []PublishedIPv4ByTuple` | the bridge is not a trusted interface |
| `SessionStaysCovered` | | `Spec => CoveredWhenLoaded` | |
| `ValidatedIsWritten` | `DockerProof` | `Spec => WritesWhatWasValidated` | |
| `OthersAreKept` | | `Spec => OnlyLateEditsAreLost` | |
| `LineInvariance` | `CommandLineProof` | `Spec => []LineInv` | |
| `SwitchesSpelledOut` | | `Spec => []SwitchesAreSpelledOut` | |
| `ArgumentsCount` | | `Spec => []EveryArgumentCounts` | |

Every safety property of the passing runs is thereby proved; liveness is left to TLC.

A hypothesis excludes what the code does not answer. `"slow"` is that apply takes so
long that its timer elapses under it. A prefix in two spellings is disagreement 17, a
bridge that is itself trusted makes the gate moot. `MaxFaults <= 1` is of another kind:
those three properties are about what one failure leaves, and a second one may hit the
recovery from the first (disagreement 5 is an example). The runs set the same
conditions. Where a promise holds with exceptions, the property itself names them
(`slipped`, `raced`, `blind`, `moved`, `met`), and the promise without them is a
disagreement.

Assumptions on constants, which TLC checks in the runs: `DDNSOf` is Boolean; `None`
and `Foreign` are no generations and `None` is no transaction ID; `MaxFaults` and
`MaxTurns` are natural numbers; `None` is neither a file nor a value and every path has
a directory; the paths of the journal differ and transaction numbers are positive
(`FilesAssumption`); only a configuration
with a DDNS allowlist has several generations (`IntentAssumption`); lookups give
addresses or fail, `None` is no pair of live sets (`AnswersAssumption`,
`NamesAssumption`); commands are what the command line accepts
and hand edits have the fields of a configuration (`ConfigAssumption`); documents,
garbage and partial backups differ (`ContentsAssumption`); an IPv6 prefix is no
IPv4 address (`FamilyAssumption`); sessions come from addresses and interfaces have
names (`SessionAssumption`);
lines are sequences of arguments (`InputsAssumption`).

*The activation argument.* `OnlyApprovedSettles` alone is not inductive: that a
rollback ends at an approved selection depends on what its transaction recorded
when it began and on what the rollback has already undone. `IInv` adds, by label of
the lock holder:

* `PendingInv`: a pending transaction returns to nothing or to the approved
  generation, and while its journal says nothing was mutated, nothing was
  (`UntouchedBase`); `SettledInv`: the two settled properties together;
* `StartInv`, `ForwardInv`: between reading and writing, the copy of the
  transaction in memory is the one on disk, and nothing is mutated before
  `activating` is durable;
* `RollbackInv`: what each stage of each shape of rollback has already restored,
  unless an error was collected; `ConfirmInv`: what confirm checked still holds
  when it writes (the lock).

`FreeLabel` and `ExitInv` collect the steps that leave a label without a
condition, `CoreUnchanged` those that leave the disk alone.

*The host.* `IInv` says nothing of kernel and units. `HostInv` does, and is
inductive together with it: `KernelInv` (settled, the table is absent, foreign or
the selected one; no command that began over a foreign table is on its way to a load
or a deletion), `UntouchedInv` (the host
under a transaction that mutated nothing), `RestoredInv` (what a rollback without an
error has restored, stage by stage), `ReconcileInv` (a reconcile without errors
leaves nothing pending - why the boot may load), `DeadManInv` (the timer is armed
from its start to the end of apply), `DiskInv` (every generation that can be
selected is on disk) and `WhoInv`. The proof goes by conjunct rather than by
action: lemmas such as `LiveStep`, `EnablementStep` and `EntryStep` say which steps
change a variable or enter a label, so that each conjunct has few cases. Where
another program may delete the table, `Holds(g)` allows for its absence.

*One fault.* A promise about one failure needs an invariant that knows whether it has
happened. `OneFaultInv` is inductive with the other two when `MaxFaults <= 1`. Before
the fault, a pending transaction has selector, ownership and table where the label of
the lock holder puts them (`FaultlessInv`, `Switching`). An apply under way knows of
each effect that it took place (`TrialInv`). An apply that undoes itself finds the
three changed in order up to some point (`Partly`); its rollback meets no other fault
and takes them back the same way (`UndoInv`). A boot finds the disk where a faultless
command, cut anywhere, left it, and its rollback either restores it stage by stage
(`Interrupted`) or meets the half-switched update, the only thing it refuses
(`BootInv`). `CallerInv` says which command is at a label that several share. After
the fault every effect succeeds, so that no lemma has to follow a second failure.

*The refinement* of `TrialSwitch` maps by the invariant: `JournalWrite` says what a
write of the journal does to trial and policy, `SelectorStep` and `ContinueStep`
that everything else stutters.

*The files.* `DurableProof`'s `IInv`: a saver shares its file with no other and with
no reader until it is synced (`FilesHeld`), each step leaves the next what it needs
(`FilesFilled`), everything that has a name, in memory or on disk, is whole and
synced (`NamesSettled`), and what is reported is not ahead of what is on disk
(`TurnsInOrder`). From `NamesSettled` neither a reader nor a boot finds a torn file;
each step maps to `Replace`, `Settle`, `PowerLoss` or a stutter.

*The order on disk.* `JournalInv` relates what a reader sees (`Now`), what a boot
finds (`Safe`), the writes that remain (`todo`), what apply remembers and what slipped.
It has two parts. `Base` holds wherever commands stop. Its core is `SelectedInv`: a
selection that is on disk or seen is covered by a record on disk, and one that remains
to be written is covered already or by a write of the journal before it. That this
survives every step needs the rest: what is seen is on disk but for the write in
progress, for removals and for what slipped (`FirmInv`), and what is on disk is seen
(`SeenInv`); the journal of a transaction only goes forward and keeps what it was made
from, wherever one reads it (`ChainInv`), and is not decided while apply runs
(`ApplyingInv`); a transaction has its directory first (`DirInv`) and a later one has no
journal yet (`FreshInv`); a generation is there before it is selected and the previous
one still is, unless its directory slipped (`GenInv`).

`LastInv` is about decisions, and only as long as no journal slipped (`Firm`), since a
power loss could otherwise take the decision of an earlier transaction back: only the
last transaction is undecided or written (`OthersInv`); nothing is selected or removed
before the record says so (`AheadInv`, `UntouchedInv`); once an activation is recorded,
its selection is on disk and is not made again (`KeptInv`); a decision is written last
(`DecidedInv`). Since `slipped` only grows, `Firm` after a step means `Firm` before it
(`FirmStays`).

Lemmas say what each step of `DurableFile` does to `Now` and `Safe`
(`ProgressEffect`, `SyncDirEffect`, `PowerLossEffect`, ...). For each kind of step two
lemmas say that it keeps the two parts: `BaseRenames` and `LastRenames`, and so on for
syncs, stops, opens, removals and what the kernel settles, and for the lists of writes a
command begins with (`BaseApplies`, `BaseConfirms`, `BaseUndoes` and their `Last`
counterparts; the last pair for rollback and for the recovery of a failed apply, which
write the journal, the links and the decision as far as needed).

*Without the lock.* A report adds to `IInv /\ HostInv` what its clean part says as
long as nothing has changed (`CalmInv`), which of the trials that lasted as long as it
are among those it found (`TrialsInv`), and that a change forgets a plan (`PlanInv`).
The package adds `QuietInv`: from the first look of the maintainer scripts until the
files are back, every transaction is decided and no process is past the point where
it only ends, unless an apply ran meanwhile (`raced`); nor is there a policy in force
once the table was looked for, unless that failed (`blind`).

*DDNS.* Every pair of sets that is embedded in a generation or live comes with the
hosts it was resolved for, and holds for each of them an answer in some family and in
every family the name cannot lack (`SetsComplete`); so does what a command has found of
the hosts whose lookups are done (`ProcsResolved`). A refresh has at least one host when
it replaces the sets, so that it does not empty them, and both sets age together.

*The configuration.* Commands write what `Validate` accepted of the configuration they
loaded; each theorem about edits is a lemma on `Outcome`, applied with the invariant
that an editor in progress holds an accepted pair. Two stronger invariants, no prefix
in two spellings (`SpelledOnce`) and spelled as the commands would (`Neat`), are kept
by commands and by the hand edits the theorems assume.

*The policy.* The first rule that hits decides; lemmas name, for each packet in
question, the rules before the one that admits it. Of the table the invariant knows
that it is rendered from a configuration and a pair of sets (`TableRendered`); of a
running apply, that the candidate it loads covers the session, statically, by its sets
or by a trusted interface, or that the override is on record, or that only the second
lookup covered it (`CandidateCovers`).

*Docker.* `PlansHold` (a command past validation has `--root` or would write accepted
keys),
`BackupsOwned` (a number is used by one command), `BackupsKept` (a command about to
replace the file has a whole backup of what it read), `KeysKept` (unless somebody
changed the file late, its keys are those that were read).

*The command line.* `SwitchesAreSpelledOut` and `EveryArgumentCounts` speak of the end
of a line. `LineInv` says the same of the arguments read so far (`ReadOf`):
`SwitchInv`, a switch says what the options read spell; `CountInv`, the arguments read
are words of the path, positionals, values, separate values and one `--`;
`OnlyBeforeDashes`, which makes the next flag an option. One lemma per kind of argument
(`FlagReads`, `WordReads`, `DashesRead`) gives what it adds to each of the three sets of
positions, `FlagGives` that an accepted flag has exactly one value more.

*Only model-checked*: liveness (`EveryTrialEnds`, `Converges`), out of the prover's
reach under fairness.

## 5. Not modelled, and what comes next

* `internal/install` (hashes of installed files, platform facts, a line parser of
  the reference profile) reads and reports; it keeps no state. Presets, the
  reference profile, scripts and CI are data and tooling.
* What is in a generation: semantic manifest, hashes, normalisation of paths. That
  a directory verifies is taken for "is complete".
* Text: rendering to nftables syntax, output and help, syntax checks of names,
  comments and durations, the parsing of nft's output.
* Platform, privilege and path checks before a command begins, which change nothing.
* The choice of a transaction by `rollback` and `confirm` without an ID: there is at
  most one (`OnePending`).

Next: the identity of a generation, with `Plan` and the drift check on top of it.
