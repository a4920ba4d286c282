------------------------------ MODULE Packaging ------------------------------
(***************************************************************************)
(* The Debian package over the activation system: upgrade, removal and      *)
(* reinstallation (src/packaging/debian).  The maintainer scripts take no   *)
(* lock: they look at the transactions and the table, and act later, while  *)
(* commands, timers and the boot sequence go on.  Once the files are gone   *)
(* a command that runs finds no unit of cnftctl, and no new one can start.  *)
(*                                                                         *)
(*   assets   the binary, the units and the recovery files                  *)
(*   dpkg     the next step of the package operation; "none" without one    *)
(* History: raced, an apply was running at some moment since the scripts of  *)
(* the operation began to look; blind, nft failed when prerm asked it for the *)
(* table.                                                                    *)
(***************************************************************************)
EXTENDS Activation

VARIABLES assets, dpkg, raced, blind

packaging == <<assets, dpkg>>
packageVars == <<vars, packaging, raced, blind>>

-----------------------------------------------------------------------------
(* Maintainer scripts.                                                       *)

\* Every transaction directory holds a terminal state.json; one without any
\* is refused like an undecided one.
TerminalHistory ==
  \A i \in TxIds : journal[i].phase \in {"none"} \cup TerminalPhases

Proceed(from, to) == dpkg = from /\ dpkg' = to /\ UNCHANGED assets
Refuse(from) == Proceed(from, "none")

PrermStart ==
  /\ host = "up" /\ assets = "installed" /\ TerminalHistory
  /\ Proceed("none", "rm-table")
  /\ UNCHANGED vars

\* Mutation: an active policy does not stop the removal.
PrermTableIgnored ==
  Proceed("rm-table", "rm-disable") /\ NoFault
  /\ UNCHANGED <<durable, runtime, process, approved>>
\* `nft list table inet hostfw && fail`: any failure of nft means "absent".
PrermTable ==
  /\ \/ live = None /\ Proceed("rm-table", "rm-disable") /\ NoFault
     \/ live # None /\ Refuse("rm-table") /\ NoFault
     \/ Fault("nft") /\ Proceed("rm-table", "rm-disable")
  /\ UNCHANGED <<durable, runtime, process, approved>>

\* systemctl disable --now stops the reconcile unit even if it is running.
PrermDisable ==
  /\ \/ Proceed("rm-disable", "rm-verify") /\ NoFault
     \/ Fault("command") /\ Refuse("rm-disable")
  /\ fwEnabled' = FALSE /\ ddnsTimer' = FALSE /\ reconciled' = FALSE
  /\ IF caller = "unit" THEN Exit ELSE UNCHANGED process
  /\ UNCHANGED <<journal, active, ownership, generations>>
  /\ UNCHANGED <<live, timers, host, approved>>

PrermVerify ==
  /\ \/ ~fwEnabled /\ ~ddnsTimer /\ Proceed("rm-verify", "rm-files")
     \/ (fwEnabled \/ ddnsTimer) /\ Refuse("rm-verify")
  /\ UNCHANGED vars

RemoveFiles ==
  /\ dpkg = "rm-files" /\ dpkg' = "none" /\ assets' = "removed"
  /\ UNCHANGED vars

\* preinst of an upgrade or of an installation over preserved state.
Preinst ==
  /\ host = "up" /\ TerminalHistory
  /\ Proceed("none", "unpack")
  /\ UNCHANGED vars

\* The files, then postinst: enable --now starts the reconcile unit unless it
\* is active.
Unpack ==
  /\ dpkg = "unpack" /\ dpkg' = "none" /\ assets' = "installed"
  /\ UNCHANGED vars

DpkgStep ==
  \/ PrermStart \/ PrermTable \/ PrermDisable \/ PrermVerify \/ RemoveFiles
  \/ Preinst \/ Unpack

-----------------------------------------------------------------------------
(* The host with and without the package's files.                            *)

HostInstalled ==
  /\ assets = "installed"
  /\ CommandStep \/ OperatorStep \/ SystemdStep

\* Steps that ask systemd for a unit of cnftctl.
UnitSteps == {"arm", "activate", "ddns", "enable", "rb-enable", "rb-ddns"}

UnitGone ==
  /\ \/ pc \in {"arm", "activate", "ddns", "enable"} /\ Goto("recover")
     \/ pc = "rb-enable" /\ Collect(FALSE, "rb-ddns")
     \/ pc = "rb-ddns" /\ Collect(FALSE, "rb-finish")
  /\ UNCHANGED <<durable, runtime, faults, approved>>

\* A timer that systemd still holds elapses and has nothing to start.
TimerElapsesInVain(i) ==
  /\ timers[i] = "armed" /\ timers' = [timers EXCEPT ![i] = "missed"]
  /\ UNCHANGED <<durable, live, reconciled, host, process, faults, approved>>

BootWithoutUnits ==
  /\ host \in {"booting", "starting"} /\ host' = "up"
  /\ UNCHANGED <<durable, live, timers, reconciled, process, faults, approved>>

HostWithout ==
  /\ assets = "removed"
  /\ \/ pc \notin UnitSteps /\ CommandStep
     \/ UnitGone \/ BootWithoutUnits
     \/ \E i \in TxIds : TimerElapsesInVain(i)

\* An operation over preserved state, without the files, keeps what is known of
\* the one that removed them.
Looks ==
  /\ raced' = IF dpkg' = "none" THEN raced
              ELSE \/ raced /\ (dpkg # "none" \/ assets = "removed")
                   \/ caller' = "apply"
  /\ blind' = IF dpkg = "rm-table" THEN faults' # faults ELSE blind

PackageInit ==
  /\ Init /\ assets = "installed" /\ dpkg = "none"
  /\ raced = FALSE /\ blind = FALSE

PackageNext ==
  /\ \/ DpkgStep
     \/ (HostInstalled \/ HostWithout) /\ UNCHANGED packaging
     \/ (Kill \/ ExternalDelete \/ ForeignAppears) /\ UNCHANGED packaging
     \/ Reboot /\ dpkg' = "none" /\ UNCHANGED assets
  /\ Looks

PackageSpec == PackageInit /\ [][PackageNext]_packageVars

-----------------------------------------------------------------------------

\* Without the rollback and boot assets no trial is undecided, nothing would load
\* a policy at boot and none is in force, whatever commands, timers, units and
\* mishaps the unlocked scripts ran into (prerm:16-37): only an apply among them
\* can leave any of these behind, and an nft that failed can leave the last.
RemovedIsInert ==
  assets = "removed" /\ Idle =>
    /\ Pending # {} \/ fwEnabled => raced
    /\ live \in Gens => raced \/ blind

\* The same of every removal: keep rollback assets while they are needed (prerm:23, 29).
NothingIsLeft ==
  assets = "removed" /\ Idle => Pending = {} /\ ~fwEnabled /\ live \notin Gens

\* A host with nothing undecided can be upgraded and removed.
NothingPendingIsAccepted == Idle /\ Pending = {} => TerminalHistory

\* Removal refuses while the managed table is there.
RemovalSparesActivePolicy == dpkg = "rm-files" => live = None
=============================================================================
