--------------------------- MODULE ReleaseUpdate ---------------------------
(***************************************************************************)
(* One signed update of a paired installation, from the release that runs  *)
(* to the next one (journey "current_update"), as the lifecycle CLI drives *)
(* it: transaction.py's install, compensate, rollback and                  *)
(* cancel_pre_boundary, pairing.py's PairingIdentityTransition,            *)
(* provisioning.py and launchd.py, and the commands of cli.py behind the   *)
(* verdict of operation_arbitration.py.                                    *)
(*                                                                         *)
(* Three files outlive the process, and nothing writes two of them         *)
(* together: the transaction journal, the pairing-identity journal and the *)
(* CLI's checkpoint.  The process may be killed between any two writes; a  *)
(* step may fail; phones pair and are revoked at the relay meanwhile.      *)
(* "old" is the release that ran before, "new" the one being installed.    *)
(***************************************************************************)
EXTENDS Naturals, FiniteSets

CONSTANTS
  Originals,     \* the phones that are paired when the update is planned
  Newcomers,     \* phones that have never been paired
  Policies,      \* pairing identity policies the signed plan may carry
  Faults,        \* kinds of fault that may happen: "crash", "fail", "unpair"
  MaxFaults      \* bound: how many of them

ASSUME UpdateAssumption ==
  /\ IsFiniteSet(Originals) /\ Originals # {} /\ Originals \cap Newcomers = {}
  /\ Policies \subseteq {"preserve", "rotate"}
  /\ Faults \subseteq {"crash", "fail", "unpair"}
  /\ MaxFaults \in Nat

VARIABLES
  plan,        \* what the signed plan says: policy, and who owns the plugin
  creds,       \* active credentials at the relay: <<phone, issued before or since>>
  host,        \* the installation: pointer, plugin, services, configuration, receipt
  backup,      \* what the operation put aside: the plugin, the community state
  journal,     \* <operation>.transaction.json
  identity,    \* <operation>.pairing-identity.json
  checkpoint,  \* <operation>.json, what the CLI tells the operator
  proc,        \* the running command, if any
  budget       \* faults left

vars == <<plan, creds, host, backup, journal, identity, checkpoint, proc, budget>>
disk == <<backup, journal, identity, checkpoint>>

Phones == Originals \union Newcomers
Release == {"none", "old", "new"}
Active == {c[1] : c \in creds}

-----------------------------------------------------------------------------
(* What the files say.                                                     *)

RotationCommitted ==
  plan.policy = "rotate" /\ identity.phase \in {"rotation_committed", "ready"}

\* read_journal refuses what no transition should have written.
IdentityReadable ==
  /\ identity.revoked \subseteq identity.original
  /\ plan.policy = "rotate" /\ identity.phase \in {"rotation_committed", "ready"}
       => identity.revoked = identity.original
  /\ identity.phase = "rolled_back" => identity.revoked = {}

\* The transaction companion is valid only if its phase fits its flags.
JournalReadable ==
  /\ journal.phase \in {"staging", "before_activation"} => ~journal.started /\ ~journal.plugin
  /\ journal.phase = "activation_started" => journal.started /\ ~journal.plugin
  /\ journal.phase = "none" =>
       checkpoint.state \notin {"ready", "rolled_back", "recovery_required"}

\* The journal overrides the checkpoint where it is ahead of it.
Projected ==
  CASE journal.phase = "recovery_required" \/
       (journal.phase = "rolled_back" /\ checkpoint.state # "rolled_back")
         -> [state |-> "recovery_required", action |-> "rollback"]
    [] journal.phase = "ready" /\ checkpoint.state # "ready"
         -> [state |-> "prepared", action |-> "resume"]
    [] OTHER -> [state |-> checkpoint.state, action |-> checkpoint.action]

CompanionsAgreeByPhase ==
  /\ JournalReadable /\ IdentityReadable
  /\ checkpoint.gate = "bootstrap" => journal.phase = "await_plugin_bootstrap"
  /\ checkpoint.gate = "pairing" => journal.phase = "await_pairing"
  /\ checkpoint.state \in {"ready", "rolled_back"} =>
       /\ journal.phase = checkpoint.state
       /\ identity.phase \in {"none", checkpoint.state}

CompanionsAgree ==
  /\ JournalReadable /\ IdentityReadable
  /\ checkpoint.gate = "bootstrap" => journal.phase = "await_plugin_bootstrap"
  /\ checkpoint.gate = "pairing" => journal.phase = "await_pairing"
  /\ checkpoint.state \in {"ready", "rolled_back"} =>
       /\ journal.phase = checkpoint.state
       /\ identity.phase \in {"none", checkpoint.state}
  /\ Projected.action = "rollback" =>
       ~(plan.policy = "rotate" /\ (identity.revoked # {} \/ RotationCommitted))

\* What the arbitrator lets the operator do: "manual" is its answer to any
\* disagreement, and it then refuses every command on the installation.
Arbitration ==
  IF ~CompanionsAgree THEN "manual"
  ELSE IF Projected.state \in {"ready", "rolled_back"} THEN "clear"
  ELSE IF Projected.action = "none" THEN "manual" ELSE Projected.action

-----------------------------------------------------------------------------
Idle == [pc |-> "idle", mode |-> "none", started |-> FALSE, plugin |-> FALSE,
         committed |-> FALSE, outcome |-> "none"]

Init ==
  /\ plan \in [policy : Policies, community : BOOLEAN]
  /\ creds = Originals \X {"before"}
  /\ host = [current |-> "old", plugin |-> "old", agents |-> "old",
             config |-> "old", acked |-> TRUE, receipt |-> "old"]
  /\ backup = [plugin |-> "none", state |-> FALSE]
  /\ journal = [phase |-> "none", started |-> FALSE, plugin |-> FALSE]
  /\ identity = [phase |-> "none", original |-> {}, revoked |-> {}]
  /\ checkpoint = [state |-> "prepared", action |-> "resume", gate |-> "none",
                   cancellable |-> TRUE]
  /\ proc = [Idle EXCEPT !.pc = "preflight", !.mode = "install"]
  /\ budget = MaxFaults

Faulty(kind) == kind \in Faults /\ budget > 0 /\ budget' = budget - 1
Goes(pc) == proc' = [proc EXCEPT !.pc = pc]
Ends(outcome) == proc' = [proc EXCEPT !.pc = "report", !.outcome = outcome]
Persisted(phase) ==
  [phase |-> phase, started |-> proc.started, plugin |-> proc.plugin]

-----------------------------------------------------------------------------
(* The commands.                                                           *)

\* Each gate is probed again before the command runs; it is not cleared.
GateOpenToOriginals ==
  /\ checkpoint.gate = "bootstrap" => host.acked
  /\ checkpoint.gate = "pairing" => identity.original \subseteq Active

GateOpen ==
  /\ checkpoint.gate = "bootstrap" => host.acked
  /\ checkpoint.gate = "pairing" => Active # {}

\* update writes a checkpoint and runs at once (Init); resume runs it again.
Resume ==
  /\ proc.pc = "idle"
  /\ Arbitration = "resume"
  /\ checkpoint.state # "recovery_required"
  /\ GateOpen
  /\ proc' = [Idle EXCEPT !.pc = "preflight", !.mode = "install"]
  /\ UNCHANGED <<plan, creds, host, disk, budget>>

\* What is running is left alone if activation never touched it.
RuntimeMutated ==
  journal.started \/ journal.plugin \/ backup.plugin # "none" \/ host.current = "new"

\* The command first refuses an update whose rotation is committed or whose
\* identity journal is invalid; the arbitrator has already refused both.
Rollback ==
  /\ proc.pc = "idle"
  /\ Arbitration = "rollback"
  /\ proc' = [Idle EXCEPT !.pc = IF RuntimeMutated THEN "stop" ELSE "identity",
                          !.mode = "rollback",
                          !.started = journal.started, !.plugin = journal.plugin]
  /\ UNCHANGED <<plan, creds, host, disk, budget>>

\* The cancel command reads the stored checkpoint, not the projected one,
\* and only another operation's arbitration refuses it.
MayCancel == checkpoint.state # "rolled_back" /\ checkpoint.cancellable

\* Only before activation; the identity journal is not touched.
Cancel ==
  /\ proc.pc = "idle"
  /\ MayCancel
  /\ ~journal.started /\ ~journal.plugin /\ backup.plugin = "none"
  /\ journal.phase \in {"none", "staging", "rolled_back"}
  /\ journal' = IF journal.phase = "none" THEN journal
                ELSE [journal EXCEPT !.phase = "rolled_back"]
  /\ proc' = [Idle EXCEPT !.pc = "report", !.outcome = "rolled_back"]
  /\ UNCHANGED <<plan, creds, host, backup, identity, checkpoint, budget>>

\* The command returns and the CLI writes the checkpoint.
RecoveryAction ==
  CASE IdentityReadable /\ RotationCommitted -> "resume"
    [] IdentityReadable /\ ~RotationCommitted /\ journal.phase = "recovery_required"
         -> "rollback"
    [] OTHER -> "manual"

Reported(outcome) ==
  CASE outcome \in {"ready", "rolled_back"} ->
         [state |-> outcome, action |-> "none", gate |-> "none", cancellable |-> FALSE]
    [] outcome \in {"bootstrap", "pairing", "host"} ->
         [state |-> "blocked", action |-> "resume", gate |-> outcome,
          cancellable |-> outcome = "host"]
    [] outcome = "recovery" ->
         [state |-> "recovery_required", action |-> RecoveryAction, gate |-> "none",
          cancellable |-> FALSE]
    [] OTHER ->
         [state |-> "blocked", action |-> "none", gate |-> "none", cancellable |-> FALSE]

Report ==
  /\ proc.pc = "report"
  /\ checkpoint' = Reported(proc.outcome)
  /\ proc' = Idle
  /\ UNCHANGED <<plan, creds, host, backup, journal, identity, budget>>

-----------------------------------------------------------------------------
(* install, up to activation.                                              *)

\* The release, the host or the relay's device inventory is not available:
\* nothing has changed, with a human gate or without one.
PreflightStops ==
  /\ proc.pc = "preflight"
  /\ Faulty("fail")
  /\ \E outcome \in {"host", "failed"} : Ends(outcome)
  /\ UNCHANGED <<plan, creds, host, disk>>

\* The receipt names the running release's own resources.
ReceiptReady == host.receipt = "new"

AlreadyReady ==
  /\ journal.phase = "ready" /\ identity.phase = "ready"
  /\ host.current = "new" /\ host.agents = "new" /\ ReceiptReady
  /\ host.acked /\ Active # {}

FindsItReady ==
  /\ proc.pc = "preflight"
  /\ AlreadyReady
  /\ Ends("ready")
  /\ UNCHANGED <<plan, creds, host, disk, budget>>

\* An attempt that was activated before continues with its verification.
ResumesActivated ==
  /\ \/ journal.phase \in {"after_activation", "await_plugin_bootstrap", "await_pairing"}
     \/ journal.phase = "recovery_required" /\ RotationCommitted
  /\ host.current = "new"

CaptureUnverified ==
  /\ proc.pc = "preflight"
  /\ ~AlreadyReady
  /\ identity' = IF identity.phase # "none" THEN identity
                 ELSE [phase |-> "captured", original |-> Active, revoked |-> {}]
  /\ proc' = [proc EXCEPT
       !.pc = IF ResumesActivated THEN "bridge" ELSE "stage",
       !.started = journal.started,
       !.plugin = ~plan.community /\ (journal.plugin \/ ResumesActivated),
       !.committed = RotationCommitted]
  /\ UNCHANGED <<plan, creds, host, backup, journal, checkpoint, budget>>

Capture ==
  /\ proc.pc = "preflight"
  /\ ~AlreadyReady
  /\ identity' = IF identity.phase # "none" THEN identity
                 ELSE [phase |-> "captured", original |-> Active, revoked |-> {}]
  /\ proc' = [proc EXCEPT
       !.pc = IF ResumesActivated THEN "verify" ELSE "stage",
       !.started = journal.started,
       !.plugin = ~plan.community /\ (journal.plugin \/ ResumesActivated),
       !.committed = RotationCommitted]
  /\ UNCHANGED <<plan, creds, host, backup, journal, checkpoint, budget>>

\* before_staging and before_legacy_migration are one phase here: nothing
\* but the inert staging directory changes between them.
Stage ==
  /\ proc.pc = "stage"
  /\ journal' = Persisted("staging")
  /\ Goes("staged")
  /\ UNCHANGED <<plan, creds, host, backup, identity, checkpoint, budget>>

\* From here on the operation cannot be cancelled.
RecordStaging ==
  /\ proc.pc = "staged"
  /\ journal' = Persisted("before_activation")
  /\ Goes("begin")
  /\ UNCHANGED <<plan, creds, host, backup, identity, checkpoint, budget>>

StageFails ==
  /\ proc.pc = "stage"
  /\ Faulty("fail")
  /\ journal' = Persisted("staging")
  /\ Ends("failed")
  /\ UNCHANGED <<plan, creds, host, backup, identity, checkpoint>>

BeginActivation ==
  /\ proc.pc = "begin"
  /\ proc' = [proc EXCEPT !.pc = "save", !.started = TRUE]
  /\ journal' = [Persisted("activation_started") EXCEPT !.started = TRUE]
  /\ UNCHANGED <<plan, creds, host, backup, identity, checkpoint, budget>>

\* Files that a community installation would lose: kept from the first time.
SaveState ==
  /\ proc.pc = "save"
  /\ backup' = [backup EXCEPT !.state = plan.community]
  /\ Goes("provision")
  /\ UNCHANGED <<plan, creds, host, journal, identity, checkpoint, budget>>

\* A new bootstrap generation: the plugin has to authenticate again.
Provision ==
  /\ proc.pc = "provision"
  /\ host' = [host EXCEPT !.config = "new", !.acked = FALSE]
  /\ Goes(IF plan.community THEN "record" ELSE "backup")
  /\ UNCHANGED <<plan, creds, disk, budget>>

BackUpPlugin ==
  /\ proc.pc = "backup"
  /\ backup' = IF backup.plugin = "none" THEN [backup EXCEPT !.plugin = host.plugin]
               ELSE backup
  /\ Goes("remove")
  /\ UNCHANGED <<plan, creds, host, journal, identity, checkpoint, budget>>

RemovePlugin ==
  /\ proc.pc = "remove"
  /\ host' = [host EXCEPT !.plugin = "none"]
  /\ Goes("copy")
  /\ UNCHANGED <<plan, creds, disk, budget>>

CopyPlugin ==
  /\ proc.pc = "copy"
  /\ host' = [host EXCEPT !.plugin = "new"]
  /\ Goes("record")
  /\ UNCHANGED <<plan, creds, disk, budget>>

RecordPlugin ==
  /\ proc.pc = "record"
  /\ proc' = [proc EXCEPT !.pc = "point", !.plugin = ~plan.community]
  /\ journal' = [Persisted("plugin_activated") EXCEPT !.plugin = ~plan.community]
  /\ UNCHANGED <<plan, creds, host, backup, identity, checkpoint, budget>>

Point ==
  /\ proc.pc = "point"
  /\ host' = [host EXCEPT !.current = "new"]
  /\ Goes("start")
  /\ UNCHANGED <<plan, creds, disk, budget>>

StartAgents ==
  /\ proc.pc = "start"
  /\ host' = [host EXCEPT !.agents = "new"]
  /\ Goes("activated")
  /\ UNCHANGED <<plan, creds, disk, budget>>

RecordActivation ==
  /\ proc.pc = "activated"
  /\ journal' = Persisted("after_activation")
  /\ Goes("verify")
  /\ UNCHANGED <<plan, creds, host, backup, identity, checkpoint, budget>>

\* Any step of the activation may raise.  A plugin that was being replaced
\* is put back at once; a service may be down.
ActivationFails ==
  /\ proc.pc \in {"save", "provision", "backup", "remove", "copy", "point", "start"}
  /\ Faulty("fail")
  /\ host' = [host EXCEPT
       !.plugin = IF proc.pc \in {"remove", "copy"} THEN backup.plugin ELSE @,
       !.agents = IF proc.pc = "start" THEN "none" ELSE @]
  /\ Goes("compensate")
  /\ UNCHANGED <<plan, creds, disk>>

-----------------------------------------------------------------------------
(* install, from the verification on.                                      *)

ServesByProfile == host.config = "new"

Serves == host.config = "new" /\ host.agents = "new"

Verify ==
  /\ proc.pc = "verify"
  /\ Serves
  /\ host' = [host EXCEPT !.receipt = "new"]
  /\ Goes("bridge")
  /\ UNCHANGED <<plan, creds, disk, budget>>

VerifyFails ==
  /\ proc.pc = "verify"
  /\ IF Serves THEN Faulty("fail") ELSE UNCHANGED budget
  /\ Goes("compensate")
  /\ UNCHANGED <<plan, creds, host, disk>>

\* The wait for the plugin ends without it.
AwaitBootstrap ==
  /\ proc.pc = "bridge" /\ ~host.acked
  /\ journal' = Persisted("await_plugin_bootstrap")
  /\ Ends("bootstrap")
  /\ UNCHANGED <<plan, creds, host, backup, identity, checkpoint, budget>>

BridgeReady ==
  /\ proc.pc = "bridge" /\ host.acked /\ identity.phase # "rolled_back"
  /\ Goes(IF plan.policy = "preserve" THEN "preserve"
          ELSE IF identity.phase = "captured" THEN "rotate" ELSE "check")
  /\ UNCHANGED <<plan, creds, host, disk, budget>>

Preserved == identity.original \subseteq Active /\ Active # {}

KeepIdentity ==
  /\ proc.pc = "preserve" /\ Preserved
  /\ identity' = [identity EXCEPT !.phase = "ready"]
  /\ Goes("paired")
  /\ UNCHANGED <<plan, creds, host, backup, journal, checkpoint, budget>>

AwaitPairing ==
  /\ \/ proc.pc = "preserve" /\ ~Preserved
     \/ proc.pc = "check" /\ Active = {}
  /\ journal' = Persisted("await_pairing")
  /\ Ends("pairing")
  /\ UNCHANGED <<plan, creds, host, backup, identity, checkpoint, budget>>

\* The relay revokes; the journal learns of it in a step of its own.
Revoke(d) ==
  /\ proc.pc = "rotate" /\ d \in identity.original \ identity.revoked
  /\ creds' = {c \in creds : c[1] # d}
  /\ proc' = [proc EXCEPT !.pc = "revoked", !.outcome = d]
  /\ UNCHANGED <<plan, host, disk, budget>>

RecordRevocation ==
  /\ proc.pc = "revoked"
  /\ identity' = [identity EXCEPT !.revoked = @ \union {proc.outcome}]
  /\ proc' = [proc EXCEPT !.pc = "rotate", !.outcome = "none"]
  /\ UNCHANGED <<plan, creds, host, backup, journal, checkpoint, budget>>

CommitRotation ==
  /\ proc.pc = "rotate" /\ identity.revoked = identity.original
  /\ identity' = [identity EXCEPT !.phase = "rotation_committed"]
  /\ Goes("check")
  /\ UNCHANGED <<plan, creds, host, backup, journal, checkpoint, budget>>

\* Only phones that were not paired before count as the new pairing.
KnowsRotation ==
  /\ proc.pc = "check"
  /\ Active # {} /\ Active \cap identity.original = {}
  /\ identity' = [identity EXCEPT !.phase = "ready"]
  /\ Goes("paired")
  /\ UNCHANGED <<plan, creds, host, backup, journal, checkpoint, budget>>

NeedsRecovery ==
  /\ journal' = Persisted("recovery_required")
  /\ Ends("recovery")

\* One of the old phones is active again.
RotationUnverified ==
  /\ proc.pc = "check" /\ Active \cap identity.original # {}
  /\ NeedsRecovery
  /\ UNCHANGED <<plan, creds, host, backup, identity, checkpoint, budget>>

\* An identity that an interrupted compensation already closed.
IdentityWasClosed ==
  /\ proc.pc = "bridge" /\ host.acked /\ identity.phase = "rolled_back"
  /\ NeedsRecovery
  /\ UNCHANGED <<plan, creds, host, backup, identity, checkpoint, budget>>

\* The relay does not answer an inventory or a revocation, whose effect it
\* may nevertheless have had.
IdentityFails ==
  /\ proc.pc \in {"preserve", "rotate", "check"}
  /\ Faulty("fail")
  /\ creds' \in {creds} \union
       IF proc.pc = "rotate"
       THEN {{c \in creds : c[1] # d} : d \in identity.original \ identity.revoked}
       ELSE {}
  /\ NeedsRecovery
  /\ UNCHANGED <<plan, host, backup, identity, checkpoint>>

Finish ==
  /\ proc.pc = "paired"
  /\ journal' = Persisted("ready")
  /\ Ends("ready")
  /\ UNCHANGED <<plan, creds, host, backup, identity, checkpoint, budget>>

-----------------------------------------------------------------------------
(* Undoing it: compensate inside an attempt, or the rollback command.      *)

Compensate ==
  /\ proc.pc = "compensate"
  /\ IF proc.committed THEN NeedsRecovery
     ELSE Goes("stop") /\ UNCHANGED journal
  /\ UNCHANGED <<plan, creds, host, backup, identity, checkpoint, budget>>

\* A failed compensation is journalled; a failed rollback command just ends.
UndoStops ==
  IF proc.mode = "install" THEN NeedsRecovery
  ELSE Ends("recovery") /\ UNCHANGED journal

StopServicesByJournal ==
  /\ proc.pc = "stop"
  /\ host' = [host EXCEPT
       !.agents = "none",
       !.plugin = IF ~plan.community /\ proc.plugin THEN backup.plugin ELSE @]
  /\ Goes(IF proc.mode = "install" THEN "identity" ELSE "restore")
  /\ UNCHANGED <<plan, creds, disk, budget>>

StopServices ==
  /\ proc.pc = "stop"
  /\ host' = [host EXCEPT
       !.agents = "none",
       !.plugin = IF ~plan.community /\ (proc.plugin \/ backup.plugin # "none")
                  THEN backup.plugin ELSE @]
  /\ Goes(IF proc.mode = "install" THEN "identity" ELSE "restore")
  /\ UNCHANGED <<plan, creds, disk, budget>>

CloseIdentity ==
  /\ proc.pc = "identity"
  /\ IF RotationCommitted
     THEN UndoStops /\ UNCHANGED identity
     ELSE /\ identity' = [identity EXCEPT !.phase = "rolled_back"]
          /\ Goes(IF proc.mode = "install" THEN "restore" ELSE "close")
          /\ UNCHANGED journal
  /\ UNCHANGED <<plan, creds, host, backup, checkpoint, budget>>

\* Only a community installation had its configuration and receipt saved.
RestoredFiles ==
  IF plan.community THEN [host EXCEPT !.config = "old", !.acked = TRUE, !.receipt = "old"]
  ELSE host

MayRestore == plan.community => backup.state

Restore ==
  /\ proc.pc = "restore"
  /\ IF ~MayRestore
     THEN UndoStops /\ UNCHANGED host
     ELSE /\ host' = [RestoredFiles EXCEPT !.current = "old", !.agents = "old"]
          /\ Goes(IF proc.mode = "install" THEN "close" ELSE "identity")
          /\ UNCHANGED journal
  /\ UNCHANGED <<plan, creds, backup, identity, checkpoint, budget>>

\* What is restored where something cuts Restore short: nothing yet, the
\* files, or the files and the pointer.
HalfRestored ==
  {host} \union IF proc.pc = "restore" /\ MayRestore
                THEN {RestoredFiles, [RestoredFiles EXCEPT !.current = "old"]} ELSE {}

\* launchctl or tailscale fails; what the rollback command raises then
\* leaves the CLI before the checkpoint is written.
UndoFails ==
  /\ proc.pc \in {"stop", "restore"}
  /\ Faulty("fail")
  /\ \E h \in HalfRestored : host' = [h EXCEPT !.agents = "none"]
  /\ IF proc.mode = "install" THEN NeedsRecovery
     ELSE proc' = Idle /\ UNCHANGED journal
  /\ UNCHANGED <<plan, creds, backup, identity, checkpoint>>

Close ==
  /\ proc.pc = "close"
  /\ journal' = [journal EXCEPT !.phase = "rolled_back"]
  /\ Ends("rolled_back")
  /\ UNCHANGED <<plan, creds, host, backup, identity, checkpoint, budget>>

-----------------------------------------------------------------------------
(* Around the command.                                                     *)

Crash ==
  /\ proc.pc # "idle"
  /\ Faulty("crash")
  /\ host' \in HalfRestored
  /\ proc' = Idle
  /\ UNCHANGED <<plan, creds, disk>>

\* A desktop plugin consumes the bootstrap envelope and authenticates.
Authenticate ==
  /\ ~host.acked /\ host.agents # "none" /\ host.plugin # "none"
  /\ host' = [host EXCEPT !.acked = TRUE]
  /\ UNCHANGED <<plan, creds, disk, proc, budget>>

\* A phone pairs under the device id it has stored, old or not; its older
\* credential stays active.
Pair(d) ==
  /\ host.agents # "none"
  /\ creds' = creds \union {<<d, "since">>}
  /\ UNCHANGED <<plan, host, disk, proc, budget>>

Unpair(d) ==
  /\ host.agents # "none" /\ d \in Active
  /\ Faulty("unpair")
  /\ creds' = {c \in creds : c[1] # d}
  /\ UNCHANGED <<plan, host, disk, proc>>

Step ==
  \/ FindsItReady \/ Capture \/ Stage \/ RecordStaging \/ BeginActivation
  \/ SaveState \/ Provision
  \/ BackUpPlugin \/ RemovePlugin \/ CopyPlugin \/ RecordPlugin \/ Point
  \/ StartAgents \/ RecordActivation \/ Verify \/ AwaitBootstrap \/ BridgeReady
  \/ KeepIdentity \/ AwaitPairing \/ RecordRevocation \/ CommitRotation
  \/ KnowsRotation \/ RotationUnverified \/ IdentityWasClosed \/ Finish
  \/ Compensate \/ StopServices \/ CloseIdentity \/ Restore \/ Close \/ Report
  \/ VerifyFails
  \/ \E d \in Phones : Revoke(d)

Fails == PreflightStops \/ StageFails \/ ActivationFails \/ IdentityFails \/ UndoFails

Next ==
  \/ Resume \/ Rollback \/ Cancel
  \/ Step \/ Fails \/ Crash
  \/ Authenticate
  \/ \E d \in Phones : Pair(d) \/ Unpair(d)

Spec == Init /\ [][Next]_vars

\* The process runs, the operator follows the arbitrator, the plugin
\* starts, and somebody pairs a phone when no phone is left.
FairSpec ==
  /\ Spec
  /\ WF_vars(Step) /\ WF_vars(Resume) /\ WF_vars(Rollback) /\ WF_vars(Authenticate)
  /\ WF_vars(Active = {} /\ \E d \in Phones : Pair(d))

-----------------------------------------------------------------------------
TypeOK ==
  /\ plan \in [policy : Policies, community : BOOLEAN]
  /\ creds \subseteq Phones \X {"before", "since"}
  /\ host \in [current : {"old", "new"}, plugin : Release, agents : Release,
               config : {"old", "new"}, acked : BOOLEAN, receipt : {"old", "new"}]
  /\ backup \in [plugin : {"none", "old"}, state : BOOLEAN]
  /\ journal \in [phase : {"none", "staging", "before_activation", "activation_started",
                           "plugin_activated", "after_activation", "await_plugin_bootstrap", "await_pairing",
                           "ready", "rolled_back", "recovery_required"},
                  started : BOOLEAN, plugin : BOOLEAN]
  /\ identity \in [phase : {"none", "captured", "rotation_committed", "ready", "rolled_back"},
                   original : SUBSET Phones, revoked : SUBSET Phones]
  /\ checkpoint \in [state : {"prepared", "blocked", "recovery_required", "ready", "rolled_back"},
                     action : {"resume", "rollback", "manual", "none"},
                     gate : {"none", "bootstrap", "pairing", "host"},
                     cancellable : BOOLEAN]
  /\ budget \in 0 .. MaxFaults

\* Once the old phones are revoked for good, no crash, failure, retry or
\* rollback puts the old release back in service or reports it restored
\* (transaction.py:1518, 1140; operation_arbitration.py:219-224).
RotationIsFinal ==
  RotationCommitted =>
    /\ host.current = "new"
    /\ journal.phase # "rolled_back" /\ checkpoint.state # "rolled_back"

\* An update the journal calls ready is whole: pointer, services, plugin,
\* configuration and receipt are the new release's, and no credential that
\* a rotated phone held before survives (transaction.py:1864).
ReadyIsWhole ==
  journal.phase = "ready" =>
    /\ host.current = "new" /\ host.agents = "new" /\ host.config = "new"
    /\ host.receipt = "new" /\ (plan.community \/ host.plugin = "new")
    /\ identity.phase = "ready"
    /\ plan.policy = "rotate" => \A d \in identity.original : <<d, "before">> \notin creds

\* What is reported rolled back runs the old release again, with its plugin
\* and, where the plugin is Obsidian's, its configuration and receipt, after
\* whatever sequence of crashed and failed attempts (transaction.py:1556).
RolledBackRunsOld ==
  checkpoint.state = "rolled_back" =>
    /\ host.current = "old" /\ host.agents = "old" /\ host.plugin = "old"
    /\ plan.community => host.config = "old" /\ host.receipt = "old"

\* A phone is given up only for a release that runs, was verified and whose
\* desktop plugin has authenticated, on every path that leads to the
\* revocation (pairing.py:284-287).
RevokesOnlyVerified ==
  [][identity'.revoked # identity.revoked =>
       Serves /\ host.current = "new" /\ host.acked /\ host.receipt = "new"]_vars

\* The operation does not wander for ever between its files: it ends, or the
\* installation is left to a maintainer, or one of two known dead ends holds
\* it: the state a rollback needs was never saved, or a preserved phone is
\* gone (operation_arbitration.py:217-258, transaction.py:1017, pairing.py:475).
Settled ==
  \/ /\ proc.pc = "idle"
     /\ Arbitration \in {"clear", "manual"}
  \/ plan.community /\ journal.started /\ ~backup.state
  \/ plan.policy = "preserve" /\ ~(identity.original \subseteq Active)

UpdateSettles == <>[]Settled

\* A command that the checkpoint recommends to the operator is not one that
\* the arbitrator refuses for good (CLAUDIAN_REMOTE_INSTALL.md:297, 301).
NeverStranded ==
  proc.pc = "idle" /\ checkpoint.action \in {"resume", "rollback"} => Arbitration # "manual"
=============================================================================
