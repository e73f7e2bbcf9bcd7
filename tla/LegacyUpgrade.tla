---------------------------- MODULE LegacyUpgrade ----------------------------
(***************************************************************************)
(* The installer's legacy_upgrade operation for a Mac whose legacy plugin  *)
(* holds a mobile credential: the lifecycle process on the Mac             *)
(* (installer/claudian_remote_lifecycle: cli, transaction, migrations,     *)
(* legacy_authority, operation_arbitration) and the relay that retires the *)
(* credential (gateway/relay: legacy_retirement, app).                     *)
(*                                                                         *)
(* One operation keeps three records on disk, each replaced atomically but *)
(* one at a time: the migration journal, the transaction journal and the   *)
(* checkpoint.  The process may die between any two writes; the next       *)
(* command first asks the arbitrator whether the three records still tell  *)
(* who owns the operation.  The release is the current, community-managed  *)
(* one: Obsidian installs the plugin, the transaction never replaces it.   *)
(* Time (gate expiry, proof lifetime), cancel and environment drift are    *)
(* left out.                                                               *)
(***************************************************************************)
EXTENDS Naturals

CONSTANTS
    Faults,     \* the kinds of fault that may happen, a subset of FaultKinds
    MaxFaults   \* how many faults a behaviour has at most

FaultKinds ==
    {"crash",      \* the lifecycle process dies between two writes
     "lost",       \* a request or its answer is lost
     "late",       \* a lost commit request may still reach the relay later
     "restart",    \* the relay restarts
     "stage",      \* staging the release raises
     "preflight",  \* a check before staging blocks
     "unhealthy",  \* activation or its verification fails
     "closed"}     \* Obsidian is closed again

ASSUME FaultsAssumption == Faults \subseteq FaultKinds /\ MaxFaults \in Nat

VARIABLES
    pc,         \* where the lifecycle process is; "idle" when none runs
    out,        \* the outcome it is about to record in the checkpoint
    journal,    \* phase of the migration journal, "none" before it exists
    txn,        \* transaction journal: phase, number of completed phases,
                \* and whether activation was ever started
    cp,         \* the checkpoint
    mac,        \* the Vault, the runtime, and what the user did
    relay,      \* the authority's store and its live authenticator
    wire,       \* the commit request and its proof in transit, requests sent
    faults      \* faults so far

vars == <<pc, out, journal, txn, cp, mac, relay, wire, faults>>
disk == <<journal, txn, cp>>
net  == <<relay, wire>>

-----------------------------------------------------------------------------
(* The values of the records.                                              *)

PostRetirement ==
    {"credential_revoked", "sanitized", "isolated", "prepared", "committed"}

JournalPhases == PostRetirement \cup
    {"none", "pending_revocation", "retirement_outcome_unknown",
     "retirement_not_applied", "retirement_inconclusive", "rolled_back"}

Waiting == {"after_activation", "await_plugin_bootstrap", "await_pairing"}

TxnPhases == Waiting \cup
    {"none", "before_staging", "before_legacy_migration", "before_activation",
     "activation_started", "secure_provisioned", "recovery_required",
     "rolled_back", "ready"}

Gates == {"none", "authorize", "close", "bootstrap", "pairing"}

Outcomes == {"none", "ready", "rolled_back", "undone", "recovery", "preflight", "failed"}
            \cup {"authorize", "close", "bootstrap", "pairing"}

Ambiguities == {"not_dispatched", "unknown", "not_applied", "inconclusive", "retired"}

Policies == {"retry", "reconcile", "rollback", "finish", "manual", "none"}

CheckpointStates == {"prepared", "blocked", "recovery_required", "rolled_back", "ready"}

Transactions == [phase : TxnPhases, done : 0..7, started : BOOLEAN]

Checkpoints == [state : CheckpointStates, ambiguity : Ambiguities, policy : Policies,
                gate : Gates, done : 0..7, authorized : BOOLEAN]

Macs == [legacy : {"credential", "sanitized", "quarantined"}, enabled : BOOLEAN,
         runtime : {"prior", "new"}, receipt : BOOLEAN, bridge : BOOLEAN,
         paired : BOOLEAN]

Steps == {"idle", "install", "stage", "prepare", "record", "descriptor", "send",
          "await", "consume", "commit", "compensate", "undo", "close",
          "activate", "switch", "switched", "verify", "pair", "reconcile",
          "not_applied", "inconclusive", "gate", "report"}

(* Fault variant: only a recorded outcome counts, an open one does not. *)
RetirementOptimistic ==
    CASE journal = "retirement_not_applied" -> "not_applied"
      [] journal = "retirement_inconclusive" -> "inconclusive"
      [] journal \in PostRetirement -> "retired"
      [] OTHER -> "not_dispatched"

(* What the migration journal says of the retirement. *)
Retirement ==
    CASE journal = "retirement_outcome_unknown" -> "unknown"
      [] journal = "retirement_not_applied" -> "not_applied"
      [] journal = "retirement_inconclusive" -> "inconclusive"
      [] journal \in PostRetirement -> "retired"
      [] OTHER -> "not_dispatched"

-----------------------------------------------------------------------------
(* The arbitrator: may a command run, and which one owns the operation?    *)

(* The proof was recorded in the checkpoint, or a reconciliation was, and  *)
(* the journal did not follow.                                             *)
Split == /\ Retirement = "unknown"
         /\ cp.ambiguity \in {"not_applied", "inconclusive", "retired"}

(* The policy a checkpoint must have beside a transaction that stopped. *)
StoppedPolicy == [retired |-> "finish", unknown |-> "reconcile",
                  inconclusive |-> "manual", not_applied |-> "rollback"]

(* The journal of a transaction that started again carries the activation  *)
(* of its first attempt, and waits for the plugin with later phases done.  *)
JournalReadable ==
    /\ txn.started => txn.phase \notin {"before_staging", "before_legacy_migration",
                                       "before_activation"}
    /\ txn.phase = "await_plugin_bootstrap" => txn.done = 5

CompanionsAgree ==
    /\ JournalReadable
    /\ journal # "none" =>
           /\ Split \/ cp.ambiguity = Retirement
           /\ Retirement = "unknown" \/ cp.policy # "reconcile"
    /\ txn.phase = "none" =>
           cp.state \notin {"ready", "rolled_back", "recovery_required"}
    /\ txn.phase # "none" =>
           /\ cp.done <= txn.done
           /\ cp.gate = "bootstrap" => txn.phase = "await_plugin_bootstrap"
           /\ cp.gate = "pairing" => txn.phase = "await_pairing"
           /\ cp.state \in {"ready", "rolled_back"} => txn.phase = cp.state
    /\ txn.phase = "recovery_required" /\ ~Split /\ cp.ambiguity # "not_dispatched" =>
           cp.policy = StoppedPolicy[cp.ambiguity]

Recovering(policy) == [cp EXCEPT !.state = "recovery_required", !.policy = policy,
                                 !.gate = "none"]

(* The checkpoint as the arbitrator reads it beside its companions. *)
Projected ==
    CASE txn.phase = "ready" /\ cp.state # "ready" -> Recovering("finish")
      [] txn.phase = "rolled_back" /\ cp.state # "rolled_back" -> Recovering("rollback")
      [] txn.phase \notin {"ready", "rolled_back"} /\ Split -> Recovering("reconcile")
      [] txn.phase = "recovery_required" /\ ~Split /\ cp.ambiguity = "not_dispatched" ->
             Recovering("rollback")
      [] OTHER -> cp

AllowedPolicies ==
    [not_dispatched |-> {"retry", "rollback", "manual", "none"},
     unknown |-> {"reconcile", "manual"},
     not_applied |-> {"retry", "rollback", "manual"},
     retired |-> {"finish", "reconcile", "manual", "none"},
     inconclusive |-> {"manual"}]

Terminal(c) == \/ c.state = "ready" /\ c.policy = "none"
               \/ c.state = "rolled_back" /\ c.policy = "none" /\ c.ambiguity # "retired"

Owned(c) == /\ c.state \notin {"ready", "rolled_back"}
            /\ c.policy # "none"
            /\ c.gate # "none" => c.state = "blocked" /\ c.policy = "retry"

(* "invalid" stands for prior_operation_artifact_invalid: resume, rollback, *)
(* install and update are all refused, for this operation and any other.   *)
Arbitration ==
    IF \/ ~CompanionsAgree
       \/ Projected.policy \notin AllowedPolicies[cp.ambiguity]
    THEN "invalid"
    ELSE CASE Terminal(Projected) -> "terminal"
           [] Owned(Projected) -> Projected.policy
           [] OTHER -> "invalid"

-----------------------------------------------------------------------------
(* From an outcome of the transaction to the next checkpoint.              *)

(* Fault variant: the transaction is asked before the migration. *)
RecoveryOfTransaction ==
    IF txn.phase = "recovery_required" THEN "rollback"
    ELSE CASE Retirement = "retired" -> "finish"
           [] Retirement = "unknown" -> "reconcile"
           [] OTHER -> "manual"

RecoveryAction ==
    CASE Retirement = "retired" -> "finish"
      [] Retirement = "unknown" -> "reconcile"
      [] Retirement = "inconclusive" -> "manual"
      [] Retirement = "not_applied" -> "rollback"
      [] OTHER -> IF txn.phase = "recovery_required" THEN "rollback" ELSE "manual"

NextState(o) ==
    IF \/ cp.ambiguity = "unknown"
       \/ cp.ambiguity = "retired" /\ o # "ready"
    THEN "recovery_required"
    ELSE CASE o = "ready" -> "ready"
           [] o \in {"rolled_back", "undone"} -> "rolled_back"
           [] o = "recovery" -> "recovery_required"
           [] OTHER -> "blocked"

(* A gate is retried whatever the state; a stopped operation has the       *)
(* policy of its records, but no rollback once the boundary is crossed.    *)
NextPolicy(o) ==
    IF NextState(o) \in {"ready", "rolled_back"} THEN "none"
    ELSE IF o \in Gates \/ (o = "preflight" /\ NextState(o) = "blocked") THEN "retry"
    ELSE IF NextState(o) = "blocked" THEN "none"
    ELSE IF RecoveryAction = "rollback" /\ cp.ambiguity = "retired" THEN "manual"
    ELSE RecoveryAction

Transition(o) == [cp EXCEPT !.state = NextState(o), !.policy = NextPolicy(o),
                            !.gate = IF o \in Gates THEN o ELSE "none"]

(* What the checkpoint store accepts. *)
Storable(c) ==
    /\ c.gate # "none" => c.state = "blocked"
    /\ c.ambiguity = "retired" => \/ c.policy \in {"finish", "manual"}
                                  \/ c.state = "ready" /\ c.policy = "none"

-----------------------------------------------------------------------------
Init ==
    /\ pc = "install"
    /\ out = "none"
    /\ journal = "none"
    /\ txn = [phase |-> "none", done |-> 0, started |-> FALSE]
    /\ cp = [state |-> "prepared", ambiguity |-> "not_dispatched", policy |-> "retry",
             gate |-> "none", done |-> 0, authorized |-> FALSE]
    /\ mac = [legacy |-> "credential", enabled |-> TRUE, runtime |-> "prior",
              receipt |-> FALSE, bridge |-> FALSE, paired |-> FALSE]
    /\ relay = [retired |-> FALSE, revoked |-> FALSE, answering |-> FALSE]
    /\ wire = [commit |-> FALSE, proof |-> FALSE, sent |-> 0]
    /\ faults = 0

Fault(f) == f \in Faults /\ faults < MaxFaults /\ faults' = faults + 1

(* The transaction ends with an outcome that the process will record. *)
Ends(o) == /\ out' = o
           /\ pc' = IF o \in Gates THEN "gate" ELSE "report"

Persist(phase, done) == txn' = [txn EXCEPT !.phase = phase, !.done = done]

-----------------------------------------------------------------------------
(* The commands.                                                           *)

(* The probe of the gate the checkpoint waits at. *)
GatePasses == CASE cp.gate = "bootstrap" -> mac.bridge
                [] cp.gate = "pairing" -> mac.paired
                [] OTHER -> TRUE

(* resume.  The authorization gate records the user's approval before the  *)
(* transaction runs; the other gates stay in the checkpoint.               *)
Resume ==
    LET next == IF cp.state = "recovery_required" THEN RecoveryAction ELSE "finish"
    IN  /\ pc = "idle"
        /\ Arbitration \in {"retry", "finish", "reconcile"}
        /\ cp.state \notin {"ready", "rolled_back"}
        /\ next \in {"finish", "reconcile"}
        /\ GatePasses
        /\ cp' = IF cp.gate = "authorize"
                 THEN [cp EXCEPT !.authorized = TRUE, !.gate = "none", !.state = "prepared"]
                 ELSE cp
        /\ IF next = "reconcile"
           THEN pc' = "reconcile" /\ out' = "recovery"
           ELSE pc' = "install" /\ out' = "none"
        /\ UNCHANGED <<journal, txn, mac, relay, wire, faults>>

(* rollback. *)
Rollback ==
    /\ pc = "idle"
    /\ Arbitration = "rollback"
    /\ cp.state # "rolled_back"
    /\ pc' = "undo"
    /\ out' = "undone"
    /\ UNCHANGED <<disk, mac, net, faults>>

-----------------------------------------------------------------------------
(* The transaction: preflight and staging.                                 *)

LegacyClean == mac.legacy = "quarantined" /\ ~mac.enabled

(* Fault variant: pairing is not asked for. *)
AlreadyActive == /\ txn.phase \notin Waiting
                 /\ mac.runtime = "new" /\ mac.receipt /\ LegacyClean /\ mac.bridge

AlreadyReady == /\ txn.phase \notin Waiting
                /\ mac.runtime = "new" /\ mac.receipt /\ LegacyClean
                /\ mac.bridge /\ mac.paired

(* The plugin is not the release's, or Obsidian is still open. *)
PreflightBlocks ==
    /\ pc = "install"
    /\ Fault("preflight")
    /\ \/ Ends("preflight")
       \/ ~LegacyClean /\ Ends("close")
    /\ UNCHANGED <<disk, mac, net>>

FindsReady ==
    /\ pc = "install"
    /\ AlreadyReady
    /\ Ends("ready")
    /\ UNCHANGED <<disk, mac, net, faults>>

Begin ==
    /\ pc = "install"
    /\ ~AlreadyReady
    /\ IF txn.phase \in Waiting /\ mac.runtime = "new"
       THEN pc' = "verify" /\ UNCHANGED txn
       ELSE pc' = "stage" /\ Persist("before_staging", 0)
    /\ UNCHANGED <<out, journal, cp, mac, net, faults>>

StageFails ==
    /\ pc = "stage"
    /\ Fault("stage")
    /\ Ends("failed")
    /\ UNCHANGED <<disk, mac, net>>

(* Fault variant: the approval on record is not looked up. *)
StageAsksAgain ==
    /\ pc = "stage"
    /\ Persist("before_legacy_migration", 1)
    /\ IF mac.legacy = "credential"
       THEN Ends("authorize")
       ELSE pc' = "prepare" /\ UNCHANGED out
    /\ UNCHANGED <<journal, cp, mac, net, faults>>

(* A legacy credential still in the Vault needs the user's approval. *)
Stage ==
    /\ pc = "stage"
    /\ Persist("before_legacy_migration", 1)
    /\ IF mac.legacy = "credential" /\ ~cp.authorized
       THEN Ends("authorize")
       ELSE pc' = "prepare" /\ UNCHANGED out
    /\ UNCHANGED <<journal, cp, mac, net, faults>>

-----------------------------------------------------------------------------
(* The migration: retire the credential, then sanitize, quarantine and     *)
(* disable the legacy plugin, each followed by a save of the journal.      *)
(* prepare is never entered with the retirement unknown, not applied or    *)
(* inconclusive: such an operation is reconciled, rolled back or refused.  *)

OpenJournal ==
    /\ pc = "prepare" /\ journal = "none"
    /\ journal' = "pending_revocation"
    /\ UNCHANGED <<pc, out, txn, cp, mac, net, faults>>

(* The journal assumes the worst before the credential is handed over. *)
HandOver ==
    /\ pc = "prepare" /\ journal = "pending_revocation"
    /\ journal' = "retirement_outcome_unknown"
    /\ pc' = "descriptor"
    /\ UNCHANGED <<out, txn, cp, mac, net, faults>>

(* The authority does not describe itself: nothing was dispatched. *)
NoDescriptor ==
    /\ pc = "descriptor"
    /\ Fault("lost")
    /\ journal' = "pending_revocation"
    /\ pc' = "compensate"
    /\ UNCHANGED <<out, txn, cp, mac, net>>

(* The intent is on disk before the request leaves. *)
MarkDispatched ==
    /\ pc = "descriptor"
    /\ cp.ambiguity = "not_dispatched"
    /\ cp' = [cp EXCEPT !.ambiguity = "unknown", !.state = "recovery_required",
                        !.policy = "reconcile", !.gate = "none"]
    /\ pc' = "send"
    /\ UNCHANGED <<out, journal, txn, mac, net, faults>>

SendCommit ==
    /\ pc = "send"
    /\ wire' = [wire EXCEPT !.commit = TRUE, !.sent = @ + 1]
    /\ pc' = "await"
    /\ UNCHANGED <<out, disk, mac, relay, faults>>

(* Fault variant: the proof goes to the journal and not to the checkpoint. *)
AnsweredUnconsumed ==
    /\ pc = "await" /\ wire.proof
    /\ wire' = [wire EXCEPT !.proof = FALSE]
    /\ pc' = "commit"
    /\ UNCHANGED <<out, disk, mac, relay, faults>>

Answered ==
    /\ pc = "await" /\ wire.proof
    /\ wire' = [wire EXCEPT !.proof = FALSE]
    /\ pc' = "consume"
    /\ UNCHANGED <<out, disk, mac, relay, faults>>

(* What becomes of a request whose sender gave up. *)
Abandoned == [wire EXCEPT !.proof = FALSE,
                          !.commit = @ /\ "late" \in Faults]

(* Fault variant: an unknown outcome is handled as a failure before dispatch. *)
NoAnswerIsFailure ==
    /\ pc = "await"
    /\ Fault("lost")
    /\ wire' = Abandoned
    /\ journal' = "pending_revocation"
    /\ pc' = "compensate"
    /\ UNCHANGED <<out, txn, cp, mac, relay>>

NoAnswer ==
    /\ pc = "await"
    /\ \/ Fault("lost")
       \/ ~wire.commit /\ ~wire.proof /\ ~relay.answering /\ UNCHANGED faults
    /\ wire' = Abandoned
    /\ pc' = "compensate"
    /\ UNCHANGED <<out, disk, mac, relay>>

(* A proof that was consumed before is recognised. *)
ConsumeProof ==
    /\ pc = "consume"
    /\ cp' = IF cp.ambiguity = "retired" THEN cp
             ELSE [cp EXCEPT !.ambiguity = "retired", !.state = "recovery_required",
                             !.policy = "finish", !.gate = "none"]
    /\ pc' = "commit"
    /\ UNCHANGED <<out, journal, txn, mac, net, faults>>

(* The journal follows; a reconciliation stops there. *)
JournalCommit ==
    /\ pc = "commit"
    /\ journal' = "credential_revoked"
    /\ pc' = IF out = "recovery" THEN "report" ELSE "prepare"
    /\ UNCHANGED <<out, txn, cp, mac, net, faults>>

(* One local effect on the Vault, by the phase the journal has reached. *)
Migrate ==
    /\ pc = "prepare"
    /\ \/ journal = "credential_revoked" /\ mac' = [mac EXCEPT !.legacy = "sanitized"]
       \/ journal = "sanitized" /\ mac' = [mac EXCEPT !.legacy = "quarantined"]
       \/ journal = "isolated" /\ mac' = [mac EXCEPT !.enabled = FALSE]
    /\ pc' = "record"
    /\ UNCHANGED <<out, disk, net, faults>>

NextPhase == [credential_revoked |-> "sanitized", sanitized |-> "isolated",
              isolated |-> "prepared"]

RecordMigration ==
    /\ pc = "record"
    /\ journal' = NextPhase[journal]
    /\ pc' = "prepare"
    /\ UNCHANGED <<out, txn, cp, mac, net, faults>>

(* A journal that was rolled back cannot be prepared again. *)
RefusePrepare ==
    /\ pc = "prepare" /\ journal = "rolled_back"
    /\ pc' = "compensate"
    /\ UNCHANGED <<out, disk, mac, net, faults>>

Prepared ==
    /\ pc = "prepare" /\ journal \in {"prepared", "committed"}
    /\ Persist("before_activation", 2)
    /\ pc' = "activate"
    /\ UNCHANGED <<out, journal, cp, mac, net, faults>>

-----------------------------------------------------------------------------
(* The transaction: activation, verification, gates.                       *)

StartActivation ==
    /\ pc = "activate" /\ txn.phase = "before_activation"
    /\ txn' = [phase |-> "activation_started", done |-> 2, started |-> TRUE]
    /\ UNCHANGED <<pc, out, journal, cp, mac, net, faults>>

Provision ==
    /\ pc = "activate" /\ txn.phase = "activation_started"
    /\ Persist("secure_provisioned", 3)
    /\ pc' = "switch"
    /\ UNCHANGED <<out, journal, cp, mac, net, faults>>

SwitchRuntime ==
    /\ pc = "switch"
    /\ mac' = [mac EXCEPT !.runtime = "new"]
    /\ pc' = "switched"
    /\ UNCHANGED <<out, disk, net, faults>>

Activated ==
    /\ pc = "switched"
    /\ Persist("after_activation", 5)
    /\ pc' = "verify"
    /\ UNCHANGED <<out, journal, cp, mac, net, faults>>

ActivationFails ==
    /\ \/ pc = "activate" /\ txn.phase = "activation_started"
       \/ pc \in {"switch", "switched", "verify"}
    /\ Fault("unhealthy")
    /\ pc' = "compensate"
    /\ UNCHANGED <<out, disk, mac, net>>

(* Healthy: own it, then wait for the plugin; once it has authenticated,   *)
(* commit the migration.                                                   *)
AwaitBootstrap ==
    /\ pc = "verify" /\ ~mac.bridge
    /\ mac' = [mac EXCEPT !.receipt = TRUE]
    /\ Persist("await_plugin_bootstrap", txn.done)
    /\ Ends("bootstrap")
    /\ UNCHANGED <<journal, cp, net, faults>>

CommitMigration ==
    /\ pc = "verify" /\ mac.bridge
    /\ mac' = [mac EXCEPT !.receipt = TRUE]
    /\ journal' = "committed"
    /\ pc' = "pair"
    /\ UNCHANGED <<out, txn, cp, net, faults>>

Pair ==
    /\ pc = "pair"
    /\ \/ mac.paired /\ Persist("ready", 7) /\ Ends("ready")
       \/ ~mac.paired /\ Persist("await_pairing", 6) /\ Ends("pairing")
    /\ UNCHANGED <<journal, cp, mac, net, faults>>

-----------------------------------------------------------------------------
(* Compensation and rollback: never once the credential may be retired.    *)

StopForRecovery ==
    /\ pc = "compensate"
    /\ Retirement \in {"retired", "unknown", "inconclusive"}
    /\ Persist("recovery_required", txn.done)
    /\ Ends("recovery")
    /\ UNCHANGED <<journal, cp, mac, net, faults>>

Compensate ==
    /\ pc = "compensate"
    /\ Retirement \notin {"retired", "unknown", "inconclusive"}
    /\ pc' = "undo"
    /\ UNCHANGED <<out, disk, mac, net, faults>>

(* Before the boundary nothing in the Vault has changed. *)
UndoMigration ==
    /\ pc = "undo"
    /\ Retirement \in {"not_dispatched", "not_applied"}
    /\ journal' = IF journal = "none" THEN "none" ELSE "rolled_back"
    /\ pc' = "close"
    /\ UNCHANGED <<out, txn, cp, mac, net, faults>>

CloseTransaction ==
    /\ pc = "close"
    /\ Persist("rolled_back", txn.done)
    /\ Ends(IF out = "undone" THEN "undone" ELSE "rolled_back")
    /\ UNCHANGED <<journal, cp, mac, net, faults>>

-----------------------------------------------------------------------------
(* Reconciliation: ask the authority what became of the commit.            *)

(* Fault variant: the live authenticator is not asked. *)
ReconcileUnverified ==
    /\ pc = "reconcile" /\ relay.retired
    /\ pc' = "consume"
    /\ UNCHANGED <<out, disk, mac, net, faults>>

ReconcileRetired ==
    /\ pc = "reconcile" /\ relay.retired /\ relay.revoked
    /\ pc' = "consume"
    /\ UNCHANGED <<out, disk, mac, net, faults>>

ReconcileNotApplied ==
    /\ pc = "reconcile" /\ ~relay.retired /\ cp.ambiguity # "retired"
    /\ cp' = [cp EXCEPT !.ambiguity = "not_applied", !.state = "recovery_required",
                        !.policy = "rollback", !.gate = "none"]
    /\ pc' = "not_applied"
    /\ UNCHANGED <<out, journal, txn, mac, net, faults>>

JournalNotApplied ==
    /\ pc = "not_applied"
    /\ journal' = "retirement_not_applied"
    /\ pc' = "undo"
    /\ UNCHANGED <<out, txn, cp, mac, net, faults>>

(* Fault variant: the checkpoint lets go of the proof. *)
ReconcileFailsAnyway ==
    /\ pc = "reconcile"
    /\ Fault("lost")
    /\ pc' = "inconclusive"
    /\ cp' = [cp EXCEPT !.ambiguity = "inconclusive", !.policy = "manual",
                        !.state = "recovery_required", !.gate = "none"]
    /\ UNCHANGED <<out, journal, txn, mac, net>>

(* No answer, or an authority that still accepts the retired credential.   *)
(* A checkpoint that holds the proof refuses to become inconclusive.       *)
ReconcileFails ==
    /\ pc = "reconcile"
    /\ \/ Fault("lost")
       \/ relay.retired /\ ~relay.revoked /\ UNCHANGED faults
    /\ IF cp.ambiguity = "retired"
       THEN pc' = "report" /\ UNCHANGED cp
       ELSE /\ pc' = "inconclusive"
            /\ cp' = [cp EXCEPT !.ambiguity = "inconclusive", !.policy = "manual",
                                !.state = "recovery_required", !.gate = "none"]
    /\ UNCHANGED <<out, journal, txn, mac, net>>

JournalInconclusive ==
    /\ pc = "inconclusive"
    /\ journal' = "retirement_inconclusive"
    /\ pc' = "report"
    /\ UNCHANGED <<out, txn, cp, mac, net, faults>>

-----------------------------------------------------------------------------
(* The command records its outcome in the checkpoint.                      *)

RequireGate ==
    /\ pc = "gate"
    /\ cp' = [cp EXCEPT !.state = "blocked", !.gate = out]
    /\ pc' = "report"
    /\ UNCHANGED <<out, journal, txn, mac, net, faults>>

(* A transition the store refuses becomes a failure; a failure it refuses  *)
(* too leaves the checkpoint as it was.                                    *)
Report ==
    LET count(o)  == IF o \in {"failed", "undone"} THEN cp.done ELSE txn.done
        next      == [Transition(out) EXCEPT !.done = count(out)]
        failure   == Transition("failed")
    IN  /\ pc = "report"
        /\ cp' = IF Storable(next) THEN next
                 ELSE IF Storable(failure) THEN failure ELSE cp
        /\ pc' = "idle"
        /\ out' = "none"
        /\ UNCHANGED <<journal, txn, mac, net, faults>>

Crash ==
    /\ pc # "idle"
    /\ Fault("crash")
    /\ pc' = "idle"
    /\ out' = "none"
    /\ wire' = Abandoned
    /\ UNCHANGED <<disk, mac, relay>>

-----------------------------------------------------------------------------
(* The relay: the store commits on a worker thread, the live authenticator *)
(* revokes afterwards; a restart rebuilds the authenticator from the store.*)

RelayRetire ==
    /\ wire.commit
    /\ wire' = [wire EXCEPT !.commit = FALSE]
    /\ relay' = [relay EXCEPT !.retired = TRUE, !.answering = TRUE]
    /\ UNCHANGED <<pc, out, disk, mac, faults>>

RelayRevoke ==
    /\ relay.answering
    /\ relay' = [relay EXCEPT !.revoked = TRUE, !.answering = FALSE]
    /\ wire' = [wire EXCEPT !.proof = (pc = "await")]
    /\ UNCHANGED <<pc, out, disk, mac, faults>>

RelayRestart ==
    /\ Fault("restart")
    /\ relay' = [relay EXCEPT !.revoked = relay.retired, !.answering = FALSE]
    /\ wire' = [wire EXCEPT !.commit = @ /\ "late" \in Faults, !.proof = FALSE]
    /\ UNCHANGED <<pc, out, disk, mac>>

(* The user. *)
OpenObsidian ==
    /\ mac.runtime = "new" /\ ~mac.bridge
    /\ mac' = [mac EXCEPT !.bridge = TRUE]
    /\ UNCHANGED <<pc, out, disk, net, faults>>

CloseObsidian ==
    /\ mac.bridge
    /\ Fault("closed")
    /\ mac' = [mac EXCEPT !.bridge = FALSE]
    /\ UNCHANGED <<pc, out, disk, net>>

PairPhone ==
    /\ mac.runtime = "new" /\ ~mac.paired
    /\ mac' = [mac EXCEPT !.paired = TRUE]
    /\ UNCHANGED <<pc, out, disk, net, faults>>

-----------------------------------------------------------------------------
Command == Resume \/ Rollback

Step ==
    \/ PreflightBlocks \/ FindsReady \/ Begin \/ StageFails \/ Stage
    \/ OpenJournal \/ HandOver \/ NoDescriptor \/ MarkDispatched \/ SendCommit
    \/ Answered \/ NoAnswer \/ ConsumeProof \/ JournalCommit
    \/ Migrate \/ RecordMigration \/ RefusePrepare \/ Prepared
    \/ StartActivation \/ Provision \/ SwitchRuntime \/ Activated
    \/ ActivationFails \/ AwaitBootstrap \/ CommitMigration \/ Pair
    \/ StopForRecovery \/ Compensate \/ UndoMigration \/ CloseTransaction
    \/ ReconcileRetired \/ ReconcileNotApplied \/ JournalNotApplied
    \/ ReconcileFails \/ JournalInconclusive
    \/ RequireGate \/ Report

Relay == RelayRetire \/ RelayRevoke

User == OpenObsidian \/ PairPhone

Next ==
    \/ Command \/ Step \/ Crash
    \/ Relay \/ RelayRestart
    \/ User \/ CloseObsidian

(* A running process and a running relay go on; whoever owns the operation *)
(* keeps issuing the command the arbitrator recommends, and the user does  *)
(* what a gate asks for.                                                   *)
Fairness == WF_vars(Command) /\ WF_vars(Step) /\ WF_vars(Relay) /\ WF_vars(User)

Spec == Init /\ [][Next]_vars /\ Fairness

-----------------------------------------------------------------------------
(* Properties.                                                             *)

(* The records keep to the phases, states and policies the stores accept. *)
TypeOK ==
    /\ pc \in Steps /\ out \in Outcomes
    /\ journal \in JournalPhases
    /\ txn \in Transactions
    /\ cp \in Checkpoints
    /\ mac \in Macs
    /\ relay \in [retired : BOOLEAN, revoked : BOOLEAN, answering : BOOLEAN]
    /\ wire \in [commit : BOOLEAN, proof : BOOLEAN, sent : Nat]
    /\ faults \in 0..MaxFaults

(* The commit is sent at most once over all runs of the operation, crashes *)
(* and resumes included, and once it is sent both records say so.          *)
DispatchIsRecorded ==
    /\ wire.sent <= 1
    /\ wire.sent = 1 => /\ cp.ambiguity # "not_dispatched"
                        /\ journal \notin {"none", "pending_revocation"}

(* A checkpoint says retired only of a credential that the relay's store   *)
(* has retired and its live authenticator rejects.                         *)
CommitIsProof == cp.ambiguity = "retired" => relay.retired /\ relay.revoked

(* The only copy of the credential leaves the Vault only after the proof   *)
(* of its retirement is on disk.                                           *)
CredentialKept ==
    mac.legacy # "credential" => relay.retired /\ cp.ambiguity = "retired"

(* The irreversible boundary is never uncrossed: no crash, gate, failed    *)
(* reconciliation or compensation takes the proof out of either record.    *)
BoundaryStands ==
    [][/\ cp.ambiguity = "retired" => cp'.ambiguity = "retired"
       /\ journal \in PostRetirement => journal' \in PostRetirement]_vars

(* A rolled back operation leaves the user with what he had: a credential  *)
(* the relay accepts, in a legacy plugin that is in place and enabled.     *)
RollbackKeepsCredential ==
    "rolled_back" \in {cp.state, txn.phase} =>
        /\ ~relay.retired
        /\ mac.legacy = "credential" /\ mac.enabled /\ mac.runtime = "prior"

(* An operation that reports ready has retired the credential, moved the   *)
(* legacy plugin aside, activated and owned the release, and paired.       *)
ReadyIsComplete ==
    cp.state = "ready" => /\ cp.ambiguity = "retired" /\ LegacyClean
                          /\ mac.runtime = "new" /\ mac.receipt /\ mac.paired

(* Resuming does not go round in circles: in the end the operation is      *)
(* finished, left to manual recovery, or no longer recognised.             *)
OperationSettles ==
    <>[](pc = "idle" /\ Arbitration \in {"terminal", "manual", "invalid"})

(* Once the proof is recorded the upgrade finishes, whatever gates and     *)
(* failures are on the way, unless its records stop agreeing.              *)
RetiredFinishes ==
    cp.ambiguity = "retired" ~>
        cp.state = "ready" \/ (pc = "idle" /\ Arbitration = "invalid")

(* Guide: an interrupted operation can be resumed from its checkpoint, one *)
(* that failed before dispatch can be rolled back.  That is, when no       *)
(* command runs the arbitrator knows who owns the operation.               *)
OperationStaysOwned == pc = "idle" => Arbitration # "invalid"

(* Guide: an upgrade that waits for the phone shows the pairing gate. *)
WaitingShowsGate ==
    pc = "idle" /\ txn.phase = "await_pairing" => cp.gate = "pairing"
=============================================================================
