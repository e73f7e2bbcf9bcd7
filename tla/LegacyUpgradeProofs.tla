------------------------ MODULE LegacyUpgradeProofs ------------------------
(***************************************************************************)
(* What holds of the legacy upgrade for every set of faults, late commit   *)
(* requests included where a theorem does not rule them out, and for any   *)
(* number of them.  IInv is the inductive invariant: what each place of    *)
(* the process, each phase of the journal and each message on the wire     *)
(* says about the relay, the checkpoint and the Vault.                     *)
(***************************************************************************)
EXTENDS LegacyUpgrade, TLAPS

Retired == cp.ambiguity = "retired"

Isolated == journal \in {"prepared", "committed"}

(* What each place of the process knows of the records. *)
Places ==
    /\ pc = "gate" => out \in Gates
    /\ pc = "record" => journal \in DOMAIN NextPhase
    /\ pc \in {"descriptor", "send", "await", "consume", "commit", "reconcile"} =>
           journal = "retirement_outcome_unknown"
    /\ pc \in {"descriptor", "send"} => wire.sent = 0
    /\ pc \in {"reconcile", "inconclusive"} => out = "recovery"
    /\ pc \in {"send", "await"} => cp.ambiguity = "unknown"
    /\ pc \in {"not_applied", "inconclusive"} => ~Retired
    /\ pc \in {"commit", "activate", "switch", "switched", "verify", "pair"} => Retired

(* A proof on its way, or being consumed, speaks of what the relay did. *)
ProofsAreTrue ==
    /\ relay.answering => relay.retired
    /\ wire.proof \/ pc = "consume" => relay.retired /\ relay.revoked

(* What must not happen before the proof is in the checkpoint. *)
OnlyAfterProof ==
    journal \in PostRetirement \/ mac.runtime = "new" \/ ~mac.enabled => Retired

(* How far the Vault is, by the phase of the journal. *)
VaultFollowsJournal ==
    /\ journal \notin PostRetirement => mac.legacy = "credential"
    /\ journal = "credential_revoked" => mac.legacy # "quarantined"
    /\ journal = "isolated" \/ Isolated => mac.legacy = "quarantined"
    /\ Isolated => ~mac.enabled
    /\ pc = "record" => /\ journal = "sanitized" => mac.legacy = "quarantined"
                        /\ journal = "isolated" => ~mac.enabled

(* What activation has reached, by the place of the process. *)
ActivationInOrder ==
    /\ pc \in {"activate", "switch"} => Isolated
    /\ pc \in {"switched", "verify", "pair"} => mac.runtime = "new"
    /\ mac.runtime = "new" => Isolated
    /\ pc = "pair" => mac.receipt
    /\ out = "ready" => mac.runtime = "new" /\ mac.receipt /\ mac.paired

IInv == /\ TypeOK /\ DispatchIsRecorded /\ CommitIsProof /\ CredentialKept
        /\ ReadyIsComplete
        /\ Places /\ ProofsAreTrue /\ OnlyAfterProof /\ VaultFollowsJournal
        /\ ActivationInOrder

(* Without late requests: a commit on the wire has a sender that waits for *)
(* it, and is the only one there will be.                                  *)
CommitIsAwaited ==
    /\ wire.commit => pc = "await" /\ wire.sent = 1 /\ ~relay.retired
    /\ relay.retired => wire.sent = 1

(* Where the operation is undone, the relay never retired the credential.  *)
UndoneInTime ==
    /\ journal \in {"retirement_not_applied", "rolled_back"} => ~relay.retired
    /\ pc \in {"not_applied", "undo", "close"} => ~relay.retired
    /\ cp.ambiguity = "not_applied" => ~relay.retired
    /\ txn.phase = "rolled_back" => ~relay.retired

(* A transaction that was rolled back is never run again. *)
RolledBackIsLast ==
    /\ txn.phase = "rolled_back" => pc \in {"idle", "undo", "close", "report"}
    /\ out \in {"rolled_back", "undone"} /\ pc = "report" => txn.phase = "rolled_back"
    /\ cp.state = "rolled_back" => txn.phase = "rolled_back"

RInv == CommitIsAwaited /\ UndoneInTime /\ RolledBackIsLast

-----------------------------------------------------------------------------
(* Types.                                                                  *)

USE FaultsAssumption DEF disk, net, Fault, Ends, Persist

LEMMA TransitionIsACheckpoint ==
    ASSUME TypeOK, NEW o \in Outcomes
    PROVE  Transition(o) \in Checkpoints
<1>1. RecoveryAction \in Policies
  BY DEF RecoveryAction, Policies
<1>2. NextState(o) \in CheckpointStates
  BY DEF NextState, CheckpointStates
<1>3. NextPolicy(o) \in Policies
  BY <1>1 DEF NextPolicy, Policies
<1>4. (IF o \in Gates THEN o ELSE "none") \in Gates
  BY DEF Gates
<1>5. QED
  BY <1>2, <1>3, <1>4 DEF Transition, TypeOK, Checkpoints

LEMMA PersistedIsATransaction ==
    ASSUME txn \in Transactions, NEW phase \in TxnPhases, NEW done \in 0..7
    PROVE  [txn EXCEPT !.phase = phase, !.done = done] \in Transactions
  BY DEF Transactions

LEMMA MigratedIsAMac ==
    ASSUME mac \in Macs
    PROVE  /\ [mac EXCEPT !.legacy = "sanitized"] \in Macs
           /\ [mac EXCEPT !.legacy = "quarantined"] \in Macs
           /\ [mac EXCEPT !.enabled = FALSE] \in Macs
  BY DEF Macs

LEMMA TypeStep ==
    ASSUME TypeOK, Places, Next
    PROVE  TypeOK'
<1> USE DEF TypeOK, Places, Gates, Outcomes, Steps, JournalPhases, PostRetirement,
            TxnPhases, Waiting
<1>0. txn.done \in 0..7
  BY DEF Transactions
<1>1. CASE Resume
  <2>1. cp' \in Checkpoints
    BY <1>1 DEF Resume, RecoveryAction, Retirement, Checkpoints, Ambiguities,
           Policies, CheckpointStates
  <2>2. QED
    BY <1>1, <2>1 DEF Resume, RecoveryAction, Retirement
<1>2. CASE Rollback
  BY <1>2 DEF Rollback
<1>3. CASE PreflightBlocks
  BY <1>3 DEF PreflightBlocks
<1>4. CASE FindsReady
  BY <1>4 DEF FindsReady, AlreadyReady
<1>5. CASE Begin
  <2>1. txn' \in Transactions
    BY <1>0, PersistedIsATransaction, <1>5 DEF Begin
  <2>2. QED
    BY <1>5, <2>1 DEF Begin
<1>6. CASE StageFails
  BY <1>6 DEF StageFails
<1>7. CASE Stage
  <2>1. txn' \in Transactions
    BY <1>0, PersistedIsATransaction, <1>7 DEF Stage
  <2>2. QED
    BY <1>7, <2>1 DEF Stage
<1>8. CASE OpenJournal
  BY <1>8 DEF OpenJournal
<1>9. CASE HandOver
  BY <1>9 DEF HandOver
<1>10. CASE NoDescriptor
  BY <1>10 DEF NoDescriptor
<1>11. CASE MarkDispatched
  <2>1. cp' \in Checkpoints
    BY <1>11 DEF MarkDispatched, Checkpoints, Ambiguities, Policies,
           CheckpointStates
  <2>2. QED
    BY <1>11, <2>1 DEF MarkDispatched
<1>12. CASE SendCommit
  <2>1. wire.sent + 1 \in Nat
    OBVIOUS
  <2>2. wire' \in [commit : BOOLEAN, proof : BOOLEAN, sent : Nat]
    BY <1>12, <2>1 DEF SendCommit
  <2>3. QED
    BY <1>12, <2>2 DEF SendCommit
<1>13. CASE Answered
  <2>1. wire' \in [commit : BOOLEAN, proof : BOOLEAN, sent : Nat]
    BY <1>13 DEF Answered
  <2>2. QED
    BY <1>13, <2>1 DEF Answered
<1>14. CASE NoAnswer
  <2>1. wire' \in [commit : BOOLEAN, proof : BOOLEAN, sent : Nat]
    BY <1>14 DEF NoAnswer, Abandoned
  <2>2. QED
    BY <1>14, <2>1 DEF NoAnswer, Abandoned
<1>15. CASE ConsumeProof
  <2>1. cp' \in Checkpoints
    BY <1>15 DEF ConsumeProof, Checkpoints, Ambiguities, Policies, CheckpointStates
  <2>2. QED
    BY <1>15, <2>1 DEF ConsumeProof
<1>16. CASE JournalCommit
  BY <1>16 DEF JournalCommit
<1>17. CASE Migrate
  <2>1. \/ mac' = [mac EXCEPT !.legacy = "sanitized"]
        \/ mac' = [mac EXCEPT !.legacy = "quarantined"]
        \/ mac' = [mac EXCEPT !.enabled = FALSE]
    BY <1>17 DEF Migrate
  <2>2. mac' \in Macs
    BY <2>1, MigratedIsAMac
  <2>3. QED
    BY <1>17, <2>2 DEF Migrate
<1>18. CASE RecordMigration
  BY <1>18 DEF RecordMigration, NextPhase
<1>19. CASE RefusePrepare
  BY <1>19 DEF RefusePrepare
<1>20. CASE Prepared
  <2>1. txn' \in Transactions
    BY <1>0, PersistedIsATransaction, <1>20 DEF Prepared
  <2>2. QED
    BY <1>20, <2>1 DEF Prepared
<1>21. CASE StartActivation
  <2>1. txn' \in Transactions
    BY <1>21 DEF StartActivation, Transactions
  <2>2. QED
    BY <1>21, <2>1 DEF StartActivation
<1>22. CASE Provision
  <2>1. txn' \in Transactions
    BY <1>0, PersistedIsATransaction, <1>22 DEF Provision
  <2>2. QED
    BY <1>22, <2>1 DEF Provision
<1>23. CASE SwitchRuntime
  <2>1. mac' \in Macs
    BY <1>23 DEF SwitchRuntime, Macs
  <2>2. QED
    BY <1>23, <2>1 DEF SwitchRuntime
<1>24. CASE Activated
  <2>1. txn' \in Transactions
    BY <1>0, PersistedIsATransaction, <1>24 DEF Activated
  <2>2. QED
    BY <1>24, <2>1 DEF Activated
<1>25. CASE ActivationFails
  BY <1>25 DEF ActivationFails
<1>26. CASE AwaitBootstrap
  <2>1. txn' \in Transactions
    BY <1>0, PersistedIsATransaction, <1>26 DEF AwaitBootstrap
  <2>2. mac' \in Macs
    BY <1>26 DEF AwaitBootstrap, Macs
  <2>3. QED
    BY <1>26, <2>1, <2>2 DEF AwaitBootstrap
<1>27. CASE CommitMigration
  <2>1. mac' \in Macs
    BY <1>27 DEF CommitMigration, Macs
  <2>2. QED
    BY <1>27, <2>1 DEF CommitMigration
<1>28. CASE Pair
  <2>1. txn' \in Transactions
    BY <1>0, PersistedIsATransaction, <1>28 DEF Pair
  <2>2. QED
    BY <1>28, <2>1 DEF Pair
<1>29. CASE StopForRecovery
  <2>1. txn' \in Transactions
    BY <1>0, PersistedIsATransaction, <1>29 DEF StopForRecovery, Retirement
  <2>2. QED
    BY <1>29, <2>1 DEF StopForRecovery, Retirement
<1>30. CASE Compensate
  BY <1>30 DEF Compensate, Retirement
<1>31. CASE UndoMigration
  BY <1>31 DEF UndoMigration, Retirement
<1>32. CASE CloseTransaction
  <2>1. txn' \in Transactions
    BY <1>0, PersistedIsATransaction, <1>32 DEF CloseTransaction
  <2>2. QED
    BY <1>32, <2>1 DEF CloseTransaction
<1>33. CASE ReconcileRetired
  BY <1>33 DEF ReconcileRetired
<1>34. CASE ReconcileNotApplied
  <2>1. cp' \in Checkpoints
    BY <1>34 DEF ReconcileNotApplied, Checkpoints, Ambiguities, Policies,
           CheckpointStates
  <2>2. QED
    BY <1>34, <2>1 DEF ReconcileNotApplied
<1>35. CASE JournalNotApplied
  BY <1>35 DEF JournalNotApplied
<1>36. CASE ReconcileFails
  <2>1. CASE cp.ambiguity = "retired"
    BY <1>36, <2>1 DEF ReconcileFails
  <2>2. CASE cp.ambiguity # "retired"
    <3>1. cp' = [cp EXCEPT !.ambiguity = "inconclusive", !.policy = "manual",
                           !.state = "recovery_required", !.gate = "none"]
      BY <1>36, <2>2 DEF ReconcileFails
    <3>2. cp' \in Checkpoints
      BY <3>1 DEF Checkpoints, Ambiguities, Policies, CheckpointStates
    <3>3. QED
      BY <1>36, <2>2, <3>2 DEF ReconcileFails
  <2>3. QED
    BY <2>1, <2>2
<1>37. CASE JournalInconclusive
  BY <1>37 DEF JournalInconclusive
<1>38. CASE RequireGate
  <2>1. cp' \in Checkpoints
    BY <1>38 DEF RequireGate, Checkpoints, Ambiguities, Policies, CheckpointStates
  <2>2. QED
    BY <1>38, <2>1 DEF RequireGate
<1>39. CASE Report
  <2>1. Transition(out) \in Checkpoints /\ Transition("failed") \in Checkpoints
    BY TransitionIsACheckpoint
  <2>2. cp.done \in 0..7
    BY DEF Checkpoints
  <2>3. cp' \in Checkpoints
    BY <1>0, <1>39, <2>1, <2>2 DEF Report, Checkpoints
  <2>4. QED
    BY <1>39, <2>3 DEF Report
<1>40. CASE Crash
  <2>1. wire' \in [commit : BOOLEAN, proof : BOOLEAN, sent : Nat]
    BY <1>40 DEF Crash, Abandoned
  <2>2. QED
    BY <1>40, <2>1 DEF Crash, Abandoned
<1>41. CASE RelayRetire
  <2>1. relay' \in [retired : BOOLEAN, revoked : BOOLEAN, answering : BOOLEAN]
    BY <1>41 DEF RelayRetire
  <2>2. wire' \in [commit : BOOLEAN, proof : BOOLEAN, sent : Nat]
    BY <1>41 DEF RelayRetire
  <2>3. QED
    BY <1>41, <2>1, <2>2 DEF RelayRetire
<1>42. CASE RelayRevoke
  <2>1. relay' \in [retired : BOOLEAN, revoked : BOOLEAN, answering : BOOLEAN]
    BY <1>42 DEF RelayRevoke
  <2>2. wire' \in [commit : BOOLEAN, proof : BOOLEAN, sent : Nat]
    BY <1>42 DEF RelayRevoke
  <2>3. QED
    BY <1>42, <2>1, <2>2 DEF RelayRevoke
<1>43. CASE RelayRestart
  <2>1. relay' \in [retired : BOOLEAN, revoked : BOOLEAN, answering : BOOLEAN]
    BY <1>43 DEF RelayRestart
  <2>2. wire' \in [commit : BOOLEAN, proof : BOOLEAN, sent : Nat]
    BY <1>43 DEF RelayRestart
  <2>3. QED
    BY <1>43, <2>1, <2>2 DEF RelayRestart
<1>44. CASE OpenObsidian
  <2>1. mac' \in Macs
    BY <1>44 DEF OpenObsidian, Macs
  <2>2. QED
    BY <1>44, <2>1 DEF OpenObsidian
<1>45. CASE CloseObsidian
  <2>1. mac' \in Macs
    BY <1>45 DEF CloseObsidian, Macs
  <2>2. QED
    BY <1>45, <2>1 DEF CloseObsidian
<1>46. CASE PairPhone
  <2>1. mac' \in Macs
    BY <1>46 DEF PairPhone, Macs
  <2>2. QED
    BY <1>46, <2>1 DEF PairPhone
<1>47. QED
  BY <1>1, <1>2, <1>3, <1>4, <1>5, <1>6, <1>7, <1>8, <1>9, <1>10, <1>11, 
     <1>12, <1>13, <1>14, <1>15, <1>16, <1>17, <1>18, <1>19, <1>20, <1>21, 
     <1>22, <1>23, <1>24, <1>25, <1>26, <1>27, <1>28, <1>29, <1>30, <1>31, 
     <1>32, <1>33, <1>34, <1>35, <1>36, <1>37, <1>38, <1>39, <1>40, <1>41, 
     <1>42, <1>43, <1>44, <1>45, <1>46 DEF Next, Command, Step, Relay, User

-----------------------------------------------------------------------------
(* The invariant.                                                          *)

LEMMA KnowledgeStep ==
    ASSUME IInv, Next
    PROVE  /\ DispatchIsRecorded' /\ CommitIsProof' /\ CredentialKept'
           /\ Places' /\ ProofsAreTrue' /\ OnlyAfterProof'
<1> USE DEF IInv, TypeOK, Checkpoints, Macs, DispatchIsRecorded, CommitIsProof,
            CredentialKept, Places, ProofsAreTrue, OnlyAfterProof, Retired, Gates,
            PostRetirement, NextPhase, VaultFollowsJournal, Isolated,
            ActivationInOrder
<1>1. CASE Resume
  BY <1>1 DEF Resume, RecoveryAction, Retirement
<1>2. CASE Rollback
  BY <1>2 DEF Rollback
<1>3. CASE PreflightBlocks
  BY <1>3 DEF PreflightBlocks
<1>4. CASE FindsReady
  BY <1>4 DEF FindsReady, AlreadyReady
<1>5. CASE Begin
  BY <1>5 DEF Begin
<1>6. CASE StageFails
  BY <1>6 DEF StageFails
<1>7. CASE Stage
  BY <1>7 DEF Stage
<1>8. CASE OpenJournal
  BY <1>8 DEF OpenJournal
<1>9. CASE HandOver
  BY <1>9 DEF HandOver
<1>10. CASE NoDescriptor
  BY <1>10 DEF NoDescriptor
<1>11. CASE MarkDispatched
  BY <1>11 DEF MarkDispatched
<1>12. CASE SendCommit
  BY <1>12 DEF SendCommit
<1>13. CASE Answered
  BY <1>13 DEF Answered
<1>14. CASE NoAnswer
  BY <1>14 DEF NoAnswer, Abandoned
<1>15. CASE ConsumeProof
  BY <1>15 DEF ConsumeProof
<1>16. CASE JournalCommit
  <2>1. Retired /\ wire.sent <= 1 /\ journal' = "credential_revoked"
    BY <1>16 DEF JournalCommit
  <2>2. pc' \in {"report", "prepare"}
    BY <1>16 DEF JournalCommit
  <2>3. UNCHANGED <<cp, mac, relay, wire>>
    BY <1>16 DEF JournalCommit
  <2>4. QED
    BY <2>1, <2>2, <2>3
<1>17. CASE Migrate
  BY <1>17 DEF Migrate
<1>18. CASE RecordMigration
  BY <1>18 DEF RecordMigration, NextPhase
<1>19. CASE RefusePrepare
  BY <1>19 DEF RefusePrepare
<1>20. CASE Prepared
  BY <1>20 DEF Prepared
<1>21. CASE StartActivation
  BY <1>21 DEF StartActivation
<1>22. CASE Provision
  BY <1>22 DEF Provision
<1>23. CASE SwitchRuntime
  BY <1>23 DEF SwitchRuntime
<1>24. CASE Activated
  BY <1>24 DEF Activated
<1>25. CASE ActivationFails
  BY <1>25 DEF ActivationFails
<1>26. CASE AwaitBootstrap
  BY <1>26 DEF AwaitBootstrap
<1>27. CASE CommitMigration
  BY <1>27 DEF CommitMigration
<1>28. CASE Pair
  BY <1>28 DEF Pair
<1>29. CASE StopForRecovery
  BY <1>29 DEF StopForRecovery, Retirement
<1>30. CASE Compensate
  BY <1>30 DEF Compensate, Retirement
<1>31. CASE UndoMigration
  BY <1>31 DEF UndoMigration, Retirement
<1>32. CASE CloseTransaction
  BY <1>32 DEF CloseTransaction
<1>33. CASE ReconcileRetired
  BY <1>33 DEF ReconcileRetired
<1>34. CASE ReconcileNotApplied
  BY <1>34 DEF ReconcileNotApplied
<1>35. CASE JournalNotApplied
  BY <1>35 DEF JournalNotApplied
<1>36. CASE ReconcileFails
  BY <1>36 DEF ReconcileFails
<1>37. CASE JournalInconclusive
  BY <1>37 DEF JournalInconclusive
<1>38. CASE RequireGate
  BY <1>38 DEF RequireGate
<1>39. CASE Report
  BY <1>39 DEF Report, Transition
<1>40. CASE Crash
  BY <1>40 DEF Crash, Abandoned
<1>41. CASE RelayRetire
  BY <1>41 DEF RelayRetire
<1>42. CASE RelayRevoke
  BY <1>42 DEF RelayRevoke
<1>43. CASE RelayRestart
  BY <1>43 DEF RelayRestart
<1>44. CASE OpenObsidian
  BY <1>44 DEF OpenObsidian
<1>45. CASE CloseObsidian
  BY <1>45 DEF CloseObsidian
<1>46. CASE PairPhone
  BY <1>46 DEF PairPhone
<1>47. QED
  BY <1>1, <1>2, <1>3, <1>4, <1>5, <1>6, <1>7, <1>8, <1>9, <1>10, <1>11, 
     <1>12, <1>13, <1>14, <1>15, <1>16, <1>17, <1>18, <1>19, <1>20, <1>21, 
     <1>22, <1>23, <1>24, <1>25, <1>26, <1>27, <1>28, <1>29, <1>30, <1>31, 
     <1>32, <1>33, <1>34, <1>35, <1>36, <1>37, <1>38, <1>39, <1>40, <1>41, 
     <1>42, <1>43, <1>44, <1>45, <1>46 DEF Next, Command, Step, Relay, User

LEMMA VaultStep ==
    ASSUME IInv, Next
    PROVE  VaultFollowsJournal' /\ ActivationInOrder' /\ ReadyIsComplete'
<1> USE DEF IInv, TypeOK, Checkpoints, Macs, Places, OnlyAfterProof, Retired, Gates,
            PostRetirement, NextPhase, VaultFollowsJournal, Isolated,
            ActivationInOrder,
            ReadyIsComplete, LegacyClean
<1>1. CASE Resume
  BY <1>1 DEF Resume, RecoveryAction, Retirement
<1>2. CASE Rollback
  BY <1>2 DEF Rollback
<1>3. CASE PreflightBlocks
  BY <1>3 DEF PreflightBlocks
<1>4. CASE FindsReady
  BY <1>4 DEF FindsReady, AlreadyReady
<1>5. CASE Begin
  BY <1>5 DEF Begin
<1>6. CASE StageFails
  BY <1>6 DEF StageFails
<1>7. CASE Stage
  BY <1>7 DEF Stage
<1>8. CASE OpenJournal
  BY <1>8 DEF OpenJournal
<1>9. CASE HandOver
  BY <1>9 DEF HandOver
<1>10. CASE NoDescriptor
  BY <1>10 DEF NoDescriptor
<1>11. CASE MarkDispatched
  BY <1>11 DEF MarkDispatched
<1>12. CASE SendCommit
  BY <1>12 DEF SendCommit
<1>13. CASE Answered
  BY <1>13 DEF Answered
<1>14. CASE NoAnswer
  BY <1>14 DEF NoAnswer, Abandoned
<1>15. CASE ConsumeProof
  BY <1>15 DEF ConsumeProof
<1>16. CASE JournalCommit
  BY <1>16 DEF JournalCommit
<1>17. CASE Migrate
  BY <1>17 DEF Migrate
<1>18. CASE RecordMigration
  BY <1>18 DEF RecordMigration, NextPhase
<1>19. CASE RefusePrepare
  BY <1>19 DEF RefusePrepare
<1>20. CASE Prepared
  BY <1>20 DEF Prepared
<1>21. CASE StartActivation
  BY <1>21 DEF StartActivation
<1>22. CASE Provision
  BY <1>22 DEF Provision
<1>23. CASE SwitchRuntime
  BY <1>23 DEF SwitchRuntime
<1>24. CASE Activated
  BY <1>24 DEF Activated
<1>25. CASE ActivationFails
  BY <1>25 DEF ActivationFails
<1>26. CASE AwaitBootstrap
  BY <1>26 DEF AwaitBootstrap
<1>27. CASE CommitMigration
  BY <1>27 DEF CommitMigration
<1>28. CASE Pair
  BY <1>28 DEF Pair
<1>29. CASE StopForRecovery
  BY <1>29 DEF StopForRecovery, Retirement
<1>30. CASE Compensate
  BY <1>30 DEF Compensate, Retirement
<1>31. CASE UndoMigration
  BY <1>31 DEF UndoMigration, Retirement
<1>32. CASE CloseTransaction
  BY <1>32 DEF CloseTransaction
<1>33. CASE ReconcileRetired
  BY <1>33 DEF ReconcileRetired
<1>34. CASE ReconcileNotApplied
  BY <1>34 DEF ReconcileNotApplied
<1>35. CASE JournalNotApplied
  BY <1>35 DEF JournalNotApplied
<1>36. CASE ReconcileFails
  BY <1>36 DEF ReconcileFails
<1>37. CASE JournalInconclusive
  BY <1>37 DEF JournalInconclusive
<1>38. CASE RequireGate
  BY <1>38 DEF RequireGate
<1>39. CASE Report
  BY <1>39 DEF Report, Transition, NextState
<1>40. CASE Crash
  BY <1>40 DEF Crash, Abandoned
<1>41. CASE RelayRetire
  BY <1>41 DEF RelayRetire
<1>42. CASE RelayRevoke
  BY <1>42 DEF RelayRevoke
<1>43. CASE RelayRestart
  BY <1>43 DEF RelayRestart
<1>44. CASE OpenObsidian
  BY <1>44 DEF OpenObsidian
<1>45. CASE CloseObsidian
  BY <1>45 DEF CloseObsidian
<1>46. CASE PairPhone
  BY <1>46 DEF PairPhone
<1>47. QED
  BY <1>1, <1>2, <1>3, <1>4, <1>5, <1>6, <1>7, <1>8, <1>9, <1>10, <1>11, 
     <1>12, <1>13, <1>14, <1>15, <1>16, <1>17, <1>18, <1>19, <1>20, <1>21, 
     <1>22, <1>23, <1>24, <1>25, <1>26, <1>27, <1>28, <1>29, <1>30, <1>31, 
     <1>32, <1>33, <1>34, <1>35, <1>36, <1>37, <1>38, <1>39, <1>40, <1>41, 
     <1>42, <1>43, <1>44, <1>45, <1>46 DEF Next, Command, Step, Relay, User

LEMMA InvariantStep ==
    ASSUME IInv, [Next]_vars
    PROVE  IInv'
<1>1. CASE Next
  BY <1>1, TypeStep, KnowledgeStep, VaultStep DEF IInv
<1>2. CASE UNCHANGED vars
  BY <1>2 DEF IInv, TypeOK, DispatchIsRecorded, CommitIsProof, CredentialKept,
              ReadyIsComplete, Places, ProofsAreTrue, OnlyAfterProof,
              VaultFollowsJournal, ActivationInOrder, Retired, Isolated,
              LegacyClean, vars
<1>3. QED
  BY <1>1, <1>2

LEMMA InvariantInit == Init => IInv
  BY DEF Init, IInv, TypeOK, DispatchIsRecorded, CommitIsProof, CredentialKept,
         ReadyIsComplete, Places, ProofsAreTrue, OnlyAfterProof,
         VaultFollowsJournal, ActivationInOrder, Retired, Isolated, LegacyClean,
         Steps, Outcomes, JournalPhases, PostRetirement, Transactions, TxnPhases,
         Checkpoints, CheckpointStates, Ambiguities, Policies, Gates, Macs

LEMMA Invariance == Spec => []IInv
<1>1. IInv /\ [Next]_vars => IInv'
  BY InvariantStep
<1>2. QED
  BY <1>1, InvariantInit, PTL DEF Spec

-----------------------------------------------------------------------------
(* Without late requests an undone operation leaves the credential valid.  *)

(* Once the transaction was rolled back, no resume is let through. *)
LEMMA NoResumeAfterRollback ==
    ASSUME TypeOK, txn.phase = "rolled_back", cp.state # "rolled_back"
    PROVE  Arbitration \notin {"retry", "finish", "reconcile"}
<1>1. Projected = [cp EXCEPT !.state = "recovery_required", !.policy = "rollback",
                             !.gate = "none"]
  BY DEF Projected, Recovering
<1>2. Projected.policy = "rollback"
  BY <1>1 DEF TypeOK, Checkpoints
<1>3. QED
  BY <1>2 DEF Arbitration

(* The arbitrator offers a rollback only where nothing was retired. *)
LEMMA RollbackIsInTime ==
    ASSUME IInv, CommitIsAwaited, UndoneInTime, Arbitration = "rollback"
    PROVE  ~relay.retired
<1>1. Projected.policy = "rollback" /\ "rollback" \in AllowedPolicies[cp.ambiguity]
  BY DEF Arbitration
<1>2. cp.ambiguity \in {"not_dispatched", "not_applied"}
  BY <1>1 DEF AllowedPolicies, IInv, TypeOK, Checkpoints, Ambiguities
<1>3. QED
  BY <1>2 DEF CommitIsAwaited, UndoneInTime, IInv, DispatchIsRecorded

LEMMA UndoStep ==
    ASSUME IInv, RInv, Next, "late" \notin Faults
    PROVE  CommitIsAwaited' /\ UndoneInTime'
<1> USE DEF IInv, TypeOK, Checkpoints, Transactions, DispatchIsRecorded, Places,
            ProofsAreTrue, CommitIsProof, OnlyAfterProof, Retired,
            PostRetirement, NextPhase, Gates,
            RInv, CommitIsAwaited, UndoneInTime, RolledBackIsLast
<1>1. CASE Resume
  BY <1>1 DEF Resume, RecoveryAction, Retirement
<1>2. CASE Rollback
  BY <1>2, RollbackIsInTime DEF Rollback
<1>3. CASE PreflightBlocks
  BY <1>3 DEF PreflightBlocks
<1>4. CASE FindsReady
  BY <1>4 DEF FindsReady, AlreadyReady
<1>5. CASE Begin
  BY <1>5 DEF Begin
<1>6. CASE StageFails
  BY <1>6 DEF StageFails
<1>7. CASE Stage
  BY <1>7 DEF Stage
<1>8. CASE OpenJournal
  BY <1>8 DEF OpenJournal
<1>9. CASE HandOver
  BY <1>9 DEF HandOver
<1>10. CASE NoDescriptor
  BY <1>10 DEF NoDescriptor
<1>11. CASE MarkDispatched
  BY <1>11 DEF MarkDispatched
<1>12. CASE SendCommit
  BY <1>12 DEF SendCommit
<1>13. CASE Answered
  BY <1>13 DEF Answered
<1>14. CASE NoAnswer
  BY <1>14 DEF NoAnswer, Abandoned
<1>15. CASE ConsumeProof
  BY <1>15 DEF ConsumeProof
<1>16. CASE JournalCommit
  BY <1>16 DEF JournalCommit
<1>17. CASE Migrate
  BY <1>17 DEF Migrate
<1>18. CASE RecordMigration
  BY <1>18 DEF RecordMigration, NextPhase
<1>19. CASE RefusePrepare
  BY <1>19 DEF RefusePrepare
<1>20. CASE Prepared
  BY <1>20 DEF Prepared
<1>21. CASE StartActivation
  BY <1>21 DEF StartActivation
<1>22. CASE Provision
  BY <1>22 DEF Provision
<1>23. CASE SwitchRuntime
  BY <1>23 DEF SwitchRuntime
<1>24. CASE Activated
  BY <1>24 DEF Activated
<1>25. CASE ActivationFails
  BY <1>25 DEF ActivationFails
<1>26. CASE AwaitBootstrap
  BY <1>26 DEF AwaitBootstrap
<1>27. CASE CommitMigration
  BY <1>27 DEF CommitMigration
<1>28. CASE Pair
  BY <1>28 DEF Pair
<1>29. CASE StopForRecovery
  BY <1>29 DEF StopForRecovery, Retirement
<1>30. CASE Compensate
  BY <1>30 DEF Compensate, Retirement, JournalPhases
<1>31. CASE UndoMigration
  BY <1>31 DEF UndoMigration, Retirement
<1>32. CASE CloseTransaction
  BY <1>32 DEF CloseTransaction
<1>33. CASE ReconcileRetired
  BY <1>33 DEF ReconcileRetired
<1>34. CASE ReconcileNotApplied
  BY <1>34 DEF ReconcileNotApplied
<1>35. CASE JournalNotApplied
  BY <1>35 DEF JournalNotApplied
<1>36. CASE ReconcileFails
  BY <1>36 DEF ReconcileFails
<1>37. CASE JournalInconclusive
  BY <1>37 DEF JournalInconclusive
<1>38. CASE RequireGate
  BY <1>38 DEF RequireGate
<1>39. CASE Report
  BY <1>39 DEF Report, Transition
<1>40. CASE Crash
  BY <1>40 DEF Crash, Abandoned
<1>41. CASE RelayRetire
  BY <1>41 DEF RelayRetire
<1>42. CASE RelayRevoke
  BY <1>42 DEF RelayRevoke
<1>43. CASE RelayRestart
  BY <1>43 DEF RelayRestart
<1>44. CASE OpenObsidian
  BY <1>44 DEF OpenObsidian
<1>45. CASE CloseObsidian
  BY <1>45 DEF CloseObsidian
<1>46. CASE PairPhone
  BY <1>46 DEF PairPhone
<1>47. QED
  BY <1>1, <1>2, <1>3, <1>4, <1>5, <1>6, <1>7, <1>8, <1>9, <1>10, <1>11, 
     <1>12, <1>13, <1>14, <1>15, <1>16, <1>17, <1>18, <1>19, <1>20, <1>21, 
     <1>22, <1>23, <1>24, <1>25, <1>26, <1>27, <1>28, <1>29, <1>30, <1>31, 
     <1>32, <1>33, <1>34, <1>35, <1>36, <1>37, <1>38, <1>39, <1>40, <1>41, 
     <1>42, <1>43, <1>44, <1>45, <1>46 DEF Next, Command, Step, Relay, User

LEMMA LastStep ==
    ASSUME IInv, RInv, Next
    PROVE  RolledBackIsLast'
<1> USE DEF IInv, TypeOK, Checkpoints, Transactions, Places, Gates, Waiting, RInv,
            RolledBackIsLast
<1>1. CASE Resume
  <2>1. txn.phase # "rolled_back"
    BY <1>1, NoResumeAfterRollback DEF Resume
  <2>2. QED
    BY <1>1, <2>1 DEF Resume
<1>2. CASE Rollback
  BY <1>2 DEF Rollback
<1>3. CASE PreflightBlocks
  BY <1>3 DEF PreflightBlocks
<1>4. CASE FindsReady
  BY <1>4 DEF FindsReady, AlreadyReady
<1>5. CASE Begin
  BY <1>5 DEF Begin
<1>6. CASE StageFails
  BY <1>6 DEF StageFails
<1>7. CASE Stage
  BY <1>7 DEF Stage
<1>8. CASE OpenJournal
  BY <1>8 DEF OpenJournal
<1>9. CASE HandOver
  BY <1>9 DEF HandOver
<1>10. CASE NoDescriptor
  BY <1>10 DEF NoDescriptor
<1>11. CASE MarkDispatched
  BY <1>11 DEF MarkDispatched
<1>12. CASE SendCommit
  BY <1>12 DEF SendCommit
<1>13. CASE Answered
  BY <1>13 DEF Answered
<1>14. CASE NoAnswer
  BY <1>14 DEF NoAnswer, Abandoned
<1>15. CASE ConsumeProof
  BY <1>15 DEF ConsumeProof
<1>16. CASE JournalCommit
  BY <1>16 DEF JournalCommit
<1>17. CASE Migrate
  BY <1>17 DEF Migrate
<1>18. CASE RecordMigration
  BY <1>18 DEF RecordMigration, NextPhase
<1>19. CASE RefusePrepare
  BY <1>19 DEF RefusePrepare
<1>20. CASE Prepared
  BY <1>20 DEF Prepared
<1>21. CASE StartActivation
  BY <1>21 DEF StartActivation
<1>22. CASE Provision
  BY <1>22 DEF Provision
<1>23. CASE SwitchRuntime
  BY <1>23 DEF SwitchRuntime
<1>24. CASE Activated
  BY <1>24 DEF Activated
<1>25. CASE ActivationFails
  BY <1>25 DEF ActivationFails
<1>26. CASE AwaitBootstrap
  BY <1>26 DEF AwaitBootstrap
<1>27. CASE CommitMigration
  BY <1>27 DEF CommitMigration
<1>28. CASE Pair
  BY <1>28 DEF Pair
<1>29. CASE StopForRecovery
  BY <1>29 DEF StopForRecovery, Retirement
<1>30. CASE Compensate
  BY <1>30 DEF Compensate, Retirement
<1>31. CASE UndoMigration
  BY <1>31 DEF UndoMigration, Retirement
<1>32. CASE CloseTransaction
  BY <1>32 DEF CloseTransaction
<1>33. CASE ReconcileRetired
  BY <1>33 DEF ReconcileRetired
<1>34. CASE ReconcileNotApplied
  BY <1>34 DEF ReconcileNotApplied
<1>35. CASE JournalNotApplied
  BY <1>35 DEF JournalNotApplied
<1>36. CASE ReconcileFails
  BY <1>36 DEF ReconcileFails
<1>37. CASE JournalInconclusive
  BY <1>37 DEF JournalInconclusive
<1>38. CASE RequireGate
  BY <1>38 DEF RequireGate
<1>39. CASE Report
  BY <1>39 DEF Report, Transition, NextState
<1>40. CASE Crash
  BY <1>40 DEF Crash, Abandoned
<1>41. CASE RelayRetire
  BY <1>41 DEF RelayRetire
<1>42. CASE RelayRevoke
  BY <1>42 DEF RelayRevoke
<1>43. CASE RelayRestart
  BY <1>43 DEF RelayRestart
<1>44. CASE OpenObsidian
  BY <1>44 DEF OpenObsidian
<1>45. CASE CloseObsidian
  BY <1>45 DEF CloseObsidian
<1>46. CASE PairPhone
  BY <1>46 DEF PairPhone
<1>47. QED
  BY <1>1, <1>2, <1>3, <1>4, <1>5, <1>6, <1>7, <1>8, <1>9, <1>10, <1>11, 
     <1>12, <1>13, <1>14, <1>15, <1>16, <1>17, <1>18, <1>19, <1>20, <1>21, 
     <1>22, <1>23, <1>24, <1>25, <1>26, <1>27, <1>28, <1>29, <1>30, <1>31, 
     <1>32, <1>33, <1>34, <1>35, <1>36, <1>37, <1>38, <1>39, <1>40, <1>41, 
     <1>42, <1>43, <1>44, <1>45, <1>46 DEF Next, Command, Step, Relay, User

LEMMA BothStep ==
    ASSUME IInv, RInv, [Next]_vars, "late" \notin Faults
    PROVE  RInv'
<1>1. CASE Next
  BY <1>1, UndoStep, LastStep DEF RInv
<1>2. CASE UNCHANGED vars
  BY <1>2 DEF RInv, CommitIsAwaited, UndoneInTime, RolledBackIsLast, vars
<1>3. QED
  BY <1>1, <1>2

LEMMA UndoInit == Init => RInv
  BY DEF Init, RInv, CommitIsAwaited, UndoneInTime, RolledBackIsLast

-----------------------------------------------------------------------------
(* The boundary.                                                           *)

LEMMA BoundaryStep ==
    ASSUME IInv, Next
    PROVE  /\ Retired => Retired'
           /\ journal \in PostRetirement => journal' \in PostRetirement
<1> USE DEF IInv, TypeOK, Checkpoints, Places, OnlyAfterProof, Retired,
            PostRetirement, NextPhase
<1>1. CASE Resume
  BY <1>1 DEF Resume, RecoveryAction, Retirement
<1>2. CASE Rollback
  BY <1>2 DEF Rollback
<1>3. CASE PreflightBlocks
  BY <1>3 DEF PreflightBlocks
<1>4. CASE FindsReady
  BY <1>4 DEF FindsReady, AlreadyReady
<1>5. CASE Begin
  BY <1>5 DEF Begin
<1>6. CASE StageFails
  BY <1>6 DEF StageFails
<1>7. CASE Stage
  BY <1>7 DEF Stage
<1>8. CASE OpenJournal
  BY <1>8 DEF OpenJournal
<1>9. CASE HandOver
  BY <1>9 DEF HandOver
<1>10. CASE NoDescriptor
  BY <1>10 DEF NoDescriptor
<1>11. CASE MarkDispatched
  BY <1>11 DEF MarkDispatched
<1>12. CASE SendCommit
  BY <1>12 DEF SendCommit
<1>13. CASE Answered
  BY <1>13 DEF Answered
<1>14. CASE NoAnswer
  BY <1>14 DEF NoAnswer, Abandoned
<1>15. CASE ConsumeProof
  BY <1>15 DEF ConsumeProof
<1>16. CASE JournalCommit
  BY <1>16 DEF JournalCommit
<1>17. CASE Migrate
  BY <1>17 DEF Migrate
<1>18. CASE RecordMigration
  BY <1>18 DEF RecordMigration, NextPhase
<1>19. CASE RefusePrepare
  BY <1>19 DEF RefusePrepare
<1>20. CASE Prepared
  BY <1>20 DEF Prepared
<1>21. CASE StartActivation
  BY <1>21 DEF StartActivation
<1>22. CASE Provision
  BY <1>22 DEF Provision
<1>23. CASE SwitchRuntime
  BY <1>23 DEF SwitchRuntime
<1>24. CASE Activated
  BY <1>24 DEF Activated
<1>25. CASE ActivationFails
  BY <1>25 DEF ActivationFails
<1>26. CASE AwaitBootstrap
  BY <1>26 DEF AwaitBootstrap
<1>27. CASE CommitMigration
  BY <1>27 DEF CommitMigration
<1>28. CASE Pair
  BY <1>28 DEF Pair
<1>29. CASE StopForRecovery
  BY <1>29 DEF StopForRecovery, Retirement
<1>30. CASE Compensate
  BY <1>30 DEF Compensate, Retirement
<1>31. CASE UndoMigration
  BY <1>31 DEF UndoMigration, Retirement
<1>32. CASE CloseTransaction
  BY <1>32 DEF CloseTransaction
<1>33. CASE ReconcileRetired
  BY <1>33 DEF ReconcileRetired
<1>34. CASE ReconcileNotApplied
  BY <1>34 DEF ReconcileNotApplied
<1>35. CASE JournalNotApplied
  BY <1>35 DEF JournalNotApplied
<1>36. CASE ReconcileFails
  BY <1>36 DEF ReconcileFails
<1>37. CASE JournalInconclusive
  BY <1>37 DEF JournalInconclusive
<1>38. CASE RequireGate
  BY <1>38 DEF RequireGate
<1>39. CASE Report
  BY <1>39 DEF Report, Transition
<1>40. CASE Crash
  BY <1>40 DEF Crash, Abandoned
<1>41. CASE RelayRetire
  BY <1>41 DEF RelayRetire
<1>42. CASE RelayRevoke
  BY <1>42 DEF RelayRevoke
<1>43. CASE RelayRestart
  BY <1>43 DEF RelayRestart
<1>44. CASE OpenObsidian
  BY <1>44 DEF OpenObsidian
<1>45. CASE CloseObsidian
  BY <1>45 DEF CloseObsidian
<1>46. CASE PairPhone
  BY <1>46 DEF PairPhone
<1>47. QED
  BY <1>1, <1>2, <1>3, <1>4, <1>5, <1>6, <1>7, <1>8, <1>9, <1>10, <1>11, 
     <1>12, <1>13, <1>14, <1>15, <1>16, <1>17, <1>18, <1>19, <1>20, <1>21, 
     <1>22, <1>23, <1>24, <1>25, <1>26, <1>27, <1>28, <1>29, <1>30, <1>31, 
     <1>32, <1>33, <1>34, <1>35, <1>36, <1>37, <1>38, <1>39, <1>40, <1>41, 
     <1>42, <1>43, <1>44, <1>45, <1>46 DEF Next, Command, Step, Relay, User

-----------------------------------------------------------------------------
(* The theorems.                                                           *)

(* The journal, the transaction and the checkpoint keep to the values that *)
(* their stores accept.                                                    *)
THEOREM TypeCorrect == Spec => []TypeOK
<1>1. IInv => TypeOK
  BY DEF IInv
<1>2. QED
  BY <1>1, Invariance, PTL

(* However often the operation is interrupted and resumed, the authority   *)
(* is sent at most one commit, and both records know of it.                *)
THEOREM DispatchedOnce == Spec => []DispatchIsRecorded
<1>1. IInv => DispatchIsRecorded
  BY DEF IInv
<1>2. QED
  BY <1>1, Invariance, PTL

(* The proof in the checkpoint is true of the relay's store and of its     *)
(* live authenticator, across restarts of either side.                     *)
THEOREM ProofIsTrue == Spec => []CommitIsProof
<1>1. IInv => CommitIsProof
  BY DEF IInv
<1>2. QED
  BY <1>1, Invariance, PTL

(* The Vault keeps the credential until its retirement is proved.          *)
THEOREM CredentialIsKept == Spec => []CredentialKept
<1>1. IInv => CredentialKept
  BY DEF IInv
<1>2. QED
  BY <1>1, Invariance, PTL

(* A ready report is a finished upgrade. *)
THEOREM ReadyIsFinished == Spec => []ReadyIsComplete
<1>1. IInv => ReadyIsComplete
  BY DEF IInv
<1>2. QED
  BY <1>1, Invariance, PTL

(* No step takes the proof out of the checkpoint or the journal. *)
THEOREM BoundaryIsFinal == Spec => BoundaryStands
<1> DEFINE Stands == /\ cp.ambiguity = "retired" => cp'.ambiguity = "retired"
                     /\ journal \in PostRetirement => journal' \in PostRetirement
<1>1. IInv /\ [Next]_vars => [Stands]_vars
  BY BoundaryStep DEF Retired, vars
<1>2. QED
  BY <1>1, Invariance, PTL DEF Spec, BoundaryStands

(* If a lost commit request never arrives afterwards, a rollback leaves    *)
(* the credential valid and the legacy plugin untouched.  The run          *)
(* legacy_upgrade makes the same assumption; with late requests TLC finds  *)
(* a rolled back operation whose credential the relay retires later.       *)
THEOREM RollbackIsHarmless ==
    ASSUME "late" \notin Faults
    PROVE  Spec => []RollbackKeepsCredential
<1>1. IInv /\ RInv /\ [Next]_vars => (IInv /\ RInv)'
  BY InvariantStep, BothStep
<1>2. IInv /\ RInv => RollbackKeepsCredential
  <2> SUFFICES ASSUME IInv, RInv, "rolled_back" \in {cp.state, txn.phase}
               PROVE  /\ ~relay.retired
                      /\ mac.legacy = "credential" /\ mac.enabled /\ mac.runtime = "prior"
    BY DEF RollbackKeepsCredential
  <2>1. ~relay.retired
    BY DEF RInv, RolledBackIsLast, UndoneInTime
  <2>2. ~Retired
    BY <2>1 DEF IInv, CommitIsProof, Retired
  <2>3. mac \in Macs
    BY DEF IInv, TypeOK
  <2>4. mac.legacy = "credential" /\ mac.enabled /\ mac.runtime = "prior"
    BY <2>2, <2>3 DEF IInv, CredentialKept, OnlyAfterProof, Retired, Macs
  <2>5. QED
    BY <2>1, <2>4
<1>3. QED
  BY <1>1, <1>2, InvariantInit, UndoInit, PTL DEF Spec
=============================================================================
