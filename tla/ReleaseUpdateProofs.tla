------------------------ MODULE ReleaseUpdateProofs ------------------------
(***************************************************************************)
(* What holds of an update for every set of phones, every plan and any     *)
(* number of crashes, failures and revocations.                            *)
(*                                                                         *)
(* The safety invariants of ReleaseUpdate speak of the files; that they    *)
(* hold depends on which command is running and how far it is.  UpdateInv  *)
(* is the inductive invariant: what the journal still knows of the host    *)
(* after any crash (Ledger), and what a command at each of its program     *)
(* counters may rely on (Whereabouts).                                     *)
(***************************************************************************)
EXTENDS ReleaseUpdate, TLAPS

Staging == {"stage", "staged", "begin"}
Activating == {"save", "provision", "backup", "remove", "copy", "record"}
Pointing == {"point", "start", "activated"}
Identifying == {"preserve", "rotate", "revoked", "check", "paired"}
Undoing == {"stop", "restore", "identity", "close"}
Counters == {"idle", "preflight", "verify", "bridge", "compensate", "report"}
              \union Staging \union Activating \union Pointing \union Identifying \union Undoing
Outcomes == {"none", "ready", "rolled_back", "bootstrap", "pairing", "host", "recovery", "failed"}
Activated == {"after_activation", "await_plugin_bootstrap", "await_pairing"}

ProcOK ==
  /\ proc \in [pc : Counters, mode : {"none", "install", "rollback"}, started : BOOLEAN,
               plugin : BOOLEAN, committed : BOOLEAN, outcome : Outcomes \union Phones]
  /\ proc.pc = "report" => proc.outcome \in Outcomes
  /\ proc.pc = "revoked" => proc.outcome \in identity.original

Typed == TypeOK /\ ProcOK

\* The old release as the rollback must leave it.
Restored ==
  /\ host.current = "old" /\ host.agents = "old" /\ host.plugin = "old"
  /\ plan.community => host.config = "old" /\ host.receipt = "old"

\* What the journal and the backup say of the host, whoever is running.
Ledger ==
  /\ journal.phase \notin {"none", "staging", "before_activation", "rolled_back"} => journal.started
  /\ ~journal.started =>
       /\ host.current = "old" /\ host.agents = "old" /\ host.plugin = "old"
       /\ host.config = "old" /\ host.receipt = "old" /\ backup.plugin = "none"
  /\ journal.plugin \/ proc.plugin => ~plan.community /\ backup.plugin = "old"
  /\ host.current = "new" => plan.community \/ backup.plugin = "old"
  /\ backup.plugin = "none" => host.plugin = "old"
  /\ plan.community => backup.plugin = "none"
  /\ journal.phase \in Activated /\ host.agents = "new" => plan.community \/ host.plugin = "new"

\* What the running command may rely on.
Whereabouts ==
  /\ proc.pc \notin {"idle", "preflight", "report"} => proc.started = journal.started
  /\ proc.pc \notin {"idle", "report"} => proc.mode # "none"
  /\ proc.pc = "preflight" => journal.phase \notin {"recovery_required", "rolled_back"}
  /\ proc.pc \in Activating => journal.phase = "activation_started"
  /\ proc.pc \in Pointing => journal.phase = "plugin_activated"
  /\ proc.pc \in {"verify", "bridge"} \union Identifying => journal.phase \in Activated
  /\ proc.pc \in {"compensate", "stop", "restore"} => journal.started
  /\ proc.pc = "identity" /\ proc.mode = "install" => journal.started
  /\ journal.phase = "ready" => proc.pc \in {"idle", "preflight", "stage", "report"}
  /\ proc.pc \in {"backup", "remove", "copy"} => ~plan.community
  /\ proc.pc \in {"remove", "copy"} => backup.plugin = "old"
  /\ proc.pc \in {"record"} \union Pointing =>
       plan.community \/ (backup.plugin = "old" /\ host.plugin = "new")
  /\ proc.pc \in {"start", "activated", "verify", "bridge"} \union Identifying
      => host.current = "new"
  /\ proc.pc = "activated" => host.agents = "new"
  /\ proc.pc \in {"bridge"} \union Identifying => Serves /\ host.receipt = "new"
  /\ proc.pc \in Identifying => host.acked
  /\ proc.pc \in {"rotate", "revoked"} => identity.phase = "captured"
  /\ proc.pc = "preserve" => plan.policy = "preserve"
  /\ proc.pc = "paired" => identity.phase = "ready"

\* Undoing.
Undone ==
  /\ proc.pc \in {"restore", "identity", "close"} => host.plugin = "old"
  /\ proc.pc = "close" \/ (proc.pc = "identity" /\ proc.mode = "rollback") => Restored
  /\ proc.pc = "report" /\ proc.outcome = "rolled_back" =>
       Restored /\ ~RotationCommitted /\ journal.phase \in {"none", "rolled_back"}
  /\ checkpoint.state = "rolled_back" =>
       proc.pc = "idle" /\ Restored /\ ~RotationCommitted
           /\ journal.phase \in {"none", "rolled_back"}

\* Rotation.
Rotation ==
  /\ RotationCommitted =>
       host.current = "new" /\ journal.started /\ journal.phase # "rolled_back"
  /\ RotationCommitted /\ proc.pc \in Staging \union Activating \union Pointing
      \union {"verify", "compensate"}
       => proc.committed
  /\ proc.pc \in Undoing => ~RotationCommitted
  /\ plan.policy = "rotate" /\ identity.phase = "ready" =>
       \A d \in identity.original : <<d, "before">> \notin creds
  /\ identity.phase = "none" => identity.revoked = {}

UpdateInv == Typed /\ Ledger /\ Whereabouts /\ Undone /\ Rotation /\ ReadyIsWhole

-----------------------------------------------------------------------------
(* What the commands mean.                                                 *)

\* What the arbitrator lets through.
LEMMA ArbitrationMeans ==
  ASSUME Arbitration \in {"resume", "rollback"}
  PROVE  /\ CompanionsAgree
         /\ Projected.state \notin {"ready", "rolled_back"}
         /\ Projected.action = Arbitration
  BY DEF Arbitration

\* No command is let through for an update its checkpoint calls rolled back,
\* unless the journal has got further.
LEMMA NoCommandAfterRollback ==
  ASSUME Typed, Arbitration \in {"resume", "rollback"},
         journal.phase \in {"none", "rolled_back"}
  PROVE  checkpoint.state # "rolled_back"
<1> SUFFICES ASSUME checkpoint.state = "rolled_back" PROVE FALSE
  OBVIOUS
<1>1. CompanionsAgree /\ Projected.state # "rolled_back"
  BY ArbitrationMeans
<1>2. journal.phase # "none"
  BY <1>1 DEF CompanionsAgree, JournalReadable
<1>3. Projected.state = checkpoint.state
  BY <1>2 DEF Projected
<1> QED BY <1>1, <1>3

\* A resume is allowed of no update that was rolled back or awaits recovery.
LEMMA ResumeMeans ==
  ASSUME Typed, Arbitration = "resume"
  PROVE  journal.phase \notin {"recovery_required", "rolled_back"}
<1>1. Projected.state \notin {"ready", "rolled_back"} /\ Projected.action = "resume"
  BY ArbitrationMeans
<1>2. ASSUME journal.phase = "recovery_required" \/
             (journal.phase = "rolled_back" /\ checkpoint.state # "rolled_back")
      PROVE FALSE
  BY <1>1, <1>2 DEF Projected
<1>3. ASSUME journal.phase = "rolled_back", checkpoint.state = "rolled_back"
      PROVE FALSE
  BY <1>1, <1>3 DEF Projected
<1> QED BY <1>2, <1>3

\* A rollback is allowed of no update that is ready or whose rotation is committed.
LEMMA RollbackMeans ==
  ASSUME Typed, Arbitration = "rollback"
  PROVE  journal.phase # "ready" /\ ~RotationCommitted
<1>1. /\ CompanionsAgree
      /\ Projected.state \notin {"ready", "rolled_back"} /\ Projected.action = "rollback"
  BY ArbitrationMeans
<1>2. ~RotationCommitted
  BY <1>1 DEF CompanionsAgree, RotationCommitted
<1>3. ASSUME journal.phase = "ready", checkpoint.state # "ready" PROVE FALSE
  BY <1>1, <1>3 DEF Projected
<1>4. ASSUME journal.phase = "ready", checkpoint.state = "ready" PROVE FALSE
  BY <1>1, <1>4 DEF Projected
<1> QED BY <1>2, <1>3, <1>4

\* What activation never touched was never backed up.
LEMMA MutatedWasStarted ==
  ASSUME Typed, Ledger, RuntimeMutated
  PROVE  journal.started
  BY DEF Typed, TypeOK, Ledger, RuntimeMutated

\* What Restore leaves.
LEMMA RestoreDoes ==
  ASSUME Typed, Restore, ~(plan.community /\ ~backup.state)
  PROVE  /\ proc.pc = "restore" /\ Goes(IF proc.mode = "install" THEN "close" ELSE "identity")
         /\ host' \in [current : {"old"}, plugin : {host.plugin}, agents : {"old"},
                       config : {"old", host.config}, acked : BOOLEAN,
                       receipt : {"old", host.receipt}]
         /\ plan.community => host'.config = "old" /\ host'.receipt = "old"
         /\ UNCHANGED <<plan, creds, backup, journal, identity, checkpoint, budget>>
<1> DEFINE acked == plan.community \/ host.acked
<1>1. /\ proc.pc = "restore" /\ Goes(IF proc.mode = "install" THEN "close" ELSE "identity")
      /\ UNCHANGED <<plan, creds, backup, journal, identity, checkpoint, budget>>
  BY DEF Restore, MayRestore
<1>2. host' = [current |-> "old", plugin |-> host.plugin, agents |-> "old",
               config |-> IF plan.community THEN "old" ELSE host.config,
               acked |-> acked,
               receipt |-> IF plan.community THEN "old" ELSE host.receipt]
  <2>1. host' = [RestoredFiles EXCEPT !.current = "old", !.agents = "old"]
    BY DEF Restore, MayRestore
  <2>2. RestoredFiles = [current |-> host.current, plugin |-> host.plugin, agents |-> host.agents,
                         config |-> IF plan.community THEN "old" ELSE host.config,
                         acked |-> acked,
                         receipt |-> IF plan.community THEN "old" ELSE host.receipt]
    <3>1. CASE plan.community
      BY <3>1 DEF RestoredFiles, Typed, TypeOK
    <3>2. CASE ~plan.community
      BY <3>2 DEF RestoredFiles, Typed, TypeOK
    <3> QED BY <3>1, <3>2
  <2> QED BY <2>1, <2>2
<1>3. acked \in BOOLEAN
  OBVIOUS
<1> HIDE DEF acked
<1>4. CASE plan.community
  BY <1>1, <1>2, <1>3, <1>4
<1>5. CASE ~plan.community
  BY <1>1, <1>2, <1>3, <1>5
<1> QED BY <1>4, <1>5

\* And where a restoration, or the end of it, does not happen.
LEMMA RestoreStops ==
  ASSUME Restore, plan.community, ~backup.state
  PROVE  /\ proc.pc = "restore"
         /\ UNCHANGED <<plan, creds, host, backup, identity, checkpoint, budget>>
         /\ Ends("recovery")
         /\ \/ proc.mode = "install" /\ journal' = Persisted("recovery_required")
            \/ proc.mode # "install" /\ UNCHANGED journal
<1>1. CASE proc.mode = "install"
  <2>1. NeedsRecovery
    BY <1>1 DEF Restore, MayRestore, UndoStops
  <2> QED BY <1>1, <2>1 DEF Restore, MayRestore, NeedsRecovery
<1>2. CASE proc.mode # "install"
  BY <1>2 DEF Restore, MayRestore, UndoStops
<1> QED BY <1>1, <1>2

\* What is left where a kill or a failure cuts a restoration short: part of
\* the files and of the pointer is the old release's again, the rest as it was.
LEMMA CutShort ==
  ASSUME Typed, NEW h \in HalfRestored
  PROVE  /\ h \in [current : {host.current, "old"}, plugin : {host.plugin},
                   agents : {host.agents}, config : {host.config, "old"},
                   acked : BOOLEAN, receipt : {host.receipt, "old"}]
         /\ proc.pc # "restore" => h = host
<1>1. host = [current |-> host.current, plugin |-> host.plugin, agents |-> host.agents,
              config |-> host.config, acked |-> host.acked, receipt |-> host.receipt]
      /\ host.acked \in BOOLEAN
  BY DEF Typed, TypeOK
<1>2. RestoredFiles = host \/
      RestoredFiles = [current |-> host.current, plugin |-> host.plugin, agents |-> host.agents,
                       config |-> "old", acked |-> TRUE, receipt |-> "old"]
  BY <1>1 DEF RestoredFiles
<1>3. /\ h = host \/ h = RestoredFiles \/ h = [RestoredFiles EXCEPT !.current = "old"]
      /\ proc.pc # "restore" => h = host
  BY DEF HalfRestored
<1>4. CASE RestoredFiles = host
  <2>1. h = host \/ h = [current |-> "old", plugin |-> host.plugin, agents |-> host.agents,
                         config |-> host.config, acked |-> host.acked, receipt |-> host.receipt]
    BY <1>1, <1>3, <1>4
  <2> QED BY <1>1, <1>3, <2>1
<1>5. CASE RestoredFiles = [current |-> host.current, plugin |-> host.plugin,
                            agents |-> host.agents, config |-> "old", acked |-> TRUE,
                            receipt |-> "old"]
  <2>1. h = host \/ \E c \in {host.current, "old"} :
          h = [current |-> c, plugin |-> host.plugin, agents |-> host.agents,
               config |-> "old", acked |-> TRUE, receipt |-> "old"]
    BY <1>3, <1>5
  <2>2. CASE h = host
    BY <1>1, <2>2
  <2>3. CASE h # host
    <3>1. PICK c \in {host.current, "old"} :
            h = [current |-> c, plugin |-> host.plugin, agents |-> host.agents,
                 config |-> "old", acked |-> TRUE, receipt |-> "old"]
      BY <2>1, <2>3
    <3>2. proc.pc = "restore"
      BY <1>3, <2>3
    <3> QED BY <3>1, <3>2
  <2> QED BY <2>2, <2>3
<1> QED BY <1>2, <1>4, <1>5

LEMMA UndoFailsDoes ==
  ASSUME Typed, UndoFails
  PROVE  /\ proc.pc \in {"stop", "restore"}
         /\ host' \in [current : {host.current, "old"}, plugin : {host.plugin},
                       agents : {"none"}, config : {host.config, "old"},
                       acked : BOOLEAN, receipt : {host.receipt, "old"}]
         /\ proc.pc # "restore" => host' = [host EXCEPT !.agents = "none"]
         /\ UNCHANGED <<plan, creds, backup, identity, checkpoint>>
         /\ \/ /\ proc.mode = "install" /\ Ends("recovery")
               /\ journal' = Persisted("recovery_required")
            \/ proc.mode # "install" /\ proc' = Idle /\ UNCHANGED journal
<1>1. PICK h \in HalfRestored : host' = [h EXCEPT !.agents = "none"]
  BY DEF UndoFails
<1>2. /\ h \in [current : {host.current, "old"}, plugin : {host.plugin},
                agents : {host.agents}, config : {host.config, "old"},
                acked : BOOLEAN, receipt : {host.receipt, "old"}]
      /\ proc.pc # "restore" => h = host
  BY CutShort
<1>3. /\ proc.pc \in {"stop", "restore"}
      /\ UNCHANGED <<plan, creds, backup, identity, checkpoint>>
  BY DEF UndoFails
<1>4. \/ /\ proc.mode = "install" /\ Ends("recovery")
         /\ journal' = Persisted("recovery_required")
      \/ proc.mode # "install" /\ proc' = Idle /\ UNCHANGED journal
  BY DEF UndoFails, NeedsRecovery
<1> QED BY <1>1, <1>2, <1>3, <1>4

LEMMA CrashDoes ==
  ASSUME Typed, Crash
  PROVE  /\ proc.pc # "idle" /\ proc' = Idle
         /\ host' \in [current : {host.current, "old"}, plugin : {host.plugin},
                       agents : {host.agents}, config : {host.config, "old"},
                       acked : BOOLEAN, receipt : {host.receipt, "old"}]
         /\ proc.pc # "restore" => host' = host
         /\ UNCHANGED <<plan, creds, backup, journal, identity, checkpoint>>
         /\ budget' = budget - 1 /\ budget > 0
<1>1. /\ host' \in HalfRestored /\ proc.pc # "idle" /\ proc' = Idle
      /\ UNCHANGED <<plan, creds, backup, journal, identity, checkpoint>>
      /\ budget' = budget - 1 /\ budget > 0
  BY DEF Crash, Faulty, disk
<1> QED BY <1>1, CutShort

-----------------------------------------------------------------------------
(* One step.                                                               *)

\* The running command.
LEMMA ProcStep ==
  ASSUME Typed, Next
  PROVE  ProcOK'
<1> USE DEF Typed, TypeOK, ProcOK, disk, vars, Idle, Outcomes, Phones, Counters, Staging,
           Activating, Pointing, Identifying, Undoing
<1>1. CASE Resume
  BY <1>1 DEF Resume, Goes
<1>2. CASE Rollback
  <2>1. proc' = [pc |-> IF RuntimeMutated THEN "stop" ELSE "identity", mode |-> "rollback",
                 started |-> journal.started, plugin |-> journal.plugin,
                 committed |-> FALSE, outcome |-> "none"]
    BY <1>2 DEF Rollback
  <2>2. CASE RuntimeMutated
    BY <2>1, <2>2
  <2>3. CASE ~RuntimeMutated
    BY <2>1, <2>3
  <2> QED BY <2>2, <2>3
<1>3. CASE Cancel
  BY <1>3 DEF Cancel
<1>4. CASE FindsItReady
  BY <1>4 DEF FindsItReady, Ends
<1>5. CASE Capture
  <2> DEFINE plugin == ~plan.community /\ (journal.plugin \/ ResumesActivated)
             committed == RotationCommitted
  <2>1. proc' = [pc |-> IF ResumesActivated THEN "verify" ELSE "stage", mode |-> proc.mode,
                 started |-> journal.started, plugin |-> plugin, committed |-> committed,
                 outcome |-> proc.outcome]
    BY <1>5 DEF Capture
  <2>2. plugin \in BOOLEAN /\ committed \in BOOLEAN
    BY DEF RotationCommitted
  <2> HIDE DEF plugin, committed
  <2>3. CASE ResumesActivated
    BY <2>1, <2>2, <2>3
  <2>4. CASE ~ResumesActivated
    BY <2>1, <2>2, <2>4
  <2> QED BY <2>3, <2>4
<1>6. CASE Stage
  BY <1>6 DEF Stage, Goes, Persisted
<1>7. CASE RecordStaging
  BY <1>7 DEF RecordStaging, Goes, Persisted
<1>8. CASE BeginActivation
  BY <1>8 DEF BeginActivation, Persisted
<1>9. CASE SaveState
  BY <1>9 DEF SaveState, Goes
<1>10. CASE Provision
  BY <1>10 DEF Provision, Goes
<1>11. CASE BackUpPlugin
  BY <1>11 DEF BackUpPlugin, Goes
<1>12. CASE RemovePlugin
  BY <1>12 DEF RemovePlugin, Goes
<1>13. CASE CopyPlugin
  BY <1>13 DEF CopyPlugin, Goes
<1>14. CASE RecordPlugin
  BY <1>14 DEF RecordPlugin, Persisted
<1>15. CASE Point
  BY <1>15 DEF Point, Goes
<1>16. CASE StartAgents
  BY <1>16 DEF StartAgents, Goes
<1>17. CASE RecordActivation
  BY <1>17 DEF RecordActivation, Persisted, Goes
<1>18. CASE Verify
  BY <1>18 DEF Verify, Goes, Serves
<1>19. CASE AwaitBootstrap
  BY <1>19 DEF AwaitBootstrap, Persisted, Ends
<1>20. CASE BridgeReady
  BY <1>20 DEF BridgeReady, Goes
<1>21. CASE KeepIdentity
  BY <1>21 DEF KeepIdentity, Goes
<1>22. CASE AwaitPairing
  BY <1>22 DEF AwaitPairing, Persisted, Ends
<1>23. CASE RecordRevocation
  BY <1>23 DEF RecordRevocation
<1>24. CASE CommitRotation
  BY <1>24 DEF CommitRotation, Goes
<1>25. CASE KnowsRotation
  BY <1>25 DEF KnowsRotation, Goes
<1>26. CASE RotationUnverified
  BY <1>26 DEF RotationUnverified, NeedsRecovery, Persisted, Ends
<1>27. CASE IdentityWasClosed
  BY <1>27 DEF IdentityWasClosed, NeedsRecovery, Persisted, Ends
<1>28. CASE Finish
  BY <1>28 DEF Finish, Persisted, Ends
<1>29. CASE Compensate
  <2>1. CASE proc.committed
    <3>1. proc.pc = "compensate" /\ NeedsRecovery
        /\ UNCHANGED <<plan, creds, host, backup, identity, checkpoint, budget>>
      BY <1>29, <2>1 DEF Compensate, UndoStops
    <3> QED BY <2>1, <3>1 DEF NeedsRecovery, Ends, Persisted
  <2>2. CASE ~proc.committed
    BY <1>29, <2>2 DEF Compensate, NeedsRecovery, Persisted, Ends, Goes
  <2> QED BY <2>1, <2>2
<1>30. CASE StopServices
  BY <1>30 DEF StopServices, Goes
<1>31. CASE CloseIdentity
  <2>1. CASE ~RotationCommitted
    BY <1>31, <2>1 DEF CloseIdentity, UndoStops, NeedsRecovery, Persisted, Ends, Goes
  <2>2. CASE RotationCommitted /\ proc.mode = "install"
    <3>1. proc.pc = "identity" /\ NeedsRecovery
        /\ UNCHANGED <<plan, creds, host, backup, identity, checkpoint, budget>>
      BY <1>31, <2>2 DEF CloseIdentity, UndoStops
    <3> QED BY <2>2, <3>1 DEF NeedsRecovery, Ends, Persisted
  <2>3. CASE RotationCommitted /\ ~(proc.mode = "install")
    <3>1. proc.pc = "identity" /\ Ends("recovery") /\ UNCHANGED <<plan, creds, host, disk, budget>>
      BY <1>31, <2>3 DEF CloseIdentity, UndoStops
    <3> QED BY <2>3, <3>1 DEF NeedsRecovery, Ends, Persisted
  <2> QED BY <2>1, <2>2, <2>3
<1>32. CASE Restore
  <2>1. CASE ~(plan.community /\ ~backup.state)
    BY <1>32, <2>1, RestoreDoes DEF Goes
  <2>2. CASE plan.community /\ ~backup.state
    <3>1. /\ proc.pc = "restore" /\ Ends("recovery")
          /\ UNCHANGED <<plan, creds, host, backup, identity, checkpoint, budget>>
          /\ journal' = Persisted("recovery_required") \/ UNCHANGED journal
      BY <1>32, <2>2, RestoreStops
    <3> QED BY <3>1 DEF Ends, Persisted
  <2> QED BY <2>1, <2>2
<1>33. CASE Close
  BY <1>33 DEF Close, Ends
<1>34. CASE Report
  BY <1>34 DEF Report, Reported
<1>35. CASE VerifyFails
  BY <1>35 DEF VerifyFails, Faulty, Goes, Serves
<1>36. CASE PreflightStops
  BY <1>36 DEF PreflightStops, Faulty, Ends
<1>37. CASE StageFails
  BY <1>37 DEF StageFails, Faulty, Persisted, Ends
<1>38. CASE ActivationFails
  BY <1>38 DEF ActivationFails, Faulty, Goes
<1>39. CASE IdentityFails
  BY <1>39 DEF IdentityFails, Faulty, NeedsRecovery, Persisted, Ends
<1>40. CASE UndoFails
  <2>0. /\ proc.pc \in {"stop", "restore"}
        /\ host' \in [current : {host.current, "old"}, plugin : {host.plugin}, agents : {"none"},
                       config : {host.config, "old"}, acked : BOOLEAN,
                       receipt : {host.receipt, "old"}]
        /\ UNCHANGED <<plan, creds, backup, identity, checkpoint>>
    BY <1>40, UndoFailsDoes
  <2>1. CASE proc.mode = "install"
    <3>1. Ends("recovery") /\ journal' = Persisted("recovery_required")
      BY <1>40, <2>1, UndoFailsDoes
    <3> QED BY <2>0, <2>1, <3>1 DEF Ends, Persisted
  <2>2. CASE proc.mode # "install"
    <3>1. proc' = Idle /\ UNCHANGED journal
      BY <1>40, <2>2, UndoFailsDoes
    <3> QED BY <2>0, <2>2, <3>1
  <2> QED BY <2>1, <2>2
<1>41. CASE Crash
  <2>1. /\ proc' = Idle /\ UNCHANGED <<plan, creds, backup, journal, identity, checkpoint>>
        /\ budget' = budget - 1 /\ budget > 0
    BY <1>41, CrashDoes
  <2>2. CASE proc.pc = "restore"
    <3>1. host' \in [current : {host.current, "old"}, plugin : {host.plugin}, agents : {host.agents},
                       config : {host.config, "old"}, acked : BOOLEAN,
                       receipt : {host.receipt, "old"}]
      BY <1>41, CrashDoes
    <3> QED BY <2>1, <2>2, <3>1
  <2>3. CASE proc.pc # "restore"
    <3>1. host' = host
      BY <1>41, <2>3, CrashDoes
    <3> QED BY <2>1, <2>3, <3>1
  <2> QED BY <2>2, <2>3
<1>42. CASE Authenticate
  BY <1>42 DEF Authenticate
<1>43. ASSUME NEW d \in Phones, Revoke(d) PROVE ProcOK'
  BY <1>43 DEF Revoke
<1>44. ASSUME NEW d \in Phones, Pair(d) PROVE ProcOK'
  BY <1>44 DEF Pair
<1>45. ASSUME NEW d \in Phones, Unpair(d) PROVE ProcOK'
  BY <1>45 DEF Unpair, Faulty
<1> QED BY <1>1, <1>2, <1>3, <1>4, <1>5, <1>6, <1>7, <1>8, <1>9, <1>10, <1>11, <1>12, <1>13, <1>14,
    <1>15, <1>16, <1>17, <1>18, <1>19, <1>20, <1>21, <1>22, <1>23, <1>24, <1>25, <1>26, <1>27,
    <1>28, <1>29, <1>30, <1>31, <1>32, <1>33, <1>34, <1>35, <1>36, <1>37, <1>38, <1>39, <1>40,
    <1>41, <1>42, <1>43, <1>44, <1>45 DEF Next, Step, Fails

\* What the journal knows of the host.
LEMMA LedgerStep ==
  ASSUME UpdateInv, Next
  PROVE  Ledger'
<1> USE DEF UpdateInv, Typed, TypeOK, ProcOK, Ledger, Whereabouts, Activated, disk, vars, Idle,
           Release, Counters, Staging, Activating, Pointing, Identifying, Undoing
<1>1. CASE Resume
  BY <1>1 DEF Resume, Goes
<1>2. CASE Rollback
  BY <1>2 DEF Rollback
<1>3. CASE Cancel
  BY <1>3 DEF Cancel
<1>4. CASE FindsItReady
  BY <1>4 DEF FindsItReady, Ends
<1>5. CASE Capture
  BY <1>5 DEF Capture, ResumesActivated
<1>6. CASE Stage
  BY <1>6 DEF Stage, Goes, Persisted
<1>7. CASE RecordStaging
  BY <1>7 DEF RecordStaging, Goes, Persisted
<1>8. CASE BeginActivation
  BY <1>8 DEF BeginActivation, Persisted
<1>9. CASE SaveState
  BY <1>9 DEF SaveState, Goes
<1>10. CASE Provision
  BY <1>10 DEF Provision, Goes
<1>11. CASE BackUpPlugin
  BY <1>11 DEF BackUpPlugin, Goes
<1>12. CASE RemovePlugin
  BY <1>12 DEF RemovePlugin, Goes
<1>13. CASE CopyPlugin
  BY <1>13 DEF CopyPlugin, Goes
<1>14. CASE RecordPlugin
  BY <1>14 DEF RecordPlugin, Persisted
<1>15. CASE Point
  BY <1>15 DEF Point, Goes
<1>16. CASE StartAgents
  BY <1>16 DEF StartAgents, Goes
<1>17. CASE RecordActivation
  BY <1>17 DEF RecordActivation, Persisted, Goes
<1>18. CASE Verify
  BY <1>18 DEF Verify, Goes, Serves
<1>19. CASE AwaitBootstrap
  BY <1>19 DEF AwaitBootstrap, Persisted, Ends
<1>20. CASE BridgeReady
  BY <1>20 DEF BridgeReady, Goes
<1>21. CASE KeepIdentity
  BY <1>21 DEF KeepIdentity, Goes
<1>22. CASE AwaitPairing
  BY <1>22 DEF AwaitPairing, Persisted, Ends
<1>23. CASE RecordRevocation
  BY <1>23 DEF RecordRevocation
<1>24. CASE CommitRotation
  BY <1>24 DEF CommitRotation, Goes
<1>25. CASE KnowsRotation
  BY <1>25 DEF KnowsRotation, Goes
<1>26. CASE RotationUnverified
  BY <1>26 DEF RotationUnverified, NeedsRecovery, Persisted, Ends
<1>27. CASE IdentityWasClosed
  BY <1>27 DEF IdentityWasClosed, NeedsRecovery, Persisted, Ends
<1>28. CASE Finish
  BY <1>28 DEF Finish, Persisted, Ends
<1>29. CASE Compensate
  <2>1. CASE proc.committed
    <3>1. proc.pc = "compensate" /\ NeedsRecovery
        /\ UNCHANGED <<plan, creds, host, backup, identity, checkpoint, budget>>
      BY <1>29, <2>1 DEF Compensate, UndoStops
    <3> QED BY <2>1, <3>1 DEF NeedsRecovery, Ends, Persisted
  <2>2. CASE ~proc.committed
    BY <1>29, <2>2 DEF Compensate, NeedsRecovery, Persisted, Ends, Goes
  <2> QED BY <2>1, <2>2
<1>30. CASE StopServices
  BY <1>30 DEF StopServices, Goes
<1>31. CASE CloseIdentity
  <2>1. ~RotationCommitted /\ proc.pc = "identity"
    BY <1>31 DEF CloseIdentity, Rotation
  <2> QED BY <1>31, <2>1 DEF CloseIdentity, Goes
<1>32. CASE Restore
  <2>1. CASE ~(plan.community /\ ~backup.state)
    BY <1>32, <2>1, RestoreDoes DEF Goes
  <2>2. CASE plan.community /\ ~backup.state
    <3>1. /\ proc.pc = "restore" /\ Ends("recovery")
          /\ UNCHANGED <<plan, creds, host, backup, identity, checkpoint, budget>>
          /\ journal' = Persisted("recovery_required") \/ UNCHANGED journal
      BY <1>32, <2>2, RestoreStops
    <3> QED BY <3>1 DEF Ends, Persisted
  <2> QED BY <2>1, <2>2
<1>33. CASE Close
  BY <1>33 DEF Close, Ends
<1>34. CASE Report
  BY <1>34 DEF Report, Reported
<1>35. CASE VerifyFails
  BY <1>35 DEF VerifyFails, Faulty, Goes, Serves
<1>36. CASE PreflightStops
  BY <1>36 DEF PreflightStops, Faulty, Ends
<1>37. CASE StageFails
  BY <1>37 DEF StageFails, Faulty, Persisted, Ends
<1>38. CASE ActivationFails
  BY <1>38 DEF ActivationFails, Faulty, Goes
<1>39. CASE IdentityFails
  BY <1>39 DEF IdentityFails, Faulty, NeedsRecovery, Persisted, Ends
<1>40. CASE UndoFails
  <2>0. /\ proc.pc \in {"stop", "restore"}
        /\ host' \in [current : {host.current, "old"}, plugin : {host.plugin}, agents : {"none"},
                       config : {host.config, "old"}, acked : BOOLEAN,
                       receipt : {host.receipt, "old"}]
        /\ UNCHANGED <<plan, creds, backup, identity, checkpoint>>
    BY <1>40, UndoFailsDoes
  <2>1. CASE proc.mode = "install"
    <3>1. Ends("recovery") /\ journal' = Persisted("recovery_required")
      BY <1>40, <2>1, UndoFailsDoes
    <3> QED BY <2>0, <2>1, <3>1 DEF Ends, Persisted
  <2>2. CASE proc.mode # "install"
    <3>1. proc' = Idle /\ UNCHANGED journal
      BY <1>40, <2>2, UndoFailsDoes
    <3> QED BY <2>0, <2>2, <3>1
  <2> QED BY <2>1, <2>2
<1>41. CASE Crash
  <2>1. /\ proc' = Idle /\ UNCHANGED <<plan, creds, backup, journal, identity, checkpoint>>
        /\ budget' = budget - 1 /\ budget > 0
    BY <1>41, CrashDoes
  <2>2. CASE proc.pc = "restore"
    <3>1. host' \in [current : {host.current, "old"}, plugin : {host.plugin}, agents : {host.agents},
                       config : {host.config, "old"}, acked : BOOLEAN,
                       receipt : {host.receipt, "old"}]
      BY <1>41, CrashDoes
    <3> QED BY <2>1, <2>2, <3>1
  <2>3. CASE proc.pc # "restore"
    <3>1. host' = host
      BY <1>41, <2>3, CrashDoes
    <3> QED BY <2>1, <2>3, <3>1
  <2> QED BY <2>2, <2>3
<1>42. CASE Authenticate
  BY <1>42 DEF Authenticate
<1>43. ASSUME NEW d \in Phones, Revoke(d) PROVE Ledger'
  BY <1>43 DEF Revoke
<1>44. ASSUME NEW d \in Phones, Pair(d) PROVE Ledger'
  BY <1>44 DEF Pair
<1>45. ASSUME NEW d \in Phones, Unpair(d) PROVE Ledger'
  BY <1>45 DEF Unpair, Faulty
<1> QED BY <1>1, <1>2, <1>3, <1>4, <1>5, <1>6, <1>7, <1>8, <1>9, <1>10, <1>11, <1>12, <1>13, <1>14,
    <1>15, <1>16, <1>17, <1>18, <1>19, <1>20, <1>21, <1>22, <1>23, <1>24, <1>25, <1>26, <1>27,
    <1>28, <1>29, <1>30, <1>31, <1>32, <1>33, <1>34, <1>35, <1>36, <1>37, <1>38, <1>39, <1>40,
    <1>41, <1>42, <1>43, <1>44, <1>45 DEF Next, Step, Fails

\* The files.
LEMMA TypeStep ==
  ASSUME UpdateInv, Next
  PROVE  TypeOK'
<1> USE UpdateAssumption DEF UpdateInv, Typed, TypeOK, ProcOK, disk, vars, Idle, Release, Phones,
           Active
<1>1. CASE Resume
  BY <1>1 DEF Resume, Goes
<1>2. CASE Rollback
  BY <1>2 DEF Rollback
<1>3. CASE Cancel
  BY <1>3 DEF Cancel
<1>4. CASE FindsItReady
  BY <1>4 DEF FindsItReady, Ends
<1>5. CASE Capture
  BY <1>5 DEF Capture, ResumesActivated
<1>6. CASE Stage
  BY <1>6 DEF Stage, Goes, Persisted
<1>7. CASE RecordStaging
  BY <1>7 DEF RecordStaging, Goes, Persisted
<1>8. CASE BeginActivation
  <2>1. journal' = [phase |-> "activation_started", started |-> TRUE, plugin |-> proc.plugin]
    BY <1>8 DEF BeginActivation, Persisted
  <2>2. journal' \in [phase : {"activation_started"}, started : BOOLEAN, plugin : BOOLEAN]
    BY <2>1
  <2>3. UNCHANGED <<plan, creds, host, backup, identity, checkpoint, budget>>
    BY <1>8 DEF BeginActivation
  <2> QED BY <2>2, <2>3
<1>9. CASE SaveState
  BY <1>9 DEF SaveState, Goes
<1>10. CASE Provision
  <2>1. host' = [current |-> host.current, plugin |-> host.plugin, agents |-> host.agents,
                    config |-> "new", acked |-> FALSE, receipt |-> host.receipt]
    BY <1>10 DEF Provision
  <2>2. host' \in [current : {"old", "new"}, plugin : Release, agents : Release,
               config : {"old", "new"}, acked : BOOLEAN, receipt : {"old", "new"}]
    BY <2>1
  <2>3. UNCHANGED <<plan, creds, backup, journal, identity, checkpoint, budget>>
    BY <1>10 DEF Provision
  <2> QED BY <2>2, <2>3
<1>11. CASE BackUpPlugin
  <2>1. backup' \in [plugin : {"none", "old"}, state : BOOLEAN]
    <3>1. CASE backup.plugin = "none"
      BY <1>11, <3>1 DEF BackUpPlugin, Ledger
    <3>2. CASE backup.plugin # "none"
      BY <1>11, <3>2 DEF BackUpPlugin
    <3> QED BY <3>1, <3>2
  <2> QED BY <1>11, <2>1 DEF BackUpPlugin
<1>12. CASE RemovePlugin
  BY <1>12 DEF RemovePlugin, Goes
<1>13. CASE CopyPlugin
  BY <1>13 DEF CopyPlugin, Goes
<1>14. CASE RecordPlugin
  <2> DEFINE plugin == ~plan.community
  <2>1. journal' = [phase |-> "plugin_activated", started |-> proc.started, plugin |-> plugin]
    BY <1>14 DEF RecordPlugin, Persisted
  <2>2. plugin \in BOOLEAN
    OBVIOUS
  <2> HIDE DEF plugin
  <2>3. journal' \in [phase : {"plugin_activated"}, started : BOOLEAN, plugin : BOOLEAN]
    BY <2>1, <2>2
  <2> QED BY <1>14, <2>3 DEF RecordPlugin
<1>15. CASE Point
  BY <1>15 DEF Point, Goes
<1>16. CASE StartAgents
  BY <1>16 DEF StartAgents, Goes
<1>17. CASE RecordActivation
  BY <1>17 DEF RecordActivation, Persisted, Goes
<1>18. CASE Verify
  BY <1>18 DEF Verify, Goes, Serves
<1>19. CASE AwaitBootstrap
  BY <1>19 DEF AwaitBootstrap, Persisted, Ends
<1>20. CASE BridgeReady
  BY <1>20 DEF BridgeReady, Goes
<1>21. CASE KeepIdentity
  BY <1>21 DEF KeepIdentity, Goes
<1>22. CASE AwaitPairing
  BY <1>22 DEF AwaitPairing, Persisted, Ends
<1>23. CASE RecordRevocation
  BY <1>23 DEF RecordRevocation
<1>24. CASE CommitRotation
  BY <1>24 DEF CommitRotation, Goes
<1>25. CASE KnowsRotation
  BY <1>25 DEF KnowsRotation, Goes
<1>26. CASE RotationUnverified
  BY <1>26 DEF RotationUnverified, NeedsRecovery, Persisted, Ends
<1>27. CASE IdentityWasClosed
  BY <1>27 DEF IdentityWasClosed, NeedsRecovery, Persisted, Ends
<1>28. CASE Finish
  BY <1>28 DEF Finish, Persisted, Ends
<1>29. CASE Compensate
  <2>1. CASE proc.committed
    <3>1. proc.pc = "compensate" /\ NeedsRecovery
        /\ UNCHANGED <<plan, creds, host, backup, identity, checkpoint, budget>>
      BY <1>29, <2>1 DEF Compensate, UndoStops
    <3> QED BY <2>1, <3>1 DEF NeedsRecovery, Ends, Persisted
  <2>2. CASE ~proc.committed
    BY <1>29, <2>2 DEF Compensate, NeedsRecovery, Persisted, Ends, Goes
  <2> QED BY <2>1, <2>2
<1>30. CASE StopServices
  <2>1. host' \in [current : {"old", "new"}, plugin : Release, agents : Release,
                    config : {"old", "new"}, acked : BOOLEAN, receipt : {"old", "new"}]
    <3>1. CASE ~plan.community /\ (proc.plugin \/ backup.plugin # "none")
      BY <1>30, <3>1 DEF StopServices
    <3>2. CASE ~(~plan.community /\ (proc.plugin \/ backup.plugin # "none"))
      BY <1>30, <3>2 DEF StopServices
    <3> QED BY <3>1, <3>2
  <2> QED BY <1>30, <2>1 DEF StopServices
<1>31. CASE CloseIdentity
  <2>1. CASE ~RotationCommitted
    BY <1>31, <2>1 DEF CloseIdentity, UndoStops, NeedsRecovery, Persisted, Ends, Goes
  <2>2. CASE RotationCommitted /\ proc.mode = "install"
    <3>1. proc.pc = "identity" /\ NeedsRecovery
        /\ UNCHANGED <<plan, creds, host, backup, identity, checkpoint, budget>>
      BY <1>31, <2>2 DEF CloseIdentity, UndoStops
    <3> QED BY <2>2, <3>1 DEF NeedsRecovery, Ends, Persisted
  <2>3. CASE RotationCommitted /\ ~(proc.mode = "install")
    <3>1. proc.pc = "identity" /\ Ends("recovery") /\ UNCHANGED <<plan, creds, host, disk, budget>>
      BY <1>31, <2>3 DEF CloseIdentity, UndoStops
    <3> QED BY <2>3, <3>1 DEF NeedsRecovery, Ends, Persisted
  <2> QED BY <2>1, <2>2, <2>3
<1>32. CASE Restore
  <2>1. CASE ~(plan.community /\ ~backup.state)
    BY <1>32, <2>1, RestoreDoes DEF Goes
  <2>2. CASE plan.community /\ ~backup.state
    <3>1. /\ proc.pc = "restore" /\ Ends("recovery")
          /\ UNCHANGED <<plan, creds, host, backup, identity, checkpoint, budget>>
          /\ journal' = Persisted("recovery_required") \/ UNCHANGED journal
      BY <1>32, <2>2, RestoreStops
    <3> QED BY <3>1 DEF Ends, Persisted
  <2> QED BY <2>1, <2>2
<1>33. CASE Close
  BY <1>33 DEF Close, Ends
<1>34. CASE Report
  BY <1>34 DEF Report, Reported, RecoveryAction, Outcomes
<1>35. CASE VerifyFails
  BY <1>35 DEF VerifyFails, Faulty, Goes, Serves
<1>36. CASE PreflightStops
  BY <1>36 DEF PreflightStops, Faulty, Ends
<1>37. CASE StageFails
  BY <1>37 DEF StageFails, Faulty, Persisted, Ends
<1>38. CASE ActivationFails
  <2>1. host' = [host EXCEPT !.plugin = IF proc.pc \in {"remove", "copy"} THEN backup.plugin ELSE @,
                           !.agents = IF proc.pc = "start" THEN "none" ELSE @]
    BY <1>38 DEF ActivationFails
  <2>2. host' \in [current : {"old", "new"}, plugin : Release, agents : Release,
               config : {"old", "new"}, acked : BOOLEAN, receipt : {"old", "new"}]
    BY <2>1
  <2>3. UNCHANGED <<plan, creds, backup, journal, identity, checkpoint>>
      /\ budget' \in 0 .. MaxFaults
    BY <1>38 DEF ActivationFails, Faulty
  <2> QED BY <2>2, <2>3
<1>39. CASE IdentityFails
  BY <1>39 DEF IdentityFails, Faulty, NeedsRecovery, Persisted, Ends
<1>40. CASE UndoFails
  <2>1. host' \in [current : {"old", "new"}, plugin : Release, agents : Release,
               config : {"old", "new"}, acked : BOOLEAN, receipt : {"old", "new"}]
    BY <1>40, UndoFailsDoes DEF Typed, TypeOK, Release
  <2>2. UNCHANGED <<plan, creds, backup, identity, checkpoint>> /\ budget' \in 0 .. MaxFaults
    BY <1>40 DEF UndoFails, Faulty
  <2>3. UNCHANGED journal \/ journal' = Persisted("recovery_required")
    BY <1>40 DEF UndoFails, NeedsRecovery
  <2>4. journal' \in [phase : {journal.phase, "recovery_required"}, started : BOOLEAN, plugin : BOOLEAN]
    BY <2>3 DEF Persisted
  <2> QED BY <2>1, <2>2, <2>4
<1>41. CASE Crash
  <2>1. /\ proc' = Idle /\ UNCHANGED <<plan, creds, backup, journal, identity, checkpoint>>
        /\ budget' = budget - 1 /\ budget > 0
    BY <1>41, CrashDoes
  <2>2. CASE proc.pc = "restore"
    <3>1. host' \in [current : {host.current, "old"}, plugin : {host.plugin}, agents : {host.agents},
                       config : {host.config, "old"}, acked : BOOLEAN,
                       receipt : {host.receipt, "old"}]
      BY <1>41, CrashDoes
    <3> QED BY <2>1, <2>2, <3>1
  <2>3. CASE proc.pc # "restore"
    <3>1. host' = host
      BY <1>41, <2>3, CrashDoes
    <3> QED BY <2>1, <2>3, <3>1
  <2> QED BY <2>2, <2>3
<1>42. CASE Authenticate
  <2>1. host' = [current |-> host.current, plugin |-> host.plugin, agents |-> host.agents,
                    config |-> host.config, acked |-> TRUE, receipt |-> host.receipt]
    BY <1>42 DEF Authenticate
  <2>2. host' \in [current : {"old", "new"}, plugin : Release, agents : Release,
               config : {"old", "new"}, acked : BOOLEAN, receipt : {"old", "new"}]
    BY <2>1
  <2>3. UNCHANGED <<plan, creds, backup, journal, identity, checkpoint, budget>>
    BY <1>42 DEF Authenticate
  <2> QED BY <2>2, <2>3
<1>43. ASSUME NEW d \in Phones, Revoke(d) PROVE TypeOK'
  BY <1>43 DEF Revoke
<1>44. ASSUME NEW d \in Phones, Pair(d) PROVE TypeOK'
  BY <1>44 DEF Pair
<1>45. ASSUME NEW d \in Phones, Unpair(d) PROVE TypeOK'
  BY <1>45 DEF Unpair, Faulty
<1> QED BY <1>1, <1>2, <1>3, <1>4, <1>5, <1>6, <1>7, <1>8, <1>9, <1>10, <1>11, <1>12, <1>13, <1>14,
    <1>15, <1>16, <1>17, <1>18, <1>19, <1>20, <1>21, <1>22, <1>23, <1>24, <1>25, <1>26, <1>27,
    <1>28, <1>29, <1>30, <1>31, <1>32, <1>33, <1>34, <1>35, <1>36, <1>37, <1>38, <1>39, <1>40,
    <1>41, <1>42, <1>43, <1>44, <1>45 DEF Next, Step, Fails

\* What a command relies on, at each place.
LEMMA WhereaboutsStep ==
  ASSUME UpdateInv, Next
  PROVE  Whereabouts'
<1> USE DEF UpdateInv, Typed, TypeOK, ProcOK, Ledger, Whereabouts, Activated, disk, vars, Idle,
           Release, Serves, Counters, Staging, Activating, Pointing, Identifying, Undoing
<1>1. CASE Resume
  <2>1. journal.phase \notin {"recovery_required", "rolled_back"}
    BY <1>1, ResumeMeans DEF Resume
  <2> QED BY <1>1, <2>1 DEF Resume
<1>2. CASE Rollback
  <2>1. journal.phase # "ready"
    BY <1>2, RollbackMeans DEF Rollback
  <2>2. /\ proc' = [pc |-> IF RuntimeMutated THEN "stop" ELSE "identity", mode |-> "rollback",
                    started |-> journal.started, plugin |-> journal.plugin,
                    committed |-> FALSE, outcome |-> "none"]
        /\ UNCHANGED <<plan, creds, host, disk, budget>>
    BY <1>2 DEF Rollback
  <2>3. CASE RuntimeMutated
    BY <2>1, <2>2, <2>3, MutatedWasStarted
  <2>4. CASE ~RuntimeMutated
    BY <2>1, <2>2, <2>4
  <2> QED BY <2>3, <2>4
<1>3. CASE Cancel
  BY <1>3 DEF Cancel
<1>4. CASE FindsItReady
  BY <1>4 DEF FindsItReady, Ends
<1>5. CASE Capture
  BY <1>5 DEF Capture, ResumesActivated
<1>6. CASE Stage
  BY <1>6 DEF Stage, Goes, Persisted
<1>7. CASE RecordStaging
  BY <1>7 DEF RecordStaging, Goes, Persisted
<1>8. CASE BeginActivation
  BY <1>8 DEF BeginActivation, Persisted
<1>9. CASE SaveState
  BY <1>9 DEF SaveState, Goes
<1>10. CASE Provision
  BY <1>10 DEF Provision, Goes
<1>11. CASE BackUpPlugin
  BY <1>11 DEF BackUpPlugin, Goes
<1>12. CASE RemovePlugin
  BY <1>12 DEF RemovePlugin, Goes
<1>13. CASE CopyPlugin
  BY <1>13 DEF CopyPlugin, Goes
<1>14. CASE RecordPlugin
  BY <1>14 DEF RecordPlugin, Persisted
<1>15. CASE Point
  BY <1>15 DEF Point, Goes
<1>16. CASE StartAgents
  BY <1>16 DEF StartAgents, Goes
<1>17. CASE RecordActivation
  BY <1>17 DEF RecordActivation, Persisted, Goes
<1>18. CASE Verify
  BY <1>18 DEF Verify, Goes, Serves
<1>19. CASE AwaitBootstrap
  BY <1>19 DEF AwaitBootstrap, Persisted, Ends
<1>20. CASE BridgeReady
  BY <1>20 DEF BridgeReady, Goes
<1>21. CASE KeepIdentity
  BY <1>21 DEF KeepIdentity, Goes
<1>22. CASE AwaitPairing
  BY <1>22 DEF AwaitPairing, Persisted, Ends
<1>23. CASE RecordRevocation
  BY <1>23 DEF RecordRevocation
<1>24. CASE CommitRotation
  BY <1>24 DEF CommitRotation, Goes
<1>25. CASE KnowsRotation
  BY <1>25 DEF KnowsRotation, Goes
<1>26. CASE RotationUnverified
  BY <1>26 DEF RotationUnverified, NeedsRecovery, Persisted, Ends
<1>27. CASE IdentityWasClosed
  BY <1>27 DEF IdentityWasClosed, NeedsRecovery, Persisted, Ends
<1>28. CASE Finish
  BY <1>28 DEF Finish, Persisted, Ends
<1>29. CASE Compensate
  <2>1. CASE proc.committed
    <3>1. proc.pc = "compensate" /\ NeedsRecovery
        /\ UNCHANGED <<plan, creds, host, backup, identity, checkpoint, budget>>
      BY <1>29, <2>1 DEF Compensate, UndoStops
    <3> QED BY <2>1, <3>1 DEF NeedsRecovery, Ends, Persisted
  <2>2. CASE ~proc.committed
    BY <1>29, <2>2 DEF Compensate, NeedsRecovery, Persisted, Ends, Goes
  <2> QED BY <2>1, <2>2
<1>30. CASE StopServices
  BY <1>30 DEF StopServices, Goes
<1>31. CASE CloseIdentity
  <2>1. ~RotationCommitted /\ proc.pc = "identity"
    BY <1>31 DEF CloseIdentity, Rotation
  <2> QED BY <1>31, <2>1 DEF CloseIdentity, Goes
<1>32. CASE Restore
  <2>1. CASE ~(plan.community /\ ~backup.state)
    BY <1>32, <2>1, RestoreDoes DEF Goes
  <2>2. CASE plan.community /\ ~backup.state
    <3>1. /\ proc.pc = "restore" /\ Ends("recovery")
          /\ UNCHANGED <<plan, creds, host, backup, identity, checkpoint, budget>>
          /\ journal' = Persisted("recovery_required") \/ UNCHANGED journal
      BY <1>32, <2>2, RestoreStops
    <3> QED BY <3>1 DEF Ends, Persisted
  <2> QED BY <2>1, <2>2
<1>33. CASE Close
  BY <1>33 DEF Close, Ends
<1>34. CASE Report
  BY <1>34 DEF Report, Reported
<1>35. CASE VerifyFails
  BY <1>35 DEF VerifyFails, Faulty, Goes, Serves
<1>36. CASE PreflightStops
  BY <1>36 DEF PreflightStops, Faulty, Ends
<1>37. CASE StageFails
  BY <1>37 DEF StageFails, Faulty, Persisted, Ends
<1>38. CASE ActivationFails
  BY <1>38 DEF ActivationFails, Faulty, Goes
<1>39. CASE IdentityFails
  BY <1>39 DEF IdentityFails, Faulty, NeedsRecovery, Persisted, Ends
<1>40. CASE UndoFails
  <2>0. /\ proc.pc \in {"stop", "restore"}
        /\ host' \in [current : {host.current, "old"}, plugin : {host.plugin}, agents : {"none"},
                       config : {host.config, "old"}, acked : BOOLEAN,
                       receipt : {host.receipt, "old"}]
        /\ UNCHANGED <<plan, creds, backup, identity, checkpoint>>
    BY <1>40, UndoFailsDoes
  <2>1. CASE proc.mode = "install"
    <3>1. Ends("recovery") /\ journal' = Persisted("recovery_required")
      BY <1>40, <2>1, UndoFailsDoes
    <3> QED BY <2>0, <2>1, <3>1 DEF Ends, Persisted
  <2>2. CASE proc.mode # "install"
    <3>1. proc' = Idle /\ UNCHANGED journal
      BY <1>40, <2>2, UndoFailsDoes
    <3> QED BY <2>0, <2>2, <3>1
  <2> QED BY <2>1, <2>2
<1>41. CASE Crash
  <2>1. /\ proc' = Idle /\ UNCHANGED <<plan, creds, backup, journal, identity, checkpoint>>
        /\ budget' = budget - 1 /\ budget > 0
    BY <1>41, CrashDoes
  <2>2. CASE proc.pc = "restore"
    <3>1. host' \in [current : {host.current, "old"}, plugin : {host.plugin}, agents : {host.agents},
                       config : {host.config, "old"}, acked : BOOLEAN,
                       receipt : {host.receipt, "old"}]
      BY <1>41, CrashDoes
    <3> QED BY <2>1, <2>2, <3>1
  <2>3. CASE proc.pc # "restore"
    <3>1. host' = host
      BY <1>41, <2>3, CrashDoes
    <3> QED BY <2>1, <2>3, <3>1
  <2> QED BY <2>2, <2>3
<1>42. CASE Authenticate
  BY <1>42 DEF Authenticate
<1>43. ASSUME NEW d \in Phones, Revoke(d) PROVE Whereabouts'
  BY <1>43 DEF Revoke
<1>44. ASSUME NEW d \in Phones, Pair(d) PROVE Whereabouts'
  BY <1>44 DEF Pair
<1>45. ASSUME NEW d \in Phones, Unpair(d) PROVE Whereabouts'
  BY <1>45 DEF Unpair, Faulty
<1> QED BY <1>1, <1>2, <1>3, <1>4, <1>5, <1>6, <1>7, <1>8, <1>9, <1>10, <1>11, <1>12, <1>13, <1>14,
    <1>15, <1>16, <1>17, <1>18, <1>19, <1>20, <1>21, <1>22, <1>23, <1>24, <1>25, <1>26, <1>27,
    <1>28, <1>29, <1>30, <1>31, <1>32, <1>33, <1>34, <1>35, <1>36, <1>37, <1>38, <1>39, <1>40,
    <1>41, <1>42, <1>43, <1>44, <1>45 DEF Next, Step, Fails

\* What an undoing command has reached.
LEMMA UndoneStep ==
  ASSUME UpdateInv, Next
  PROVE  Undone'
<1> USE DEF UpdateInv, Typed, TypeOK, ProcOK, Ledger, Whereabouts, Undone, Restored,
           RotationCommitted, vars, disk, Idle, Counters, Staging, Activating, Pointing,
           Identifying, Undoing
<1>1. CASE Resume
  <2>1. checkpoint.state # "rolled_back"
    BY <1>1, NoCommandAfterRollback DEF Resume
  <2> QED BY <1>1, <2>1 DEF Resume
<1>2. CASE Rollback
  <2>1. checkpoint.state # "rolled_back"
    BY <1>2, NoCommandAfterRollback DEF Rollback
  <2>2. CASE RuntimeMutated
    BY <1>2, <2>1, <2>2 DEF Rollback
  <2>3. CASE ~RuntimeMutated
    <3>1. Restored
      BY <2>3 DEF RuntimeMutated
    <3> QED BY <1>2, <2>1, <2>3, <3>1 DEF Rollback
  <2> QED BY <2>2, <2>3
<1>3. CASE Cancel
  <2>1. Restored /\ ~RotationCommitted
    BY <1>3 DEF Cancel, Rotation
  <2>2. /\ journal' = journal \/ journal' = [journal EXCEPT !.phase = "rolled_back"]
        /\ journal'.phase \in {"none", "rolled_back"}
        /\ proc'.pc = "report" /\ proc'.mode = "none"
        /\ checkpoint.state # "rolled_back"
        /\ UNCHANGED <<plan, creds, host, backup, identity, checkpoint, budget>>
    BY <1>3 DEF Cancel, MayCancel
  <2> QED BY <2>1, <2>2
<1>4. CASE FindsItReady
  BY <1>4 DEF FindsItReady, Ends
<1>5. CASE Capture
  BY <1>5 DEF Capture, ResumesActivated
<1>6. CASE Stage
  BY <1>6 DEF Stage, Goes, Persisted
<1>7. CASE RecordStaging
  BY <1>7 DEF RecordStaging, Goes, Persisted
<1>8. CASE BeginActivation
  BY <1>8 DEF BeginActivation, Persisted
<1>9. CASE SaveState
  BY <1>9 DEF SaveState, Goes
<1>10. CASE Provision
  BY <1>10 DEF Provision, Goes
<1>11. CASE BackUpPlugin
  BY <1>11 DEF BackUpPlugin, Goes
<1>12. CASE RemovePlugin
  BY <1>12 DEF RemovePlugin, Goes
<1>13. CASE CopyPlugin
  BY <1>13 DEF CopyPlugin, Goes
<1>14. CASE RecordPlugin
  BY <1>14 DEF RecordPlugin, Persisted
<1>15. CASE Point
  BY <1>15 DEF Point, Goes
<1>16. CASE StartAgents
  BY <1>16 DEF StartAgents, Goes
<1>17. CASE RecordActivation
  BY <1>17 DEF RecordActivation, Persisted, Goes
<1>18. CASE Verify
  BY <1>18 DEF Verify, Goes, Serves
<1>19. CASE AwaitBootstrap
  BY <1>19 DEF AwaitBootstrap, Persisted, Ends
<1>20. CASE BridgeReady
  BY <1>20 DEF BridgeReady, Goes
<1>21. CASE KeepIdentity
  BY <1>21 DEF KeepIdentity, Goes
<1>22. CASE AwaitPairing
  BY <1>22 DEF AwaitPairing, Persisted, Ends
<1>23. CASE RecordRevocation
  BY <1>23 DEF RecordRevocation
<1>24. CASE CommitRotation
  BY <1>24 DEF CommitRotation, Goes
<1>25. CASE KnowsRotation
  BY <1>25 DEF KnowsRotation, Goes
<1>26. CASE RotationUnverified
  BY <1>26 DEF RotationUnverified, NeedsRecovery, Persisted, Ends
<1>27. CASE IdentityWasClosed
  BY <1>27 DEF IdentityWasClosed, NeedsRecovery, Persisted, Ends
<1>28. CASE Finish
  BY <1>28 DEF Finish, Persisted, Ends
<1>29. CASE Compensate
  <2>1. CASE proc.committed
    <3>1. proc.pc = "compensate" /\ NeedsRecovery
        /\ UNCHANGED <<plan, creds, host, backup, identity, checkpoint, budget>>
      BY <1>29, <2>1 DEF Compensate, UndoStops
    <3> QED BY <2>1, <3>1 DEF NeedsRecovery, Ends, Persisted
  <2>2. CASE ~proc.committed
    BY <1>29, <2>2 DEF Compensate, NeedsRecovery, Persisted, Ends, Goes
  <2> QED BY <2>1, <2>2
<1>30. CASE StopServices
  BY <1>30 DEF StopServices, Goes
<1>31. CASE CloseIdentity
  <2>1. ~RotationCommitted /\ proc.pc = "identity"
    BY <1>31 DEF CloseIdentity, Rotation
  <2> QED BY <1>31, <2>1 DEF CloseIdentity, Goes
<1>32. CASE Restore
  <2>1. CASE ~(plan.community /\ ~backup.state)
    BY <1>32, <2>1, RestoreDoes DEF Goes
  <2>2. CASE plan.community /\ ~backup.state
    <3>1. /\ proc.pc = "restore" /\ Ends("recovery")
          /\ UNCHANGED <<plan, creds, host, backup, identity, checkpoint, budget>>
          /\ journal' = Persisted("recovery_required") \/ UNCHANGED journal
      BY <1>32, <2>2, RestoreStops
    <3> QED BY <3>1 DEF Ends, Persisted
  <2> QED BY <2>1, <2>2
<1>33. CASE Close
  <2>1. ~RotationCommitted
    BY <1>33 DEF Close, Rotation
  <2> QED BY <1>33, <2>1 DEF Close, Ends
<1>34. CASE Report
  BY <1>34 DEF Report, Reported
<1>35. CASE VerifyFails
  BY <1>35 DEF VerifyFails, Faulty, Goes, Serves
<1>36. CASE PreflightStops
  BY <1>36 DEF PreflightStops, Faulty, Ends
<1>37. CASE StageFails
  BY <1>37 DEF StageFails, Faulty, Persisted, Ends
<1>38. CASE ActivationFails
  BY <1>38 DEF ActivationFails, Faulty, Goes
<1>39. CASE IdentityFails
  BY <1>39 DEF IdentityFails, Faulty, NeedsRecovery, Persisted, Ends
<1>40. CASE UndoFails
  <2>0. /\ proc.pc \in {"stop", "restore"}
        /\ host' \in [current : {host.current, "old"}, plugin : {host.plugin}, agents : {"none"},
                       config : {host.config, "old"}, acked : BOOLEAN,
                       receipt : {host.receipt, "old"}]
        /\ UNCHANGED <<plan, creds, backup, identity, checkpoint>>
    BY <1>40, UndoFailsDoes
  <2>1. CASE proc.mode = "install"
    <3>1. Ends("recovery") /\ journal' = Persisted("recovery_required")
      BY <1>40, <2>1, UndoFailsDoes
    <3> QED BY <2>0, <2>1, <3>1 DEF Ends, Persisted
  <2>2. CASE proc.mode # "install"
    <3>1. proc' = Idle /\ UNCHANGED journal
      BY <1>40, <2>2, UndoFailsDoes
    <3> QED BY <2>0, <2>2, <3>1
  <2> QED BY <2>1, <2>2
<1>41. CASE Crash
  <2>1. /\ proc' = Idle /\ UNCHANGED <<plan, creds, backup, journal, identity, checkpoint>>
        /\ budget' = budget - 1 /\ budget > 0
    BY <1>41, CrashDoes
  <2>2. CASE proc.pc = "restore"
    <3>1. host' \in [current : {host.current, "old"}, plugin : {host.plugin}, agents : {host.agents},
                       config : {host.config, "old"}, acked : BOOLEAN,
                       receipt : {host.receipt, "old"}]
      BY <1>41, CrashDoes
    <3> QED BY <2>1, <2>2, <3>1
  <2>3. CASE proc.pc # "restore"
    <3>1. host' = host
      BY <1>41, <2>3, CrashDoes
    <3> QED BY <2>1, <2>3, <3>1
  <2> QED BY <2>2, <2>3
<1>42. CASE Authenticate
  BY <1>42 DEF Authenticate
<1>43. ASSUME NEW d \in Phones, Revoke(d) PROVE Undone'
  BY <1>43 DEF Revoke
<1>44. ASSUME NEW d \in Phones, Pair(d) PROVE Undone'
  BY <1>44 DEF Pair
<1>45. ASSUME NEW d \in Phones, Unpair(d) PROVE Undone'
  BY <1>45 DEF Unpair, Faulty
<1> QED BY <1>1, <1>2, <1>3, <1>4, <1>5, <1>6, <1>7, <1>8, <1>9, <1>10, <1>11, <1>12, <1>13, <1>14,
    <1>15, <1>16, <1>17, <1>18, <1>19, <1>20, <1>21, <1>22, <1>23, <1>24, <1>25, <1>26, <1>27,
    <1>28, <1>29, <1>30, <1>31, <1>32, <1>33, <1>34, <1>35, <1>36, <1>37, <1>38, <1>39, <1>40,
    <1>41, <1>42, <1>43, <1>44, <1>45 DEF Next, Step, Fails

\* The rotation.
LEMMA RotationStep ==
  ASSUME UpdateInv, Next
  PROVE  Rotation'
<1> USE DEF UpdateInv, Typed, TypeOK, ProcOK, Ledger, Whereabouts, Rotation, RotationCommitted,
           Activated, vars, disk, Idle, Active, Counters, Staging, Activating, Pointing,
           Identifying, Undoing
<1>1. CASE Resume
  BY <1>1 DEF Resume, Goes
<1>2. CASE Rollback
  <2>1. ~RotationCommitted
    BY <1>2, RollbackMeans DEF Rollback
  <2> QED BY <1>2, <2>1 DEF Rollback
<1>3. CASE Cancel
  BY <1>3 DEF Cancel
<1>4. CASE FindsItReady
  BY <1>4 DEF FindsItReady, Ends
<1>5. CASE Capture
  BY <1>5 DEF Capture, ResumesActivated
<1>6. CASE Stage
  BY <1>6 DEF Stage, Goes, Persisted
<1>7. CASE RecordStaging
  BY <1>7 DEF RecordStaging, Goes, Persisted
<1>8. CASE BeginActivation
  BY <1>8 DEF BeginActivation, Persisted
<1>9. CASE SaveState
  BY <1>9 DEF SaveState, Goes
<1>10. CASE Provision
  BY <1>10 DEF Provision, Goes
<1>11. CASE BackUpPlugin
  BY <1>11 DEF BackUpPlugin, Goes
<1>12. CASE RemovePlugin
  BY <1>12 DEF RemovePlugin, Goes
<1>13. CASE CopyPlugin
  BY <1>13 DEF CopyPlugin, Goes
<1>14. CASE RecordPlugin
  BY <1>14 DEF RecordPlugin, Persisted
<1>15. CASE Point
  BY <1>15 DEF Point, Goes
<1>16. CASE StartAgents
  BY <1>16 DEF StartAgents, Goes
<1>17. CASE RecordActivation
  BY <1>17 DEF RecordActivation, Persisted, Goes
<1>18. CASE Verify
  BY <1>18 DEF Verify, Goes, Serves
<1>19. CASE AwaitBootstrap
  BY <1>19 DEF AwaitBootstrap, Persisted, Ends
<1>20. CASE BridgeReady
  BY <1>20 DEF BridgeReady, Goes
<1>21. CASE KeepIdentity
  BY <1>21 DEF KeepIdentity, Goes
<1>22. CASE AwaitPairing
  BY <1>22 DEF AwaitPairing, Persisted, Ends
<1>23. CASE RecordRevocation
  BY <1>23 DEF RecordRevocation
<1>24. CASE CommitRotation
  BY <1>24 DEF CommitRotation, Goes
<1>25. CASE KnowsRotation
  BY <1>25 DEF KnowsRotation, Goes
<1>26. CASE RotationUnverified
  BY <1>26 DEF RotationUnverified, NeedsRecovery, Persisted, Ends
<1>27. CASE IdentityWasClosed
  BY <1>27 DEF IdentityWasClosed, NeedsRecovery, Persisted, Ends
<1>28. CASE Finish
  BY <1>28 DEF Finish, Persisted, Ends
<1>29. CASE Compensate
  <2>1. CASE proc.committed
    <3>1. proc.pc = "compensate" /\ NeedsRecovery
        /\ UNCHANGED <<plan, creds, host, backup, identity, checkpoint, budget>>
      BY <1>29, <2>1 DEF Compensate, UndoStops
    <3> QED BY <2>1, <3>1 DEF NeedsRecovery, Ends, Persisted
  <2>2. CASE ~proc.committed
    BY <1>29, <2>2 DEF Compensate, NeedsRecovery, Persisted, Ends, Goes
  <2> QED BY <2>1, <2>2
<1>30. CASE StopServices
  BY <1>30 DEF StopServices, Goes
<1>31. CASE CloseIdentity
  <2>1. CASE ~RotationCommitted
    BY <1>31, <2>1 DEF CloseIdentity, UndoStops, NeedsRecovery, Persisted, Ends, Goes
  <2>2. CASE RotationCommitted /\ proc.mode = "install"
    <3>1. proc.pc = "identity" /\ NeedsRecovery
        /\ UNCHANGED <<plan, creds, host, backup, identity, checkpoint, budget>>
      BY <1>31, <2>2 DEF CloseIdentity, UndoStops
    <3> QED BY <2>2, <3>1 DEF NeedsRecovery, Ends, Persisted
  <2>3. CASE RotationCommitted /\ ~(proc.mode = "install")
    <3>1. proc.pc = "identity" /\ Ends("recovery") /\ UNCHANGED <<plan, creds, host, disk, budget>>
      BY <1>31, <2>3 DEF CloseIdentity, UndoStops
    <3> QED BY <2>3, <3>1 DEF NeedsRecovery, Ends, Persisted
  <2> QED BY <2>1, <2>2, <2>3
<1>32. CASE Restore
  <2>1. CASE ~(plan.community /\ ~backup.state)
    BY <1>32, <2>1, RestoreDoes DEF Goes
  <2>2. CASE plan.community /\ ~backup.state
    <3>1. /\ proc.pc = "restore" /\ Ends("recovery")
          /\ UNCHANGED <<plan, creds, host, backup, identity, checkpoint, budget>>
          /\ journal' = Persisted("recovery_required") \/ UNCHANGED journal
      BY <1>32, <2>2, RestoreStops
    <3> QED BY <3>1 DEF Ends, Persisted
  <2> QED BY <2>1, <2>2
<1>33. CASE Close
  BY <1>33 DEF Close, Ends
<1>34. CASE Report
  BY <1>34 DEF Report, Reported
<1>35. CASE VerifyFails
  BY <1>35 DEF VerifyFails, Faulty, Goes, Serves
<1>36. CASE PreflightStops
  BY <1>36 DEF PreflightStops, Faulty, Ends
<1>37. CASE StageFails
  BY <1>37 DEF StageFails, Faulty, Persisted, Ends
<1>38. CASE ActivationFails
  BY <1>38 DEF ActivationFails, Faulty, Goes
<1>39. CASE IdentityFails
  BY <1>39 DEF IdentityFails, Faulty, NeedsRecovery, Persisted, Ends
<1>40. CASE UndoFails
  <2>0. /\ proc.pc \in {"stop", "restore"}
        /\ host' \in [current : {host.current, "old"}, plugin : {host.plugin}, agents : {"none"},
                       config : {host.config, "old"}, acked : BOOLEAN,
                       receipt : {host.receipt, "old"}]
        /\ UNCHANGED <<plan, creds, backup, identity, checkpoint>>
    BY <1>40, UndoFailsDoes
  <2>1. CASE proc.mode = "install"
    <3>1. Ends("recovery") /\ journal' = Persisted("recovery_required")
      BY <1>40, <2>1, UndoFailsDoes
    <3> QED BY <2>0, <2>1, <3>1 DEF Ends, Persisted
  <2>2. CASE proc.mode # "install"
    <3>1. proc' = Idle /\ UNCHANGED journal
      BY <1>40, <2>2, UndoFailsDoes
    <3> QED BY <2>0, <2>2, <3>1
  <2> QED BY <2>1, <2>2
<1>41. CASE Crash
  <2>1. /\ proc' = Idle /\ UNCHANGED <<plan, creds, backup, journal, identity, checkpoint>>
        /\ budget' = budget - 1 /\ budget > 0
    BY <1>41, CrashDoes
  <2>2. CASE proc.pc = "restore"
    <3>1. host' \in [current : {host.current, "old"}, plugin : {host.plugin}, agents : {host.agents},
                       config : {host.config, "old"}, acked : BOOLEAN,
                       receipt : {host.receipt, "old"}]
      BY <1>41, CrashDoes
    <3> QED BY <2>1, <2>2, <3>1
  <2>3. CASE proc.pc # "restore"
    <3>1. host' = host
      BY <1>41, <2>3, CrashDoes
    <3> QED BY <2>1, <2>3, <3>1
  <2> QED BY <2>2, <2>3
<1>42. CASE Authenticate
  BY <1>42 DEF Authenticate
<1>43. ASSUME NEW d \in Phones, Revoke(d) PROVE Rotation'
  BY <1>43 DEF Revoke
<1>44. ASSUME NEW d \in Phones, Pair(d) PROVE Rotation'
  BY <1>44 DEF Pair
<1>45. ASSUME NEW d \in Phones, Unpair(d) PROVE Rotation'
  BY <1>45 DEF Unpair, Faulty
<1> QED BY <1>1, <1>2, <1>3, <1>4, <1>5, <1>6, <1>7, <1>8, <1>9, <1>10, <1>11, <1>12, <1>13, <1>14,
    <1>15, <1>16, <1>17, <1>18, <1>19, <1>20, <1>21, <1>22, <1>23, <1>24, <1>25, <1>26, <1>27,
    <1>28, <1>29, <1>30, <1>31, <1>32, <1>33, <1>34, <1>35, <1>36, <1>37, <1>38, <1>39, <1>40,
    <1>41, <1>42, <1>43, <1>44, <1>45 DEF Next, Step, Fails

\* A ready update.
LEMMA ReadyStep ==
  ASSUME UpdateInv, Next
  PROVE  ReadyIsWhole'
<1> USE DEF UpdateInv, Typed, TypeOK, ProcOK, Ledger, Whereabouts, Rotation, ReadyIsWhole,
           Activated, Serves, vars, disk, Idle, Active, Phones, Counters, Staging, Activating,
           Pointing, Identifying, Undoing
<1>1. CASE Resume
  BY <1>1 DEF Resume, Goes
<1>2. CASE Rollback
  BY <1>2 DEF Rollback
<1>3. CASE Cancel
  BY <1>3 DEF Cancel
<1>4. CASE FindsItReady
  BY <1>4 DEF FindsItReady, Ends
<1>5. CASE Capture
  BY <1>5 DEF Capture, ResumesActivated
<1>6. CASE Stage
  BY <1>6 DEF Stage, Goes, Persisted
<1>7. CASE RecordStaging
  BY <1>7 DEF RecordStaging, Goes, Persisted
<1>8. CASE BeginActivation
  BY <1>8 DEF BeginActivation, Persisted
<1>9. CASE SaveState
  BY <1>9 DEF SaveState, Goes
<1>10. CASE Provision
  BY <1>10 DEF Provision, Goes
<1>11. CASE BackUpPlugin
  BY <1>11 DEF BackUpPlugin, Goes
<1>12. CASE RemovePlugin
  BY <1>12 DEF RemovePlugin, Goes
<1>13. CASE CopyPlugin
  BY <1>13 DEF CopyPlugin, Goes
<1>14. CASE RecordPlugin
  BY <1>14 DEF RecordPlugin, Persisted
<1>15. CASE Point
  BY <1>15 DEF Point, Goes
<1>16. CASE StartAgents
  BY <1>16 DEF StartAgents, Goes
<1>17. CASE RecordActivation
  BY <1>17 DEF RecordActivation, Persisted, Goes
<1>18. CASE Verify
  BY <1>18 DEF Verify, Goes, Serves
<1>19. CASE AwaitBootstrap
  BY <1>19 DEF AwaitBootstrap, Persisted, Ends
<1>20. CASE BridgeReady
  BY <1>20 DEF BridgeReady, Goes
<1>21. CASE KeepIdentity
  BY <1>21 DEF KeepIdentity, Goes
<1>22. CASE AwaitPairing
  BY <1>22 DEF AwaitPairing, Persisted, Ends
<1>23. CASE RecordRevocation
  BY <1>23 DEF RecordRevocation
<1>24. CASE CommitRotation
  BY <1>24 DEF CommitRotation, Goes
<1>25. CASE KnowsRotation
  BY <1>25 DEF KnowsRotation, Goes
<1>26. CASE RotationUnverified
  BY <1>26 DEF RotationUnverified, NeedsRecovery, Persisted, Ends
<1>27. CASE IdentityWasClosed
  BY <1>27 DEF IdentityWasClosed, NeedsRecovery, Persisted, Ends
<1>28. CASE Finish
  BY <1>28 DEF Finish, Persisted, Ends
<1>29. CASE Compensate
  <2>1. CASE proc.committed
    <3>1. proc.pc = "compensate" /\ NeedsRecovery
        /\ UNCHANGED <<plan, creds, host, backup, identity, checkpoint, budget>>
      BY <1>29, <2>1 DEF Compensate, UndoStops
    <3> QED BY <2>1, <3>1 DEF NeedsRecovery, Ends, Persisted
  <2>2. CASE ~proc.committed
    BY <1>29, <2>2 DEF Compensate, NeedsRecovery, Persisted, Ends, Goes
  <2> QED BY <2>1, <2>2
<1>30. CASE StopServices
  BY <1>30 DEF StopServices, Goes
<1>31. CASE CloseIdentity
  <2>1. CASE ~RotationCommitted
    BY <1>31, <2>1 DEF CloseIdentity, UndoStops, NeedsRecovery, Persisted, Ends, Goes
  <2>2. CASE RotationCommitted /\ proc.mode = "install"
    <3>1. proc.pc = "identity" /\ NeedsRecovery
        /\ UNCHANGED <<plan, creds, host, backup, identity, checkpoint, budget>>
      BY <1>31, <2>2 DEF CloseIdentity, UndoStops
    <3> QED BY <2>2, <3>1 DEF NeedsRecovery, Ends, Persisted
  <2>3. CASE RotationCommitted /\ ~(proc.mode = "install")
    <3>1. proc.pc = "identity" /\ Ends("recovery") /\ UNCHANGED <<plan, creds, host, disk, budget>>
      BY <1>31, <2>3 DEF CloseIdentity, UndoStops
    <3> QED BY <2>3, <3>1 DEF NeedsRecovery, Ends, Persisted
  <2> QED BY <2>1, <2>2, <2>3
<1>32. CASE Restore
  <2>1. CASE ~(plan.community /\ ~backup.state)
    BY <1>32, <2>1, RestoreDoes DEF Goes
  <2>2. CASE plan.community /\ ~backup.state
    <3>1. /\ proc.pc = "restore" /\ Ends("recovery")
          /\ UNCHANGED <<plan, creds, host, backup, identity, checkpoint, budget>>
          /\ journal' = Persisted("recovery_required") \/ UNCHANGED journal
      BY <1>32, <2>2, RestoreStops
    <3> QED BY <3>1 DEF Ends, Persisted
  <2> QED BY <2>1, <2>2
<1>33. CASE Close
  BY <1>33 DEF Close, Ends
<1>34. CASE Report
  BY <1>34 DEF Report, Reported
<1>35. CASE VerifyFails
  BY <1>35 DEF VerifyFails, Faulty, Goes, Serves
<1>36. CASE PreflightStops
  BY <1>36 DEF PreflightStops, Faulty, Ends
<1>37. CASE StageFails
  BY <1>37 DEF StageFails, Faulty, Persisted, Ends
<1>38. CASE ActivationFails
  BY <1>38 DEF ActivationFails, Faulty, Goes
<1>39. CASE IdentityFails
  BY <1>39 DEF IdentityFails, Faulty, NeedsRecovery, Persisted, Ends
<1>40. CASE UndoFails
  <2>0. /\ proc.pc \in {"stop", "restore"}
        /\ host' \in [current : {host.current, "old"}, plugin : {host.plugin}, agents : {"none"},
                       config : {host.config, "old"}, acked : BOOLEAN,
                       receipt : {host.receipt, "old"}]
        /\ UNCHANGED <<plan, creds, backup, identity, checkpoint>>
    BY <1>40, UndoFailsDoes
  <2>1. CASE proc.mode = "install"
    <3>1. Ends("recovery") /\ journal' = Persisted("recovery_required")
      BY <1>40, <2>1, UndoFailsDoes
    <3> QED BY <2>0, <2>1, <3>1 DEF Ends, Persisted
  <2>2. CASE proc.mode # "install"
    <3>1. proc' = Idle /\ UNCHANGED journal
      BY <1>40, <2>2, UndoFailsDoes
    <3> QED BY <2>0, <2>2, <3>1
  <2> QED BY <2>1, <2>2
<1>41. CASE Crash
  <2>1. /\ proc' = Idle /\ UNCHANGED <<plan, creds, backup, journal, identity, checkpoint>>
        /\ budget' = budget - 1 /\ budget > 0
    BY <1>41, CrashDoes
  <2>2. CASE proc.pc = "restore"
    <3>1. host' \in [current : {host.current, "old"}, plugin : {host.plugin}, agents : {host.agents},
                       config : {host.config, "old"}, acked : BOOLEAN,
                       receipt : {host.receipt, "old"}]
      BY <1>41, CrashDoes
    <3> QED BY <2>1, <2>2, <3>1
  <2>3. CASE proc.pc # "restore"
    <3>1. host' = host
      BY <1>41, <2>3, CrashDoes
    <3> QED BY <2>1, <2>3, <3>1
  <2> QED BY <2>2, <2>3
<1>42. CASE Authenticate
  BY <1>42 DEF Authenticate
<1>43. ASSUME NEW d \in Phones, Revoke(d) PROVE ReadyIsWhole'
  BY <1>43 DEF Revoke
<1>44. ASSUME NEW d \in Phones, Pair(d) PROVE ReadyIsWhole'
  BY <1>44 DEF Pair
<1>45. ASSUME NEW d \in Phones, Unpair(d) PROVE ReadyIsWhole'
  BY <1>45 DEF Unpair, Faulty
<1> QED BY <1>1, <1>2, <1>3, <1>4, <1>5, <1>6, <1>7, <1>8, <1>9, <1>10, <1>11, <1>12, <1>13, <1>14,
    <1>15, <1>16, <1>17, <1>18, <1>19, <1>20, <1>21, <1>22, <1>23, <1>24, <1>25, <1>26, <1>27,
    <1>28, <1>29, <1>30, <1>31, <1>32, <1>33, <1>34, <1>35, <1>36, <1>37, <1>38, <1>39, <1>40,
    <1>41, <1>42, <1>43, <1>44, <1>45 DEF Next, Step, Fails

\* The first state, every step, every state.
LEMMA UpdateInvInit == Init => UpdateInv
<1> SUFFICES ASSUME Init PROVE UpdateInv
  OBVIOUS
<1> USE UpdateAssumption DEF Init, Idle, RotationCommitted
<1>1. TypeOK
  BY DEF TypeOK, Phones, Release
<1>2. ProcOK
  BY DEF ProcOK, Counters, Outcomes
<1>3. Ledger
  BY DEF Ledger, Activated
<1>4. Whereabouts
  BY DEF Whereabouts, Staging, Activating, Pointing, Identifying, Undoing
<1>5. Undone
  BY DEF Undone
<1>6. Rotation
  BY DEF Rotation, Staging, Activating, Pointing, Undoing
<1>7. ReadyIsWhole
  BY DEF ReadyIsWhole
<1> QED BY <1>1, <1>2, <1>3, <1>4, <1>5, <1>6, <1>7 DEF UpdateInv, Typed

\* Every step keeps the invariant.
LEMMA UpdateInvStep == UpdateInv /\ [Next]_vars => UpdateInv'
<1> SUFFICES ASSUME UpdateInv, [Next]_vars PROVE UpdateInv'
  OBVIOUS
<1>1. CASE Next
  BY <1>1, ProcStep, TypeStep, LedgerStep, WhereaboutsStep, UndoneStep, RotationStep, ReadyStep
  DEF UpdateInv, Typed
<1>2. CASE UNCHANGED vars
  BY <1>2 DEF vars, UpdateInv, Typed, TypeOK, ProcOK, Ledger, Whereabouts, Undone, Restored,
      Rotation,
       RotationCommitted, ReadyIsWhole, Serves, Phones
<1> QED BY <1>1, <1>2

\* The invariant always holds.
LEMMA Updating == Spec => []UpdateInv
  BY UpdateInvInit, UpdateInvStep, PTL DEF Spec

-----------------------------------------------------------------------------
(* The results.                                                            *)

\* The files keep their shape: no crash between two writes leaves a journal,
\* a checkpoint or an installation that the commands cannot name.
THEOREM UpdateIsTyped == Spec => []TypeOK
<1>1. UpdateInv => TypeOK
  BY DEF UpdateInv, Typed
<1> QED BY <1>1, Updating, PTL

\* Once the old phones are revoked for good, nothing puts the old release
\* back in service or reports it restored, for any number of faults.
THEOREM RotationStands == Spec => []RotationIsFinal
<1>1. UpdateInv => RotationIsFinal
  BY DEF UpdateInv, Rotation, Undone, RotationIsFinal
<1> QED BY <1>1, Updating, PTL

\* An update the journal calls ready is whole, and no rotated phone keeps a
\* credential from before.
THEOREM ReadyStaysWhole == Spec => []ReadyIsWhole
<1>1. UpdateInv => ReadyIsWhole
  BY DEF UpdateInv
<1> QED BY <1>1, Updating, PTL

\* What is reported rolled back runs the old release.
THEOREM RollbackRestores == Spec => []RolledBackRunsOld
<1>1. UpdateInv => RolledBackRunsOld
  BY DEF UpdateInv, Undone, Restored, RolledBackRunsOld
<1> QED BY <1>1, Updating, PTL

\* No phone's credential is given up before the release that replaces it runs
\* and was verified and its plugin has authenticated.
THEOREM RevocationIsVerified == Spec => RevokesOnlyVerified
<1> DEFINE Verified == Serves /\ host.current = "new" /\ host.acked /\ host.receipt = "new"
           Growing == identity'.revoked # identity.revoked => Verified
<1>1. UpdateInv /\ [Next]_vars => Growing
  <2> SUFFICES ASSUME UpdateInv, [Next]_vars, identity'.revoked # identity.revoked PROVE Verified
    OBVIOUS
  <2>1. identity' # identity /\ Next
    BY DEF vars
  <2>2. CASE RecordRevocation
    BY <2>2 DEF RecordRevocation, UpdateInv, Whereabouts, Identifying
  <2>3. CASE Capture
    <3>1. identity.phase # "none" => identity' = identity
      BY <2>3 DEF Capture
    <3>2. identity.phase = "none" => identity'.revoked = {}
      BY <2>3 DEF Capture
    <3> QED BY <3>1, <3>2 DEF UpdateInv, Rotation
  <2>4. CASE KeepIdentity \/ CommitRotation \/ KnowsRotation \/ CloseIdentity
    <3>1. \/ identity' = [identity EXCEPT !.phase = "ready"]
          \/ identity' = [identity EXCEPT !.phase = "rotation_committed"]
          \/ identity' = [identity EXCEPT !.phase = "rolled_back"]
          \/ identity' = identity
      BY <2>4 DEF KeepIdentity, CommitRotation, KnowsRotation, CloseIdentity
    <3> QED BY <3>1 DEF UpdateInv, Typed, TypeOK
  <2>5. CASE UNCHANGED identity
    BY <2>1, <2>5
  <2>6. \/ RecordRevocation \/ Capture \/ KeepIdentity \/ CommitRotation \/ KnowsRotation \/ CloseIdentity
        \/ UNCHANGED identity
    <3>1. CASE Step
      BY <3>1 DEF Step, disk, FindsItReady, Stage, RecordStaging, BeginActivation, SaveState,
          Provision,
         BackUpPlugin, RemovePlugin, CopyPlugin, RecordPlugin, Point, StartAgents, RecordActivation,
         Verify, AwaitBootstrap, BridgeReady, AwaitPairing, RotationUnverified, IdentityWasClosed,
         Finish, Compensate, StopServices, Restore, Close, Report, VerifyFails, Revoke
    <3>2. CASE Fails
      BY <3>2 DEF Fails, disk, PreflightStops, StageFails, ActivationFails, IdentityFails, UndoFails
    <3>3. CASE Resume \/ Rollback \/ Cancel \/ Crash \/ Authenticate \/ \E d \in Phones : Pair(d) \/ Unpair(d)
      BY <3>3 DEF disk, Resume, Rollback, Cancel, Crash, Authenticate, Pair, Unpair
    <3> QED BY <2>1, <3>1, <3>2, <3>3 DEF Next
  <2> QED BY <2>2, <2>3, <2>4, <2>5, <2>6
<1>2. RevokesOnlyVerified <=> [][Growing]_vars
  BY DEF RevokesOnlyVerified
<1> QED BY <1>1, <1>2, Updating, PTL DEF Spec
=============================================================================
