------------------------ MODULE RetirementDispatch ------------------------
(***************************************************************************)
(* The remote retirement of the legacy relay (legacy_retirement_saga.py):  *)
(* LegacyRetirementSaga stages an inert helper on the VPS, asks the host   *)
(* for a read-only preflight, and dispatches the one irreversible command. *)
(* Staging can be repeated and undone; from the moment the dispatch is     *)
(* journalled the saga only asks what became of it.  The host is external: *)
(* a command that was sent may run at any later time, or never.            *)
(***************************************************************************)
EXTENDS Naturals

CONSTANT MaxKills    \* bound: how many times the process is killed

ASSUME KillsAssumption == MaxKills \in Nat

VARIABLES
  phase,    \* <operation>.legacy-retirement-saga.json
  pc,       \* the running execute()
  told,     \* what the last execute() returned
  source,   \* the local helper still has the digest the plan names
  remote,   \* the VPS: helper staged, legacy relay retired
  sent,     \* history: retirement_commit commands sent
  flying,   \* of those, the ones the host may still run
  kills     \* kills so far

retireVars == <<phase, pc, told, source, remote, sent, flying, kills>>

Settled == {"compensated", "recovery_required"}

-----------------------------------------------------------------------------
RetireInit ==
  /\ phase = "prepared" /\ pc = "idle" /\ told = "none"
  /\ source \in BOOLEAN
  /\ remote = [helper |-> FALSE, retired |-> FALSE]
  /\ sent = 0 /\ flying = 0 /\ kills = 0

Return(outcome) == pc' = "idle" /\ told' = outcome

\* Variant: a dispatch without an answer is tried again.
StartAgain ==
  /\ pc = "idle" /\ phase \notin Settled
  /\ phase = "prepared" => source
  /\ pc' = CASE phase = "prepared" -> "stage"
             [] phase = "retirement_outcome_unknown" -> "reconcile"
             [] OTHER -> "preflight"
  /\ UNCHANGED <<phase, told, source, remote, sent, flying, kills>>

\* execute: settled phases return at once.  A journal left at "dispatching"
\* by a kill becomes retirement_outcome_unknown; only a prepared operation
\* has its helper verified again.
Start ==
  /\ pc = "idle" /\ phase \notin Settled
  /\ phase = "prepared" => source
  /\ phase' = IF phase = "dispatching" THEN "retirement_outcome_unknown" ELSE phase
  /\ pc' = CASE phase = "prepared" -> "stage"
             [] phase = "staged"   -> "preflight"
             [] OTHER              -> "reconcile"
  /\ UNCHANGED <<told, source, remote, sent, flying, kills>>

\* retirement_reconcile reads; nothing it learns is saved.  A retirement it
\* reports without a valid proof is returned as inconclusive.
Reconcile ==
  /\ pc = "reconcile"
  /\ \E outcome \in {"inconclusive"} \union {o \in {"proof_ready"} : remote.retired} :
       Return(outcome)
  /\ UNCHANGED <<phase, source, remote, sent, flying, kills>>

\* upload_immutable: the digest is read from the descriptor it uploads from,
\* then the host must report the asset unchanged, immutable and inert.
Stage ==
  /\ pc = "stage"
  /\ \/ /\ source
        /\ remote' = [remote EXCEPT !.helper = TRUE]
        /\ pc' = "staged"
     \/ /\ remote' \in {remote, [remote EXCEPT !.helper = TRUE]}
        /\ pc' = "compensate"
  /\ UNCHANGED <<phase, told, source, sent, flying, kills>>

\* The save of "staged" is inside the same try.
SaveStaged ==
  /\ pc = "staged"
  /\ \/ phase' = "staged" /\ pc' = "preflight"
     \/ pc' = "compensate" /\ UNCHANGED phase
  /\ UNCHANGED <<told, source, remote, sent, flying, kills>>

\* The preflight runs the helper: it cannot pass on a host without it.
Preflight ==
  /\ pc = "preflight"
  /\ \/ remote.helper /\ pc' = "journal"
     \/ pc' = "compensate"
  /\ UNCHANGED <<phase, told, source, remote, sent, flying, kills>>

\* compensate_stage removes the operation's own directory.
CompensateStage ==
  /\ pc = "compensate"
  /\ \/ remote' = [remote EXCEPT !.helper = FALSE] /\ pc' = "compensated"
     \/ remote' \in {remote, [remote EXCEPT !.helper = FALSE]} /\ pc' = "recovery_required"
  /\ UNCHANGED <<phase, told, source, sent, flying, kills>>

SaveCompensated ==
  /\ pc \in Settled
  /\ phase' = pc
  /\ Return(pc)
  /\ UNCHANGED <<source, remote, sent, flying, kills>>

JournalDispatch ==
  /\ pc = "journal"
  /\ phase' = "dispatching" /\ pc' = "dispatch"
  /\ UNCHANGED <<told, source, remote, sent, flying, kills>>

Dispatch ==
  /\ pc = "dispatch"
  /\ sent' = sent + 1 /\ flying' = flying + 1
  /\ pc' = "answer"
  /\ UNCHANGED <<phase, told, source, remote, kills>>

\* The host runs a command that reached it, or refuses it.  It may have been
\* cut off from the Mac long before.
HostRuns ==
  /\ flying > 0
  /\ flying' = flying - 1
  /\ \E done \in BOOLEAN :
       /\ done => remote.helper
       /\ remote' = [remote EXCEPT !.retired = @ \/ done]
  /\ UNCHANGED <<phase, pc, told, source, sent, kills>>

\* Whatever the dispatch answers - a proof, something else, an error, no
\* answer - the journal says that the outcome is unknown.
Answer ==
  /\ pc = "answer"
  /\ phase' = "retirement_outcome_unknown"
  /\ \E outcome \in {"retirement_outcome_unknown"} \union {o \in {"proof_ready"} : remote.retired} :
       Return(outcome)
  /\ UNCHANGED <<source, remote, sent, flying, kills>>

\* The process is killed, or an exception leaves execute.
Kill ==
  /\ pc # "idle" /\ kills < MaxKills
  /\ kills' = kills + 1
  /\ Return("none")
  /\ UNCHANGED <<phase, source, remote, sent, flying>>

\* The helper on the Mac is replaced, or put back.
ChangeSource ==
  /\ source' = ~source
  /\ UNCHANGED <<phase, pc, told, remote, sent, flying, kills>>

RetireNext ==
  \/ Start \/ Reconcile \/ Stage \/ SaveStaged \/ Preflight \/ CompensateStage
  \/ SaveCompensated \/ JournalDispatch \/ Dispatch \/ HostRuns \/ Answer
  \/ Kill \/ ChangeSource

RetireSpec == RetireInit /\ [][RetireNext]_retireVars

-----------------------------------------------------------------------------
RetireTypeOK ==
  /\ phase \in Settled \union {"prepared", "staged", "dispatching", "retirement_outcome_unknown"}
  /\ pc \in Settled \union {"idle", "stage", "staged", "preflight", "compensate",
                            "journal", "dispatch", "answer", "reconcile"}
  /\ told \in Settled \union {"none", "proof_ready", "inconclusive", "retirement_outcome_unknown"}
  /\ source \in BOOLEAN
  /\ remote \in [helper : BOOLEAN, retired : BOOLEAN]
  /\ sent \in Nat /\ flying \in Nat /\ kills \in 0..MaxKills

\* The irreversible command is sent at most once, over any number of kills
\* and of further execute() calls.
DispatchedOnce == sent <= 1

\* An operation that was given up is harmless, for good: no command was
\* sent, so none can still arrive, and the relay was not retired.
GivenUpIsInert ==
  phase \in Settled => sent = 0 /\ flying = 0 /\ ~remote.retired

\* The dispatch is final: one command at most, and none of an operation that
\* was given up.
DispatchIsFinal == DispatchedOnce /\ GivenUpIsInert

\* While a sent command may still run, the helper it runs is there: no
\* compensation takes it away from under an unknown outcome.
HelperOutlivesDispatch == sent > 0 => remote.helper

\* "proof_ready" is never said of a relay that was not retired, and then
\* stands whatever is asked later.
ProofIsTrue == told = "proof_ready" => remote.retired /\ phase = "retirement_outcome_unknown"
=============================================================================
