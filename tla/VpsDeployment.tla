--------------------------- MODULE VpsDeployment ---------------------------
(***************************************************************************)
(* The compatibility-window deployment of a relay to the user's own VPS    *)
(* (vps.py): VpsDeploymentPlanner admits a host, and VpsSagaExecutor takes *)
(* it from the previous release to the staged one, step by step, with a    *)
(* journal that outlives the process.  The adapter that touches the host   *)
(* is injected: what a step does there is modelled from its name and from  *)
(* what the executor relies on, and any call of it may raise having done   *)
(* its work or not.                                                        *)
(***************************************************************************)
EXTENDS Naturals, Sequences

CONSTANT MaxStops    \* bound: how many times the process is killed

ASSUME StopsAssumption == MaxStops \in Nat

VARIABLES
  admitted,  \* the planner returned a plan in state "prepared"
  saga,      \* <operation>.vps-saga.json: phase, completed_steps, completed_compensations
  exec,      \* the running execute(): where it is and, undoing, what is left
  vps,       \* the host: staged release, serving release, the Mac's profile, previous release
  stops,     \* kills so far
  torn       \* history: a kill cut a compensation, or a retirement, in two

deployVars == <<admitted, saga, exec, vps, stops, torn>>

-----------------------------------------------------------------------------
Forward == <<"deploy", "activate", "switch", "retire">>

Compensations ==
  [activate |-> {"stop_staged", "restore_previous"}, deploy |-> {"remove_staged"},
   switch |-> {"restore_mac"}, retire |-> {}]

\* The order of the undoing: the last step first, a step's own in its order.
Rank == [restore_mac |-> 1, stop_staged |-> 2, restore_previous |-> 3, remove_staged |-> 4]

Actions == DOMAIN Rank

\* What undoing the first n forward steps has left to do: the compensations
\* the journal holds as completed are skipped.
Todo(n, undone) == UNION {Compensations[Forward[i]] : i \in 1..n} \ undone

\* What a step or a compensation does to the host when it takes effect.
Effect(a, h) ==
  CASE a = "deploy"           -> [h EXCEPT !.staged = TRUE]
    [] a = "activate"         -> [h EXCEPT !.serving = "staged"]
    [] a = "switch"           -> [h EXCEPT !.mac = "staged"]
    [] a = "retire"           -> [h EXCEPT !.previous = FALSE]
    [] a = "stop_staged"      -> [h EXCEPT !.serving = IF @ = "staged" THEN "none" ELSE @]
    [] a = "restore_previous" -> [h EXCEPT !.serving = "previous"]
    [] a = "remove_staged"    -> [h EXCEPT !.staged = FALSE]
    [] a = "restore_mac"      -> [h EXCEPT !.mac = "previous"]

\* A release can only be started where its files are.
Possible(a, h) ==
  /\ a = "activate" => h.staged
  /\ a = "restore_previous" => h.previous

\* What a call that raised may have left behind.
Landed(a, h) == {h} \union {g \in {Effect(a, h)} : Possible(a, h)}

Terminal == {"ready", "rolled_back", "recovery_required"}
Idle == [pc |-> "idle", todo |-> {}, failed |-> FALSE]
Step == Forward[saga.steps + 1]

\* _compensate begins, for the first n forward steps.
Undoing(n) == [pc |-> "undo", todo |-> Todo(n, saga.undone), failed |-> FALSE]

-----------------------------------------------------------------------------
DeployInit ==
  /\ admitted = FALSE
  /\ saga = [phase |-> "prepared", steps |-> 0, undone |-> {}]
  /\ exec = Idle
  /\ vps = [staged |-> FALSE, serving |-> "previous", mac |-> "previous", previous |-> TRUE]
  /\ stops = 0 /\ torn = FALSE

\* VpsDeploymentPlanner.plan: a gate for each fact the user still has to
\* settle, in this order, and a plan once none is left.
Gate(facts) ==
  CASE ~facts.hostKeyConfirmed -> "vps_host_key_confirmation_required"
    [] facts.hostKeyConfirmed /\ ~facts.supported -> "unsupported_vps_profile"
    [] facts.hostKeyConfirmed /\ facts.supported /\ ~facts.storage
         -> "insufficient_vps_storage"
    [] facts.hostKeyConfirmed /\ facts.supported /\ facts.storage /\ ~facts.tls
         -> "vps_tls_required"
    [] OTHER -> "prepared"

Plan ==
  /\ ~admitted
  /\ \E facts \in [{"hostKeyConfirmed", "supported", "storage", "tls"} -> BOOLEAN] :
       admitted' = (Gate(facts) = "prepared")
  /\ UNCHANGED <<saga, exec, vps, stops, torn>>

\* execute: the terminal phases are answered from the journal.
Execute ==
  /\ admitted /\ exec.pc = "idle" /\ saga.phase \notin Terminal
  /\ exec' = [exec EXCEPT !.pc = IF saga.steps < 3 THEN "before" ELSE "verify"]
  /\ UNCHANGED <<admitted, saga, vps, stops, torn>>

\* _checkpoint("before_<step>"), also that of the retirement.
Before ==
  /\ exec.pc = "before"
  /\ saga' = [saga EXCEPT !.phase = "before"]
  /\ exec' = [exec EXCEPT !.pc = "perform"]
  /\ UNCHANGED <<admitted, vps, stops, torn>>

Perform ==
  /\ exec.pc = "perform" /\ Possible(Step, vps)
  /\ vps' = Effect(Step, vps)
  /\ exec' = [exec EXCEPT !.pc = "after"]
  /\ UNCHANGED <<admitted, saga, stops, torn>>

\* Variant: a step that raised counts as one that did nothing.
PerformRaisesUndone ==
  /\ exec.pc = "perform" /\ Step # "retire"
  /\ vps' \in Landed(Step, vps)
  /\ exec' = Undoing(saga.steps)
  /\ UNCHANGED <<admitted, saga, stops, torn>>

\* The step raises, its effect landed or not.  A step before the retirement
\* is compensated with those completed; the retirement is left as it is.
PerformRaises ==
  /\ exec.pc = "perform"
  /\ vps' \in Landed(Step, vps)
  /\ \/ /\ Step = "retire"
        /\ saga' = [saga EXCEPT !.phase = "recovery_required"]
        /\ exec' = Idle
     \/ Step # "retire" /\ exec' = Undoing(saga.steps + 1) /\ UNCHANGED saga
  /\ UNCHANGED <<admitted, stops, torn>>

\* _checkpoint("after_<step>") saves completed_steps with the phase.
After ==
  /\ exec.pc = "after"
  /\ saga' = [saga EXCEPT !.phase = "after", !.steps = @ + 1]
  /\ exec' = [exec EXCEPT !.pc = CASE saga.steps + 1 < 3 -> "before"
                                   [] saga.steps + 1 = 3 -> "verify"
                                   [] OTHER              -> "finish"]
  /\ UNCHANGED <<admitted, vps, stops, torn>>

\* The four required checks probe the staged relay; the fifth asks whether
\* the phones have moved to its protocol.
Verify ==
  /\ exec.pc = "verify"
  /\ \E passed \in {p \in BOOLEAN : p => vps.serving = "staged"}, converged \in BOOLEAN :
       \/ /\ ~passed
          /\ exec' = Undoing(saga.steps)
          /\ UNCHANGED saga
       \/ /\ passed /\ ~converged
          /\ saga' = [saga EXCEPT !.phase = "awaiting_mobile_convergence"]
          /\ exec' = Idle
       \/ /\ passed /\ converged
          /\ exec' = [exec EXCEPT !.pc = IF saga.steps = 3 THEN "before" ELSE "finish"]
          /\ UNCHANGED saga
  /\ UNCHANGED <<admitted, vps, stops, torn>>

Finish ==
  /\ exec.pc = "finish"
  /\ saga' = [saga EXCEPT !.phase = "ready"]
  /\ exec' = Idle
  /\ UNCHANGED <<admitted, vps, stops, torn>>

-----------------------------------------------------------------------------
(* _compensate.                                                            *)

IsNext(a) == a \in exec.todo /\ \A b \in exec.todo : Rank[a] <= Rank[b]

Undo ==
  /\ exec.pc = "undo"
  /\ \E a \in exec.todo :
       /\ IsNext(a) /\ Possible(a, vps)
       /\ vps' = Effect(a, vps)
       /\ saga' = [saga EXCEPT !.undone = @ \union {a}]
       /\ exec' = [exec EXCEPT !.todo = @ \ {a}]
  /\ UNCHANGED <<admitted, stops, torn>>

\* A compensation that raises is remembered and the next one is tried.
UndoRaises ==
  /\ exec.pc = "undo"
  /\ \E a \in exec.todo :
       /\ IsNext(a)
       /\ vps' \in Landed(a, vps)
       /\ exec' = [exec EXCEPT !.todo = @ \ {a}, !.failed = TRUE]
  /\ UNCHANGED <<admitted, saga, stops, torn>>

UndoEnds ==
  /\ exec.pc = "undo" /\ exec.todo = {}
  /\ saga' = [saga EXCEPT !.phase = IF exec.failed THEN "recovery_required" ELSE "rolled_back"]
  /\ exec' = Idle
  /\ UNCHANGED <<admitted, vps, stops, torn>>

\* The process is killed; or verify, or a save, raises out of execute (where
\* a save raises inside the try, _compensate's own saves would raise next).
\* Nothing in the journal says that a compensation had begun.
Stop ==
  /\ exec.pc # "idle" /\ stops < MaxStops
  /\ exec' = Idle
  /\ stops' = stops + 1
  /\ \/ /\ torn' = (torn \/ ~vps.previous
                         \/ (exec.pc = "undo" /\ (exec.failed \/ saga.undone # {})))
        /\ UNCHANGED vps
     \/ /\ exec.pc = "undo" /\ torn' = TRUE   \* between a compensation and its save
        /\ \E a \in exec.todo : IsNext(a) /\ vps' \in Landed(a, vps) \ {vps}
  /\ UNCHANGED <<admitted, saga>>

DeployNext ==
  \/ Plan \/ Execute \/ Before \/ Perform \/ PerformRaises
  \/ After \/ Verify \/ Finish \/ Undo \/ UndoRaises \/ UndoEnds \/ Stop

DeploySpec == DeployInit /\ [][DeployNext]_deployVars

-----------------------------------------------------------------------------
DeployTypeOK ==
  /\ admitted \in BOOLEAN /\ torn \in BOOLEAN
  /\ stops \in 0..MaxStops
  /\ saga \in [phase : Terminal \union {"prepared", "before", "after", "awaiting_mobile_convergence"},
               steps : 0..4, undone : SUBSET Actions]
  /\ exec \in [pc : {"idle", "before", "perform", "after", "verify", "finish", "undo"},
               todo : SUBSET Actions, failed : BOOLEAN]
  /\ vps \in [staged : BOOLEAN, serving : {"previous", "staged", "none"},
              mac : {"previous", "staged"}, previous : BOOLEAN]

\* A settled operation is whole: "ready" means that the staged relay serves
\* and the Mac uses it; "rolled_back" that everything is as before, and the
\* staged release is gone.  A kill at a step of the way forward changes
\* nothing of that; one in the middle of a compensation does (torn).
SettledIsWhole ==
  ~torn =>
    /\ saga.phase = "ready" =>
         vps = [staged |-> TRUE, serving |-> "staged", mac |-> "staged", previous |-> FALSE]
    /\ saga.phase = "rolled_back" =>
         vps = [staged |-> FALSE, serving |-> "previous", mac |-> "previous", previous |-> TRUE]

\* The host is never left without a release it could start, whatever fails
\* or raises and in whichever order the compensations end.
ARelayIsLeft == ~torn => vps.staged \/ vps.previous
=============================================================================
