-------------------------- MODULE MCHostOperations --------------------------
(***************************************************************************)
(* The deployment to a VPS, the remote retirement and the removal of an    *)
(* installation, for TLC.  The lifecycle lock lets one of them run at a    *)
(* time and they share no state, so one instance that starts with either   *)
(* of them says as much as three, and as much as their product.            *)
(***************************************************************************)
EXTENDS VpsDeployment, RetirementDispatch, Uninstall

VARIABLE operation

Init ==
  /\ operation \in {"deploy", "retire", "uninstall"}
  /\ DeployInit /\ RetireInit /\ UninstallInit

Next ==
  \/ /\ operation = "deploy" /\ DeployNext
     /\ UNCHANGED <<operation, retireVars, uninstallVars>>
  \/ /\ operation = "retire" /\ RetireNext
     /\ UNCHANGED <<operation, deployVars, uninstallVars>>
  \/ /\ operation = "uninstall" /\ UninstallNext
     /\ UNCHANGED <<operation, deployVars, retireVars>>

Spec == Init /\ [][Next]_<<operation, deployVars, retireVars, uninstallVars>>
=============================================================================
