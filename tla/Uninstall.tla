----------------------------- MODULE Uninstall -----------------------------
(***************************************************************************)
(* The removal of an installation: OwnershipUninstaller (uninstall.py)     *)
(* with the callbacks cli.py gives it - CredentialRevocationService        *)
(* (credentials.py) over the relay's HTTP interface, and                   *)
(* stop_owned_services (launchd.py).  It runs under the lifecycle lock;    *)
(* phones and the user do not.  The ownership receipt names what may be    *)
(* removed and the digest each thing had.                                  *)
(***************************************************************************)
EXTENDS Naturals

CONSTANTS
  Phones,        \* phones of the installation
  MaxMishaps     \* bound: kills, failing steps, edits and late pairings

ASSUME UninstallAssumption == MaxMishaps \in Nat

VARIABLES
  files,     \* every resource of the receipt: "intact", "edited" or "absent"
  veto,      \* the plugin folder is one that Obsidian looks after
  active,    \* phones with an active credential at the relay
  key,       \* the admin key and the other references are in the keychain
  running,   \* the relay and the companion run
  receipt,   \* ownership.json: "installed" or "uninstalled"
  un,        \* the running uninstall: where it is, what it listed, what is left to remove
  outcome,      \* its last outcome
  late,      \* history: what was edited since the last preflight, who paired late
  lost,      \* history: edited resources the current uninstall removed
  mishaps    \* so far

uninstallVars ==
  <<files, veto, active, key, running, receipt, un, outcome, late, lost, mishaps>>

-----------------------------------------------------------------------------
\* One resource for each kind the receipt treats differently.
Resources == {"release", "store", "agents", "config", "shipped", "plugin"}
PluginResources == {"shipped", "plugin"}

\* A directory's digest covers what is in it, so what is in it is removed first.
Contents(r) == CASE r = "store" -> {"release"} [] r = "plugin" -> {"shipped"} [] OTHER -> {}

Present(r) == files[r] # "absent"
Edited == {r \in Resources : files[r] = "edited"}

\* tree_digest equals the receipt's; the plugin folder carries none.
Unchanged(r) ==
  r = "plugin" \/ (files[r] = "intact" /\ \A c \in Contents(r) : files[c] = "intact")

\* preflight: what is there and not left to Obsidian.
Checked == {r \in Resources : Present(r) /\ (veto => r \notin PluginResources)}

NotRunning == [pc |-> "idle", purge |-> FALSE, listed |-> {}, todo |-> {}]

Mishap == mishaps < MaxMishaps /\ mishaps' = mishaps + 1

UninstallInit ==
  /\ files = [r \in Resources |-> "intact"]
  /\ veto \in BOOLEAN
  /\ active = Phones /\ key = TRUE /\ running = TRUE
  /\ receipt = "installed" /\ un = NotRunning /\ outcome = "none"
  /\ late = [edits |-> {}, phones |-> {}] /\ lost = {}
  /\ mishaps = 0

\* An outcome leaves uninstall(), or purge() around it.
Outcome(code) == outcome' = code /\ un' = NotRunning

Goto(pc) == un' = [un EXCEPT !.pc = pc] /\ UNCHANGED outcome

-----------------------------------------------------------------------------
\* uninstall, or purge once confirmed: preflight answers at once where the
\* receipt says "uninstalled" and where anything owned was changed.
Begin ==
  /\ un.pc = "idle"
  /\ \E purge \in BOOLEAN :
       \/ /\ receipt = "uninstalled" /\ purge
          /\ un' = [NotRunning EXCEPT !.pc = "purge"] /\ UNCHANGED <<outcome, late, lost>>
       \/ /\ receipt = "installed" /\ \E r \in Checked : ~Unchanged(r)
          /\ Outcome("owned_resource_modified") /\ UNCHANGED <<late, lost>>
       \/ /\ receipt = "installed" /\ \A r \in Checked : Unchanged(r)
          /\ un' = [pc |-> "list", purge |-> purge, listed |-> {}, todo |-> Checked]
          /\ late' = [late EXCEPT !.edits = {}] /\ lost' = {}
          /\ UNCHANGED outcome
  /\ UNCHANGED <<files, veto, active, key, running, receipt, mishaps>>

\* relay_request needs the key, the configuration that names it, and a relay.
RelayAnswers == key /\ running /\ Present("config")

\* revoke_all: list, revoke each, list again; then the references go.
List ==
  /\ un.pc = "list" /\ RelayAnswers
  /\ un' = [un EXCEPT !.pc = "revoke", !.listed = active]
  /\ UNCHANGED <<files, veto, active, key, running, receipt, outcome, late, lost, mishaps>>

Revoke ==
  /\ un.pc = "revoke" /\ un.listed # {} /\ RelayAnswers
  /\ \E p \in un.listed :
       /\ active' = active \ {p}
       /\ un' = [un EXCEPT !.listed = @ \ {p}]
  /\ UNCHANGED <<files, veto, key, running, receipt, outcome, late, lost, mishaps>>

\* Variant: what is left active is not looked at.
ListAgainTrusting ==
  /\ un.pc = "revoke" /\ un.listed = {} /\ RelayAnswers
  /\ Goto("forget") /\ late' = [late EXCEPT !.phones = {}]
  /\ UNCHANGED <<files, veto, active, key, running, receipt, lost, mishaps>>

ListAgain ==
  /\ un.pc = "revoke" /\ un.listed = {} /\ RelayAnswers
  /\ \/ active = {} /\ Goto("forget") /\ late' = [late EXCEPT !.phones = {}]
     \/ active # {} /\ Outcome("uninstall_precondition_incomplete") /\ UNCHANGED late
  /\ UNCHANGED <<files, veto, active, key, running, receipt, lost, mishaps>>

Forget ==
  /\ un.pc = "forget" /\ Present("config")
  /\ key' = FALSE
  /\ Goto("stop")
  /\ UNCHANGED <<files, veto, active, running, receipt, late, lost, mishaps>>

\* remove_local_agents boots the agents out and deletes their definitions.
StopServices ==
  /\ un.pc = "stop"
  /\ running' = FALSE
  /\ files' = [files EXCEPT !["agents"] = "absent"]
  /\ lost' = lost \union ({"agents"} \intersect Edited)
  /\ Goto("remove")
  /\ UNCHANGED <<veto, active, key, receipt, late, mishaps>>

\* Any of these steps raises: the relay is not there to answer, refuses, or
\* fails; the keychain does; an agent does not stop.
PreconditionFails ==
  /\ un.pc \in {"list", "revoke", "forget", "stop"}
  /\ \/ un.pc \in {"list", "revoke"} /\ ~RelayAnswers /\ UNCHANGED <<mishaps, running, key>>
     \/ un.pc = "forget" /\ ~Present("config") /\ UNCHANGED <<mishaps, running, key>>
     \/ un.pc \in {"list", "revoke"} /\ Mishap /\ UNCHANGED <<running, key>>
     \/ un.pc = "forget" /\ Mishap /\ key' \in BOOLEAN /\ (key' => key) /\ UNCHANGED running
     \/ un.pc = "stop" /\ Mishap /\ running' \in {running, FALSE} /\ UNCHANGED key
  /\ Outcome("uninstall_precondition_incomplete")
  /\ UNCHANGED <<files, veto, active, receipt, late, lost>>

\* Variant: a directory goes whatever its removal policy says.
GoesWhole(r) == {r} \union Contents(r)

\* What goes when r is removed: a directory goes with its contents, except
\* the plugin folder, which goes only when nothing is left in it.
Goes(r) ==
  CASE r = "plugin" -> {x \in {"plugin"} : ~Present("shipped") /\ files["plugin"] # "edited"}
    [] OTHER        -> {r} \union Contents(r)

\* One resource, deepest first; the veto is asked again for each.
Remove ==
  /\ un.pc = "remove"
  /\ \E r \in un.todo :
       LET gone == IF veto /\ r \in PluginResources THEN {} ELSE Goes(r) IN
       /\ Contents(r) \intersect un.todo = {}
       /\ files' = [x \in Resources |-> IF x \in gone THEN "absent" ELSE files[x]]
       /\ lost' = lost \union (gone \intersect Edited)
       /\ un' = [un EXCEPT !.todo = @ \ {r}]
  /\ UNCHANGED <<veto, active, key, running, receipt, outcome, late, mishaps>>

\* unlink or rmtree raises out of uninstall, a tree perhaps half removed.
RemoveRaises ==
  /\ un.pc = "remove" /\ Mishap
  /\ \E r \in un.todo :
       /\ Contents(r) \intersect un.todo = {}
       /\ files' \in {files} \union
            {[files EXCEPT ![x] = "edited"] : x \in {y \in {r} \ PluginResources : Present(y)}}
  /\ Outcome("error")
  /\ UNCHANGED <<veto, active, key, running, receipt, late, lost>>

MarkUninstalled ==
  /\ un.pc = "remove" /\ un.todo = {}
  /\ receipt' = "uninstalled"
  /\ IF un.purge THEN Goto("purge") ELSE Outcome("uninstall_completed")
  /\ UNCHANGED <<files, veto, active, key, running, late, lost, mishaps>>

\* purge removes the managed base directory and all that is still under it.
Purge ==
  /\ un.pc = "purge"
  /\ \/ /\ files' = [r \in Resources |-> IF r \in {"release", "store", "config"} THEN "absent" ELSE files[r]]
        /\ Outcome("purge_completed") /\ UNCHANGED mishaps
     \/ Outcome("purge_incomplete") /\ Mishap /\ UNCHANGED files
  /\ UNCHANGED <<veto, active, key, running, receipt, late, lost>>

-----------------------------------------------------------------------------
Killed ==
  /\ un.pc # "idle" /\ Mishap
  /\ Outcome("none")
  /\ UNCHANGED <<files, veto, active, key, running, receipt, late, lost>>

\* The user changes something that is there; or puts it back as it was.
Edit ==
  /\ Mishap
  /\ \E r \in Resources :
       /\ Present(r)
       /\ files' = [files EXCEPT ![r] = IF @ = "intact" THEN "edited" ELSE "intact"]
       /\ late' = [late EXCEPT !.edits = @ \union {r}]
  /\ UNCHANGED <<veto, active, key, running, receipt, un, outcome, lost>>

\* The plugin comes from Obsidian's directory from now on.
ObsidianInstalls ==
  /\ ~veto /\ Mishap
  /\ veto' = TRUE
  /\ files' = [files EXCEPT !["shipped"] = "edited", !["plugin"] = "intact"]
  /\ late' = [late EXCEPT !.edits = @ \union {"shipped"}]
  /\ UNCHANGED <<active, key, running, receipt, un, outcome, lost>>

\* A claim approved before is redeemed while the relay still runs.
PairsLate ==
  /\ running /\ Mishap
  /\ \E p \in Phones \ active :
       /\ active' = active \union {p}
       /\ late' = [late EXCEPT !.phones = @ \union {p}]
  /\ UNCHANGED <<files, veto, key, running, receipt, un, outcome, lost>>

UninstallNext ==
  \/ Begin \/ List \/ Revoke \/ ListAgain \/ Forget \/ StopServices
  \/ PreconditionFails \/ Remove \/ RemoveRaises \/ MarkUninstalled \/ Purge
  \/ Killed \/ Edit \/ ObsidianInstalls \/ PairsLate

UninstallSpec == UninstallInit /\ [][UninstallNext]_uninstallVars

-----------------------------------------------------------------------------
UninstallTypeOK ==
  /\ files \in [Resources -> {"intact", "edited", "absent"}]
  /\ veto \in BOOLEAN /\ key \in BOOLEAN /\ running \in BOOLEAN
  /\ active \subseteq Phones
  /\ receipt \in {"installed", "uninstalled"}
  /\ un \in [pc : {"idle", "list", "revoke", "forget", "stop", "remove", "purge"},
             purge : BOOLEAN, listed : SUBSET Phones, todo : SUBSET Resources]
  /\ outcome \in {"none", "error", "owned_resource_modified", "uninstall_precondition_incomplete",
               "uninstall_completed", "purge_completed", "purge_incomplete"}
  /\ late \in [edits : SUBSET Resources, phones : SUBSET Phones]
  /\ lost \subseteq Resources
  /\ mishaps \in 0..MaxMishaps

\* What the user changed before an uninstall looked at it is never removed
\* by that uninstall, and a plugin that Obsidian looks after is never
\* removed: not by a retry either, after any kill or failure.
KeepsWhatItDoesNotOwn ==
  /\ lost \subseteq late.edits
  /\ veto => Present("shipped")

\* A receipt that says "uninstalled" is believed by the next installation:
\* nothing runs, nothing owned is left, the keys are gone, and no phone has a
\* credential but one that paired after the second listing.
UninstalledIsClean ==
  receipt = "uninstalled" =>
    /\ ~running /\ ~key
    /\ active \subseteq late.phones
    /\ \A r \in Resources \ PluginResources : ~Present(r)
    /\ Present("shipped") => veto
=============================================================================
