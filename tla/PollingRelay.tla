---------------------------- MODULE PollingRelay ----------------------------
(***************************************************************************)
(* The v1 protocol that relay and Mac still carry: RelayService keeps a    *)
(* short list of numbered events in memory (relay_server.py), MacCompanion *)
(* polls it and gives each prompt to the desktop (companion.py), and the   *)
(* scheduler, a process of its own, puts due prompts through the same      *)
(* process_event (scheduler.py).  The old phone client and the desktop's   *)
(* REST adapter are external: the phone sends a delivery again whenever it *)
(* likes, and the adapter may time out having run the prompt or not.       *)
(***************************************************************************)
EXTENDS Naturals, FiniteSets

CONSTANTS
  Deliveries,    \* delivery ids the phone submits
  Tasks,         \* occurrences due in the minute the scheduler runs in
  MaxStored,     \* max_stored_events
  MaxPerPoll,    \* max_events_per_poll
  MaxIds,        \* bound: events one life of the relay numbers
  MaxFaults      \* bound: restarts, kills, timeouts and errors

ASSUME PollingAssumption ==
  /\ MaxStored \in Nat \ {0} /\ MaxPerPoll \in Nat \ {0}
  /\ MaxIds \in Nat /\ MaxFaults \in Nat
  /\ Deliveries \intersect Tasks = {}

VARIABLES
  events,     \* _events; their ids say which is older
  next,       \* _next_event_id
  online,     \* _presence
  mac,        \* the companion process: last_event_id, processed_delivery_ids, its batch
  saved,      \* its state file
  sched,      \* the scheduler process: what is left to do, delivered_ids
  delivered,  \* its state file
  ran,        \* history: how often the desktop ran each prompt
  unsure,     \* history: prompts that ran and of which no file or receipt says so
  fresh,      \* history: the companion's cursor belongs to this life of the relay
  handled,    \* history: ids of this life that the companion took up
  faults      \* so far

relayVars == <<events, next, online>>
macVars == <<mac, saved, fresh, handled>>
schedVars == <<sched, delivered>>
vars == <<relayVars, macVars, schedVars, ran, unsure, faults>>

-----------------------------------------------------------------------------
Prompts == Deliveries \union Tasks
Roles == {"mac", "mobile"}
Counterpart(role) == IF role = "mac" THEN "mobile" ELSE "mac"
None == "none"
NoAnswer == [d |-> None, is |-> None]

Off == [pc |-> "off", cursor |-> 0, done |-> {}, batch |-> {}, answer |-> NoAnswer, told |-> FALSE]
NoRun == [pc |-> "idle", todo |-> {}, ids |-> {}, answer |-> NoAnswer]

Fault == faults < MaxFaults /\ faults' = faults + 1

First(n, q) == {e \in q : Cardinality({f \in q : f.id < e.id}) < n}
Last(n, q) == {e \in q : Cardinality({f \in q : f.id > e.id}) < n}

\* _append_event_locked: the newest max_stored_events stay.
AppendEvent(to, type, d) ==
  /\ next <= MaxIds
  /\ events' = Last(MaxStored, events \union {[id |-> next, to |-> to, type |-> type, d |-> d]})
  /\ next' = next + 1

\* _events_for, cut to one poll.
For(role, since) == First(MaxPerPoll, {e \in events : e.to = role /\ e.id > since})

Init ==
  /\ events = {} /\ next = 1 /\ online = [r \in Roles |-> FALSE]
  /\ mac = Off /\ saved = [cursor |-> 0, done |-> {}]
  /\ fresh = TRUE /\ handled = {}
  /\ sched = NoRun /\ delivered = {}
  /\ ran = [p \in Prompts |-> 0] /\ unsure = {}
  /\ faults = 0

-----------------------------------------------------------------------------
(* The relay.                                                              *)

Joins(role) ==
  /\ AppendEvent(Counterpart(role), "presence", None)
  /\ online' = [online EXCEPT ![role] = TRUE]

\* _expire_presence_locked, which begins every submit and poll: with time
\* passing in between, any of the two may have expired by then.
Expires ==
  /\ \E role \in Roles :
       /\ online[role]
       /\ AppendEvent(Counterpart(role), "presence", None)
       /\ online' = [online EXCEPT ![role] = FALSE]
  /\ UNCHANGED <<macVars, schedVars, ran, unsure, faults>>

PhoneJoins ==
  /\ Joins("mobile")
  /\ UNCHANGED <<macVars, schedVars, ran, unsure, faults>>

\* submit: plaintext is refused while the other side is offline; the sender
\* counts as online either way.
Submit ==
  /\ \E d \in Deliveries, encrypted \in BOOLEAN :
       IF ~online["mac"] /\ ~encrypted
         THEN UNCHANGED <<events, next>>
         ELSE AppendEvent("mac", "submit", d)
  /\ online' = [online EXCEPT !["mobile"] = TRUE]
  /\ UNCHANGED <<macVars, schedVars, ran, unsure, faults>>

\* Nothing of the relay is on disk: ids begin again.
RelayRestarts ==
  /\ Fault
  /\ events' = {} /\ next' = 1 /\ online' = [r \in Roles |-> FALSE]
  /\ fresh' = (saved.cursor = 0 /\ mac.cursor = 0 /\ mac.batch = {})
  /\ handled' = {}
  /\ UNCHANGED <<mac, saved, schedVars, ran, unsure>>

-----------------------------------------------------------------------------
(* The companion: start, run_once, process_event.                          *)

Start ==
  /\ mac.pc = "off"
  /\ Joins("mac")
  /\ mac' = [Off EXCEPT !.pc = "idle", !.cursor = saved.cursor, !.done = saved.done]
  /\ UNCHANGED <<saved, schedVars, ran, unsure, fresh, handled, faults>>

Heartbeat == online' = [online EXCEPT !["mac"] = TRUE] /\ UNCHANGED <<events, next>>

\* Variant: the cursor passes a batch when it is polled.
PollAcknowledges ==
  /\ mac.pc = "idle"
  /\ LET batch == For("mac", mac.cursor) IN
     mac' = [mac EXCEPT !.batch = batch, !.told = FALSE,
                        !.cursor = IF batch = {} THEN @ ELSE (CHOOSE e \in batch : \A f \in batch : f.id <= e.id).id,
                        !.pc = IF batch # {} THEN "batch" ELSE "end"]
  /\ UNCHANGED <<relayVars, saved, schedVars, ran, unsure, fresh, handled, faults>>

Poll ==
  /\ mac.pc = "idle"
  /\ LET batch == For("mac", mac.cursor) IN
     mac' = [mac EXCEPT !.batch = batch, !.told = FALSE,
                        !.pc = IF batch # {} THEN "batch"
                               ELSE IF mac.cursor > 0 THEN "probe" ELSE "end"]
  /\ UNCHANGED <<relayVars, saved, schedVars, ran, unsure, fresh, handled, faults>>

\* Variant: with the cursor, the processed ids are given up.
ProbeForgets ==
  /\ mac.pc = "probe"
  /\ LET batch == For("mac", 0)
         reset == batch # {} /\ \A e \in batch : e.id < mac.cursor
     IN  IF reset
           THEN /\ mac' = [mac EXCEPT !.pc = "batch", !.cursor = 0, !.batch = batch, !.done = {}]
                /\ saved' = [cursor |-> 0, done |-> {}]
                /\ fresh' = TRUE
           ELSE mac' = [mac EXCEPT !.pc = "end"] /\ UNCHANGED <<saved, fresh>>
  /\ UNCHANGED <<relayVars, schedVars, ran, unsure, handled, faults>>

\* _recover_events_after_relay_reset: a relay whose first events are all
\* below the cursor has begun again.
Probe ==
  /\ mac.pc = "probe"
  /\ LET batch == For("mac", 0)
         reset == batch # {} /\ \A e \in batch : e.id < mac.cursor
     IN  IF reset
           THEN /\ mac' = [mac EXCEPT !.pc = "batch", !.cursor = 0, !.batch = batch]
                /\ saved' = [cursor |-> 0, done |-> mac.done]
                /\ fresh' = TRUE
           ELSE mac' = [mac EXCEPT !.pc = "end"] /\ UNCHANGED <<saved, fresh>>
  /\ UNCHANGED <<relayVars, schedVars, ran, unsure, handled, faults>>

\* Variant: a timeout counts as accepted.
OutcomeHopeful(p, answer) ==
  \/ /\ answer = "accepted" /\ ran' = [ran EXCEPT ![p] = @ + 1]
     /\ UNCHANGED <<unsure, faults>>
  \/ answer = "accepted" /\ Fault /\ UNCHANGED <<ran, unsure>>

\* What the desktop may do with a prompt: run it; fail; run it, or not, and
\* time out.
Outcome(p, answer) ==
  \/ /\ answer = "accepted" /\ ran' = [ran EXCEPT ![p] = @ + 1]
     /\ UNCHANGED <<unsure, faults>>
  \/ answer = "failed" /\ Fault /\ UNCHANGED <<ran, unsure>>
  \/ /\ answer = "failed" /\ Fault
     /\ ran' = [ran EXCEPT ![p] = @ + 1] /\ unsure' = unsure \union {p}

\* The next event of the batch, up to the desktop's answer.  The cursor moves
\* first; only what was accepted counts as processed.
Process ==
  /\ mac.pc = "batch"
  /\ \E e \in mac.batch :
     LET at == [mac EXCEPT !.cursor = IF e.id > @ THEN e.id ELSE @, !.batch = @ \ {e}]
     IN  /\ \A f \in mac.batch : e.id <= f.id
         /\ \/ /\ e.type # "submit"
               /\ mac' = at /\ UNCHANGED <<ran, unsure, faults>>
            \/ /\ e.type = "submit" /\ e.d \in mac.done
               /\ mac' = [at EXCEPT !.pc = "receipt", !.answer = [d |-> e.d, is |-> "duplicate"]]
               /\ UNCHANGED <<ran, unsure, faults>>
            \/ /\ e.type = "submit" /\ e.d \notin mac.done
               /\ \E answer \in {"accepted", "failed"} :
                    /\ Outcome(e.d, answer)
                    /\ mac' = [at EXCEPT !.pc = "receipt", !.answer = [d |-> e.d, is |-> answer],
                                         !.done = IF answer = "accepted" THEN @ \union {e.d} ELSE @]
         /\ handled' = IF fresh THEN handled \union {e.id} ELSE handled
  /\ UNCHANGED <<relayVars, saved, schedVars, fresh>>

\* _submit_to_mobile: plaintext, and a refusal is swallowed.
SendMobile(type, d) ==
  /\ \/ online["mobile"] /\ AppendEvent("mobile", type, d)
     \/ (~online["mobile"] \/ next > MaxIds) /\ UNCHANGED <<events, next>>
  /\ online' = [online EXCEPT !["mac"] = TRUE]

Receipt ==
  /\ mac.pc = "receipt"
  /\ SendMobile(mac.answer.is, mac.answer.d)
  /\ mac' = [mac EXCEPT !.pc = IF mac.answer.is = "accepted" THEN "snapshot" ELSE "batch",
                        !.answer = NoAnswer, !.told = TRUE]
  /\ UNCHANGED <<saved, schedVars, ran, unsure, fresh, handled, faults>>

\* publish_snapshot_if_changed, forced after an accepted prompt.
Snapshot ==
  /\ mac.pc = "snapshot"
  /\ SendMobile("snapshot", None)
  /\ mac' = [mac EXCEPT !.pc = "batch"]
  /\ UNCHANGED <<saved, schedVars, ran, unsure, fresh, handled, faults>>

\* An error that is no CompanionError leaves run_once; run_forever polls on
\* with what is in memory, and the batch is not saved.
LoopError ==
  /\ mac.pc \in {"receipt", "snapshot"} /\ Fault
  /\ mac' = [mac EXCEPT !.pc = "idle", !.answer = NoAnswer, !.batch = {}]
  /\ UNCHANGED <<relayVars, saved, schedVars, ran, unsure, fresh, handled>>

\* The state is saved once per batch.
EndBatch ==
  /\ mac.pc = "batch" /\ mac.batch = {}
  /\ saved' = [cursor |-> mac.cursor, done |-> mac.done]
  /\ mac' = [mac EXCEPT !.pc = IF mac.told THEN "idle" ELSE "end"]
  /\ UNCHANGED <<relayVars, schedVars, ran, unsure, fresh, handled, faults>>

\* Without a receipt in this round: a heartbeat, and a snapshot if the
\* desktop shows something else than the last time.
EndRound ==
  /\ mac.pc = "end"
  /\ Heartbeat \/ SendMobile("snapshot", None)
  /\ mac' = [mac EXCEPT !.pc = "idle"]
  /\ UNCHANGED <<saved, schedVars, ran, unsure, fresh, handled, faults>>

Killed ==
  /\ mac.pc # "off" /\ Fault
  /\ mac' = Off
  /\ unsure' = unsure \union (mac.done \ saved.done)
  /\ UNCHANGED <<relayVars, saved, schedVars, ran, fresh, handled>>

-----------------------------------------------------------------------------
(* The scheduler: one process, run once or more in the minute.             *)

RunDue ==
  /\ sched.pc = "idle"
  /\ sched' = [NoRun EXCEPT !.pc = "run", !.todo = Tasks \ delivered, !.ids = delivered]
  /\ UNCHANGED <<relayVars, macVars, delivered, ran, unsure, faults>>

\* Whatever becomes of a prompt, its id counts as delivered.
RunTask ==
  /\ sched.pc = "run"
  /\ \E t \in sched.todo, answer \in {"accepted", "failed"} :
       /\ Outcome(t, answer)
       /\ sched' = [sched EXCEPT !.pc = "receipt", !.todo = @ \ {t}, !.ids = @ \union {t},
                                 !.answer = [d |-> t, is |-> answer]]
  /\ UNCHANGED <<relayVars, macVars, delivered>>

TaskReceipt ==
  /\ sched.pc = "receipt"
  /\ SendMobile(sched.answer.is, sched.answer.d)
  /\ sched' = [sched EXCEPT !.pc = "run", !.answer = NoAnswer]
  /\ UNCHANGED <<macVars, delivered, ran, unsure, faults>>

\* main saves once, at the end.
SaveDelivered ==
  /\ sched.pc = "run" /\ sched.todo = {}
  /\ delivered' = sched.ids
  /\ sched' = NoRun
  /\ UNCHANGED <<relayVars, macVars, ran, unsure, faults>>

SchedulerKilled ==
  /\ sched.pc # "idle" /\ Fault
  /\ sched' = NoRun
  /\ unsure' = unsure \union {t \in sched.ids \ delivered : ran[t] > 0}
  /\ UNCHANGED <<relayVars, macVars, delivered, ran>>

Next ==
  \/ Expires \/ PhoneJoins \/ Submit \/ RelayRestarts
  \/ Start \/ Poll \/ Probe \/ Process \/ Receipt \/ Snapshot \/ LoopError \/ EndBatch
  \/ EndRound \/ Killed
  \/ RunDue \/ RunTask \/ TaskReceipt \/ SaveDelivered \/ SchedulerKilled

Spec == Init /\ [][Next]_vars

-----------------------------------------------------------------------------
Answer == [d : Prompts, is : {"accepted", "failed", "duplicate"}] \union {NoAnswer}
Event == [id : 1..MaxIds, to : Roles, d : Prompts \union {None},
          type : {"presence", "submit", "snapshot", "accepted", "failed", "duplicate"}]

TypeOK ==
  /\ events \subseteq Event /\ next \in 1..(MaxIds + 1) /\ online \in [Roles -> BOOLEAN]
  /\ mac \in [pc : {"off", "idle", "probe", "batch", "receipt", "snapshot", "end"}, cursor : 0..MaxIds,
              done : SUBSET Deliveries, batch : SUBSET Event, answer : Answer, told : BOOLEAN]
  /\ saved \in [cursor : 0..MaxIds, done : SUBSET Deliveries]
  /\ sched \in [pc : {"idle", "run", "receipt"}, todo : SUBSET Tasks, ids : SUBSET Tasks,
                answer : Answer]
  /\ delivered \subseteq Tasks
  /\ ran \in [Prompts -> Nat] /\ unsure \subseteq Prompts
  /\ fresh \in BOOLEAN /\ handled \subseteq 1..MaxIds /\ faults \in 0..MaxFaults

\* A prompt runs on the desktop once, however often the phone sends it, the
\* relay restarts and numbers it anew, or the scheduler is started in the
\* same minute - unless a timeout or a kill hid that it had run.
RunsOnce == \A p \in Prompts : ran[p] > 1 => p \in unsure

\* A receipt tells what happened.  "accepted" and "duplicate" stand: the
\* prompt ran.  "failed", when it is said, means that it did not, unless the
\* desktop timed out or a kill came between; a later attempt may still run it.
ReceiptsTell ==
  LET Stands(type, d) == type \in {"accepted", "duplicate"} => ran[d] > 0 IN
  /\ \A e \in events : Stands(e.type, e.d)
  /\ \A a \in {mac.answer, sched.answer} :
       Stands(a.is, a.d) /\ (a.is = "failed" => ran[a.d] = 0 \/ a.d \in unsure)

\* The companion passes over no prompt that the relay holds: whatever it has
\* at or below the cursor was taken up, over kills, errors in the middle of a
\* batch, trimming, and a recovery from the relay's restart.
NonePassedOver ==
  fresh => \A e \in events : e.type = "submit" /\ e.id <= mac.cursor => e.id \in handled
=============================================================================
