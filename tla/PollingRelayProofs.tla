------------------------- MODULE PollingRelayProofs -------------------------
(***************************************************************************)
(* Theorems about the v1 relay, its companion and its scheduler, for any   *)
(* deliveries and tasks, any limits of the store and of a poll, and any    *)
(* number of restarts, kills and timeouts.                                 *)
(***************************************************************************)
EXTENDS PollingRelay, FiniteSetTheorems, TLAPS

\* The prompts a process counts as done: in memory while it runs, else in
\* its file.
MacDone == IF mac.pc = "off" THEN saved.done ELSE mac.done
SchedDone == IF sched.pc = "idle" THEN delivered ELSE sched.ids

\* What is in memory is what was loaded, and what was done since.
Loaded ==
  /\ mac.pc = "off" => mac = Off
  /\ saved.done \subseteq MacDone
  /\ sched.pc = "idle" => sched = NoRun
  /\ delivered \subseteq SchedDone
  /\ sched.todo \intersect sched.ids = {}

\* A prompt from the phone goes to the companion; a receipt names a prompt.
Submitted ==
  \A e \in events \union mac.batch :
    /\ e.type = "submit" => e.d \in Deliveries /\ e.to = "mac"
    /\ e.type \in {"accepted", "failed", "duplicate"} => e.d \in Prompts

\* The desktop's answer, while its receipt is to be sent.
Replies(P) == [d : P, is : {"accepted", "failed", "duplicate"}]
Answered ==
  /\ mac.answer \in IF mac.pc = "receipt" THEN Replies(Deliveries) ELSE {NoAnswer}
  /\ sched.answer \in IF sched.pc = "receipt" THEN Replies(Tasks) ELSE {NoAnswer}

TypeInv == TypeOK /\ Submitted /\ Answered

\* One that ran is on the record of the process it was given to, or nobody
\* can know that it ran.
Recorded ==
  /\ \A p \in Prompts \ unsure : ran[p] <= 1
  /\ \A p \in Prompts \ unsure : ran[p] > 0 => p \in MacDone \union SchedDone
  /\ \A p \in MacDone : ran[p] > 0

PromptInv == TypeInv /\ Loaded /\ Recorded /\ ReceiptsTell

\* The numbers of this life of the relay.
Numbered ==
  /\ \A e \in events : e.id < next
  /\ fresh =>
       /\ mac.cursor < next /\ saved.cursor < next
       /\ \A e \in mac.batch : e.id < next

\* A poll leaves out nothing older than what it brings.
Contiguous ==
  fresh => \A e \in mac.batch, f \in events :
             f.to = "mac" /\ mac.cursor < f.id /\ f.id < e.id => f \in mac.batch

SavedPassedOver ==
  fresh => \A e \in events : e.type = "submit" /\ e.id <= saved.cursor => e.id \in handled

CursorInv == TypeInv /\ IsFiniteSet(events) /\ Numbered /\ Contiguous /\ SavedPassedOver /\ NonePassedOver

-----------------------------------------------------------------------------
(* The store.                                                              *)

\* What a poll or the trimming picks, it picks from what is there.
LEMMA PicksFrom ==
  ASSUME NEW n, NEW q
  PROVE  First(n, q) \subseteq q /\ Last(n, q) \subseteq q
BY DEF First, Last

\* The first n come without a gap.
LEMMA FirstHasNoGap ==
  ASSUME NEW n \in Nat, NEW q, IsFiniteSet(q), \A e \in q : e.id \in Nat,
         NEW e \in First(n, q), NEW f \in q, f.id < e.id
  PROVE  f \in First(n, q)
<1> DEFINE Below(g) == {h \in q : h.id < g.id}
<1>1. Below(f) \subseteq Below(e) /\ Below(e) \subseteq q
  BY DEF First
<1>2. IsFiniteSet(Below(e)) /\ IsFiniteSet(Below(f))
  BY <1>1, FS_Subset
<1>3. Cardinality(Below(f)) <= Cardinality(Below(e)) /\ Cardinality(Below(e)) \in Nat
      /\ Cardinality(Below(f)) \in Nat
  BY <1>1, <1>2, FS_Subset, FS_CardinalityType
<1>4. Cardinality(Below(e)) < n
  BY DEF First
<1> QED BY <1>3, <1>4 DEF First

\* What a new event does to the store.
LEMMA AppendKeeps ==
  ASSUME NEW to, NEW type, NEW d, AppendEvent(to, type, d)
  PROVE  /\ next <= MaxIds /\ next' = next + 1
         /\ events' \subseteq events \union {[id |-> next, to |-> to, type |-> type, d |-> d]}
BY PicksFrom DEF AppendEvent

\* _submit_to_mobile adds one event for the phone, or none.
LEMMA SendKeeps ==
  ASSUME NEW type, NEW d, SendMobile(type, d)
  PROVE  \/ UNCHANGED <<events, next>>
         \/ /\ next <= MaxIds /\ next' = next + 1
            /\ events' \subseteq events \union {[id |-> next, to |-> "mobile", type |-> type, d |-> d]}
BY AppendKeeps DEF SendMobile

-----------------------------------------------------------------------------
(* Types.                                                                  *)

EventTypes == {"presence", "submit", "snapshot", "accepted", "failed", "duplicate"}

RelayTypeOK == events \subseteq Event /\ next \in 1..(MaxIds + 1) /\ online \in [Roles -> BOOLEAN]

\* What _append does to the file: at most one event more, numbered next.
LEMMA AppendType ==
  ASSUME TypeOK, NEW to \in Roles, NEW type \in EventTypes, NEW d \in Prompts \union {None},
         AppendEvent(to, type, d)
  PROVE  events' \subseteq Event /\ next' \in 1..(MaxIds + 1)
<1>1. [id |-> next, to |-> to, type |-> type, d |-> d] \in Event
  BY AppendKeeps, PollingAssumption DEF TypeOK, Event, EventTypes
<1> QED BY <1>1, AppendKeeps, PollingAssumption DEF TypeOK

\* What _send_to_mobile leaves has its type.
LEMMA SendType ==
  ASSUME TypeOK, NEW type \in EventTypes, NEW d \in Prompts \union {None}, SendMobile(type, d)
  PROVE  RelayTypeOK'
<1>1. online' \in [Roles -> BOOLEAN]
  BY DEF TypeOK, SendMobile, Roles
<1>2. events' \subseteq Event /\ next' \in 1..(MaxIds + 1)
  BY AppendType DEF TypeOK, SendMobile, Roles
<1> QED BY <1>1, <1>2 DEF RelayTypeOK

\* What a run of the plugin leaves behind has its type.
LEMMA OutcomeType ==
  ASSUME TypeOK, NEW p \in Prompts, NEW answer \in {"accepted", "failed"}, Outcome(p, answer)
  PROVE  ran' \in [Prompts -> Nat] /\ unsure' \subseteq Prompts /\ faults' \in 0..MaxFaults
BY PollingAssumption DEF TypeOK, Outcome, Fault

\* The types hold at the start.
LEMMA TypeInit == Init => TypeInv
<1> SUFFICES ASSUME Init PROVE TypeInv
  OBVIOUS
<1>1. mac \in [pc : {"off", "idle", "probe", "batch", "receipt", "snapshot", "end"}, cursor : 0..MaxIds,
              done : SUBSET Deliveries, batch : SUBSET Event, answer : Answer, told : BOOLEAN]
  BY PollingAssumption DEF Init, Off, Answer
<1>2. sched \in [pc : {"idle", "run", "receipt"}, todo : SUBSET Tasks, ids : SUBSET Tasks, answer : Answer]
  BY DEF Init, NoRun, Answer
<1>3. events \subseteq Event /\ next \in 1..(MaxIds + 1) /\ online \in [Roles -> BOOLEAN]
  BY PollingAssumption DEF Init
<1>4. saved \in [cursor : 0..MaxIds, done : SUBSET Deliveries]
  BY PollingAssumption DEF Init
<1>5. delivered \subseteq Tasks /\ ran \in [Prompts -> Nat] /\ unsure \subseteq Prompts
  BY DEF Init
<1>6. fresh \in BOOLEAN /\ handled \subseteq 1..MaxIds /\ faults \in 0..MaxFaults
  BY PollingAssumption DEF Init
<1>7. Submitted /\ Answered
  BY DEF Init, Off, NoRun, Submitted, Answered
<1> QED BY <1>1, <1>2, <1>3, <1>4, <1>5, <1>6, <1>7 DEF TypeOK, TypeInv

\* Every step of a started process keeps the types.
LEMMA TypeStep ==
  ASSUME TypeInv, [Next]_vars
  PROVE  TypeOK'
<1> DEFINE MacType == [pc : {"off", "idle", "probe", "batch", "receipt", "snapshot", "end"}, cursor : 0..MaxIds,
                       done : SUBSET Deliveries, batch : SUBSET Event, answer : Answer, told : BOOLEAN]
           SchedType == [pc : {"idle", "run", "receipt"}, todo : SUBSET Tasks, ids : SUBSET Tasks, answer : Answer]
<1>t. TypeOK /\ Submitted /\ Answered
  BY DEF TypeInv
<1>m. /\ MaxIds \in Nat /\ MaxFaults \in Nat /\ Off \in MacType /\ NoRun \in SchedType
      /\ NoAnswer \in Answer /\ Roles = {"mac", "mobile"}
      /\ \A role \in Roles : Counterpart(role) \in Roles
      /\ Deliveries \subseteq Prompts /\ Tasks \subseteq Prompts
      /\ \A d \in Prompts, is \in {"accepted", "failed", "duplicate"} : [d |-> d, is |-> is] \in Answer
  BY PollingAssumption DEF Off, NoRun, NoAnswer, Answer, Roles, Counterpart, Prompts
<1>f. Fault => faults' \in 0..MaxFaults
  BY <1>t, <1>m DEF Fault, TypeOK
<1>b. \A role \in Roles : \A since : For(role, since) \subseteq Event
  BY <1>t, PicksFrom DEF For, TypeOK
<1>j. \A role \in Roles : Joins(role) => RelayTypeOK'
  <2> TAKE role \in Roles
  <2> SUFFICES ASSUME Joins(role) PROVE RelayTypeOK'
    OBVIOUS
  <2>1. events' \subseteq Event /\ next' \in 1..(MaxIds + 1)
    BY <1>t, <1>m, AppendType DEF Joins, EventTypes
  <2> QED BY <2>1, <1>t, <1>m DEF Joins, RelayTypeOK, TypeOK
<1>s. SendMobile("snapshot", None) => RelayTypeOK'
  BY <1>t, SendType DEF EventTypes
<1>1. CASE Expires
  <2>1. PICK role \in Roles : AppendEvent(Counterpart(role), "presence", None)
                              /\ online' = [online EXCEPT ![role] = FALSE]
    BY <1>1 DEF Expires
  <2>2. events' \subseteq Event /\ next' \in 1..(MaxIds + 1)
    BY <2>1, <1>t, <1>m, AppendType DEF EventTypes
  <2> QED BY <1>t, <1>1, <2>1, <2>2 DEF Expires, TypeOK, macVars, schedVars
<1>2. CASE PhoneJoins
  BY <1>t, <1>2, <1>j, <1>m DEF PhoneJoins, TypeOK, RelayTypeOK, macVars, schedVars
<1>3. CASE Submit
  <2>1. events' \subseteq Event /\ next' \in 1..(MaxIds + 1)
    <3>1. PICK d \in Deliveries : UNCHANGED <<events, next>> \/ AppendEvent("mac", "submit", d)
      BY <1>3 DEF Submit
    <3> QED BY <1>t, <3>1, <1>m, AppendType DEF TypeOK, EventTypes
  <2>2. online' \in [Roles -> BOOLEAN]
    BY <1>t, <1>3, <1>m DEF Submit, TypeOK
  <2> QED BY <1>t, <1>3, <2>1, <2>2 DEF Submit, TypeOK, macVars, schedVars
<1>4. CASE RelayRestarts
  BY <1>t, <1>4, <1>f, <1>m DEF RelayRestarts, TypeOK, schedVars
<1>5. CASE Start
  BY <1>t, <1>5, <1>j, <1>m DEF Start, TypeOK, RelayTypeOK, schedVars
<1>6. CASE Poll
  <2>1. For("mac", mac.cursor) \in SUBSET Event
    BY <1>b, <1>m
  <2> QED BY <1>t, <1>6, <2>1 DEF Poll, TypeOK, relayVars, schedVars
<1>7. CASE Probe
  <2>1. For("mac", 0) \in SUBSET Event
    BY <1>b, <1>m
  <2>2. mac \in MacType /\ 0 \in 0..MaxIds
    BY <1>t, <1>m DEF TypeOK
  <2>3. \/ mac' = [mac EXCEPT !.pc = "batch", !.cursor = 0, !.batch = For("mac", 0)]
           /\ saved' = [cursor |-> 0, done |-> mac.done] /\ fresh' = TRUE
        \/ mac' = [mac EXCEPT !.pc = "end"] /\ UNCHANGED <<saved, fresh>>
    BY <1>7 DEF Probe
  <2>4. mac' \in MacType
    BY <2>1, <2>2, <2>3
  <2>5. saved' \in [cursor : 0..MaxIds, done : SUBSET Deliveries] /\ fresh' \in BOOLEAN
    <3>1. mac.done \in SUBSET Deliveries
      BY <2>2
    <3>2. CASE saved' = [cursor |-> 0, done |-> mac.done] /\ fresh' = TRUE
      BY <2>2, <3>1, <3>2
    <3>3. CASE UNCHANGED <<saved, fresh>>
      BY <1>t, <3>3 DEF TypeOK
    <3> QED BY <2>3, <3>2, <3>3
  <2> QED BY <1>t, <1>7, <2>4, <2>5 DEF Probe, TypeOK, relayVars, schedVars
<1>8. CASE Process
  <2>1. PICK e \in mac.batch :
          LET at == [mac EXCEPT !.cursor = IF e.id > @ THEN e.id ELSE @, !.batch = @ \ {e}]
          IN  /\ \/ /\ e.type # "submit"
                    /\ mac' = at /\ UNCHANGED <<ran, unsure, faults>>
                 \/ /\ e.type = "submit" /\ e.d \in mac.done
                    /\ mac' = [at EXCEPT !.pc = "receipt", !.answer = [d |-> e.d, is |-> "duplicate"]]
                    /\ UNCHANGED <<ran, unsure, faults>>
                 \/ /\ e.type = "submit" /\ e.d \notin mac.done
                    /\ \E answer \in {"accepted", "failed"} :
                         /\ Outcome(e.d, answer)
                         /\ mac' = [at EXCEPT !.pc = "receipt", !.answer = [d |-> e.d, is |-> answer],
                                              !.done = IF answer = "accepted" THEN @ \union {e.d} ELSE @]
              /\ handled' = IF fresh THEN handled \union {e.id} ELSE handled
    BY <1>8 DEF Process
  <2>2. e \in Event /\ e.id \in 1..MaxIds /\ e.id \in 0..MaxIds
    BY <1>t, <1>m DEF TypeOK, Event
  <2>3. e.type = "submit" => e.d \in Deliveries /\ e.d \in Prompts
    BY <1>t, <1>m DEF Submitted
  <2> DEFINE at == [mac EXCEPT !.cursor = IF e.id > @ THEN e.id ELSE @, !.batch = @ \ {e}]
  <2>4. at \in MacType
    BY <1>t, <2>2 DEF TypeOK
  <2>5. mac' \in MacType
    <3> HIDE DEF at
    <3>1. CASE mac' = at
      BY <2>4, <3>1
    <3>3. at.done \in SUBSET Deliveries
      BY <2>4
    <3>4. CASE e.type = "submit" /\ mac' = [at EXCEPT !.pc = "receipt", !.answer = [d |-> e.d, is |-> "duplicate"]]
      <4>1. [d |-> e.d, is |-> "duplicate"] \in Answer
        BY <1>m, <2>3, <3>4
      <4> QED BY <2>4, <3>4, <4>1
    <3>5. ASSUME e.type = "submit", NEW answer \in {"accepted", "failed"},
                 mac' = [at EXCEPT !.pc = "receipt", !.answer = [d |-> e.d, is |-> answer],
                                   !.done = IF answer = "accepted" THEN @ \union {e.d} ELSE @]
          PROVE  mac' \in MacType
      <4>1. [d |-> e.d, is |-> answer] \in Answer
        BY <1>m, <2>3, <3>5
      <4>2. at.done \union {e.d} \in SUBSET Deliveries
        BY <2>3, <3>3, <3>5
      <4> QED BY <2>4, <3>5, <4>1, <4>2
    <3> QED BY <2>1, <3>1, <3>4, <3>5 DEF at
  <2>6. ran' \in [Prompts -> Nat] /\ unsure' \subseteq Prompts /\ faults' \in 0..MaxFaults
    BY <1>t, <2>1, <2>3, OutcomeType DEF TypeOK
  <2>7. handled' \subseteq 1..MaxIds
    BY <1>t, <2>1, <2>2 DEF TypeOK
  <2> QED BY <1>t, <1>8, <2>5, <2>6, <2>7 DEF Process, TypeOK, relayVars, schedVars
<1>9. CASE Receipt
  <2>1. mac.answer.is \in EventTypes /\ mac.answer.d \in Prompts \union {None}
    BY <1>t, <1>9, <1>m DEF Receipt, Answered, Replies, EventTypes
  <2>2. RelayTypeOK'
    BY <1>t, <1>9, <2>1, SendType DEF Receipt
  <2> QED BY <1>t, <1>9, <2>2, <1>m DEF Receipt, TypeOK, RelayTypeOK, schedVars
<1>10. CASE Snapshot
  BY <1>t, <1>10, <1>s DEF Snapshot, TypeOK, RelayTypeOK, schedVars
<1>11. CASE LoopError
  BY <1>t, <1>11, <1>f, <1>m DEF LoopError, TypeOK, relayVars, schedVars
<1>12. CASE EndBatch
  BY <1>t, <1>12 DEF EndBatch, TypeOK, relayVars, schedVars
<1>13. CASE EndRound
  <2>1. Heartbeat => RelayTypeOK'
    BY <1>t, <1>m DEF Heartbeat, TypeOK, RelayTypeOK
  <2> QED BY <1>t, <1>13, <1>s, <2>1 DEF EndRound, TypeOK, RelayTypeOK, schedVars
<1>14. CASE Killed
  BY <1>t, <1>14, <1>f, <1>m DEF Killed, TypeOK, relayVars, schedVars
<1>15. CASE RunDue
  BY <1>t, <1>15, <1>m DEF RunDue, TypeOK, relayVars, macVars
<1>16. CASE RunTask
  <2>1. PICK t \in sched.todo, answer \in {"accepted", "failed"} :
       /\ Outcome(t, answer)
       /\ sched' = [sched EXCEPT !.pc = "receipt", !.todo = @ \ {t}, !.ids = @ \union {t},
                                 !.answer = [d |-> t, is |-> answer]]
    BY <1>16 DEF RunTask
  <2>2. t \in Tasks /\ t \in Prompts
    BY <1>t, <1>m DEF TypeOK
  <2>3. [d |-> t, is |-> answer] \in Answer
    BY <2>2, <1>m
  <2>4. sched' \in SchedType
    BY <1>t, <2>1, <2>2, <2>3 DEF TypeOK
  <2>5. ran' \in [Prompts -> Nat] /\ unsure' \subseteq Prompts /\ faults' \in 0..MaxFaults
    BY <1>t, <2>1, <2>2, OutcomeType
  <2> QED BY <1>t, <1>16, <2>4, <2>5 DEF RunTask, TypeOK, relayVars, macVars
<1>17. CASE TaskReceipt
  <2>1. sched.answer.is \in EventTypes /\ sched.answer.d \in Prompts \union {None}
    BY <1>t, <1>17, <1>m DEF TaskReceipt, Answered, Replies, EventTypes
  <2>2. RelayTypeOK'
    BY <1>t, <1>17, <2>1, SendType DEF TaskReceipt
  <2> QED BY <1>t, <1>17, <2>2, <1>m DEF TaskReceipt, TypeOK, RelayTypeOK, macVars
<1>18. CASE SaveDelivered
  BY <1>t, <1>18, <1>m DEF SaveDelivered, TypeOK, relayVars, macVars
<1>19. CASE SchedulerKilled
  BY <1>t, <1>19, <1>f, <1>m DEF SchedulerKilled, TypeOK, relayVars, macVars
<1>20. CASE UNCHANGED vars
  BY <1>t, <1>20 DEF vars, relayVars, macVars, schedVars, TypeOK
<1> QED BY <1>1, <1>2, <1>3, <1>4, <1>5, <1>6, <1>7, <1>8, <1>9, <1>10, <1>11, <1>12, <1>13, <1>14,
           <1>15, <1>16, <1>17, <1>18, <1>19, <1>20 DEF Next

\* A process that starts has what its file says, and nothing else.
LEMMA Starting ==
  /\ Off.pc = "off" /\ Off.cursor = 0 /\ Off.done = {} /\ Off.batch = {} /\ Off.answer = NoAnswer
  /\ NoRun.pc = "idle" /\ NoRun.todo = {} /\ NoRun.ids = {} /\ NoRun.answer = NoAnswer
  /\ Start => /\ mac'.pc = "idle" /\ mac'.cursor = saved.cursor /\ mac'.done = saved.done
              /\ mac'.batch = {} /\ mac'.answer = NoAnswer
  /\ RunDue => /\ sched'.pc = "run" /\ sched'.todo = Tasks \ delivered /\ sched'.ids = delivered
               /\ sched'.answer = NoAnswer
BY DEF Off, NoRun, Start, RunDue

\* What taking up an event does, field by field.
LEMMA ProcessDoes ==
  ASSUME TypeInv, Process
  PROVE  \E e \in mac.batch :
           /\ \A f \in mac.batch : e.id <= f.id
           /\ mac'.batch = mac.batch \ {e}
           /\ mac'.cursor = IF e.id > mac.cursor THEN e.id ELSE mac.cursor
           /\ handled' = IF fresh THEN handled \union {e.id} ELSE handled
           /\ \/ /\ e.type # "submit"
                 /\ mac'.pc = "batch" /\ mac'.answer = mac.answer /\ mac'.done = mac.done
                 /\ UNCHANGED <<ran, unsure, faults>>
              \/ /\ e.type = "submit" /\ e.d \in mac.done
                 /\ mac'.pc = "receipt" /\ mac'.answer = [d |-> e.d, is |-> "duplicate"]
                 /\ mac'.done = mac.done
                 /\ UNCHANGED <<ran, unsure, faults>>
              \/ /\ e.type = "submit" /\ e.d \notin mac.done
                 /\ \E answer \in {"accepted", "failed"} :
                      /\ Outcome(e.d, answer)
                      /\ mac'.pc = "receipt" /\ mac'.answer = [d |-> e.d, is |-> answer]
                      /\ mac'.done = IF answer = "accepted" THEN mac.done \union {e.d} ELSE mac.done
<1>t. mac \in [pc : {"off", "idle", "probe", "batch", "receipt", "snapshot", "end"}, cursor : 0..MaxIds,
              done : SUBSET Deliveries, batch : SUBSET Event, answer : Answer, told : BOOLEAN]
  BY DEF TypeInv, TypeOK
<1> DEFINE at(e) == [mac EXCEPT !.cursor = IF e.id > @ THEN e.id ELSE @, !.batch = @ \ {e}]
<1>1. PICK e \in mac.batch :
        /\ \A f \in mac.batch : e.id <= f.id
        /\ handled' = IF fresh THEN handled \union {e.id} ELSE handled
        /\ \/ e.type # "submit" /\ mac' = at(e) /\ UNCHANGED <<ran, unsure, faults>>
           \/ /\ e.type = "submit" /\ e.d \in mac.done
              /\ mac' = [at(e) EXCEPT !.pc = "receipt", !.answer = [d |-> e.d, is |-> "duplicate"]]
              /\ UNCHANGED <<ran, unsure, faults>>
           \/ /\ e.type = "submit" /\ e.d \notin mac.done
              /\ \E answer \in {"accepted", "failed"} :
                   /\ Outcome(e.d, answer)
                   /\ mac' = [at(e) EXCEPT !.pc = "receipt", !.answer = [d |-> e.d, is |-> answer],
                                           !.done = IF answer = "accepted" THEN @ \union {e.d} ELSE @]
  BY DEF Process
<1>2. mac.pc = "batch"
  BY DEF Process
<1>3. CASE e.type # "submit" /\ mac' = at(e) /\ UNCHANGED <<ran, unsure, faults>>
  <2>1. /\ mac'.batch = mac.batch \ {e} /\ mac'.cursor = IF e.id > mac.cursor THEN e.id ELSE mac.cursor
        /\ mac'.pc = "batch" /\ mac'.answer = mac.answer /\ mac'.done = mac.done
    BY <1>t, <1>2, <1>3
  <2> QED BY <1>1, <1>3, <2>1
<1>4. CASE /\ e.type = "submit" /\ e.d \in mac.done
           /\ mac' = [at(e) EXCEPT !.pc = "receipt", !.answer = [d |-> e.d, is |-> "duplicate"]]
           /\ UNCHANGED <<ran, unsure, faults>>
  <2>1. /\ mac'.batch = mac.batch \ {e} /\ mac'.cursor = IF e.id > mac.cursor THEN e.id ELSE mac.cursor
        /\ mac'.pc = "receipt" /\ mac'.answer = [d |-> e.d, is |-> "duplicate"] /\ mac'.done = mac.done
    BY <1>t, <1>4
  <2> QED BY <1>1, <1>4, <2>1
<1>5. ASSUME NEW answer \in {"accepted", "failed"}, Outcome(e.d, answer), e.type = "submit", e.d \notin mac.done,
             mac' = [at(e) EXCEPT !.pc = "receipt", !.answer = [d |-> e.d, is |-> answer],
                                 !.done = IF answer = "accepted" THEN @ \union {e.d} ELSE @]
      PROVE  /\ mac'.batch = mac.batch \ {e} /\ mac'.cursor = IF e.id > mac.cursor THEN e.id ELSE mac.cursor
             /\ mac'.pc = "receipt" /\ mac'.answer = [d |-> e.d, is |-> answer]
             /\ mac'.done = IF answer = "accepted" THEN mac.done \union {e.d} ELSE mac.done
  BY <1>t, <1>5
<1> QED BY <1>1, <1>3, <1>4, <1>5


\* How a step changes the store: not at all, by one event more - and what
\* the trimming takes -, or by losing all of it.
Grows(to, type, d) ==
  /\ next' = next + 1
  /\ events' \subseteq events \union {[id |-> next, to |-> to, type |-> type, d |-> d]}
  /\ type = "submit" => d \in Deliveries /\ to = "mac"
  /\ type \in {"accepted", "failed", "duplicate"} => [d |-> d, is |-> type] \in {mac.answer, sched.answer}

\* A step leaves the stored events alone, appends one, or is a restart that loses them.
LEMMA StoreStep ==
  ASSUME TypeInv, [Next]_vars
  PROVE  \/ UNCHANGED <<events, next>>
         \/ RelayRestarts
         \/ \E to, type, d : Grows(to, type, d)
<1>t. TypeOK /\ Submitted /\ Answered
  BY DEF TypeInv
<1>a. ASSUME NEW to, NEW type, NEW d, AppendEvent(to, type, d),
             type = "submit" => d \in Deliveries /\ to = "mac",
             type \notin {"accepted", "failed", "duplicate"}
      PROVE  \E to1, type1, d1 : Grows(to1, type1, d1)
  <2>1. Grows(to, type, d)
    BY <1>a, AppendKeeps DEF Grows
  <2> QED BY <2>1
<1>s. SendMobile("snapshot", None) =>
        UNCHANGED <<events, next>> \/ \E to, type, d : Grows(to, type, d)
  <2> SUFFICES ASSUME SendMobile("snapshot", None), ~UNCHANGED <<events, next>>
               PROVE  \E to, type, d : Grows(to, type, d)
    OBVIOUS
  <2>1. Grows("mobile", "snapshot", None)
    BY SendKeeps DEF Grows
  <2> QED BY <2>1
<1>r. ASSUME NEW a \in {mac.answer, sched.answer}, NEW P, a \in Replies(P), SendMobile(a.is, a.d),
             ~UNCHANGED <<events, next>>
      PROVE  \E to, type, d : Grows(to, type, d)
  <2>1. [d |-> a.d, is |-> a.is] = a /\ a.is # "submit"
    BY <1>r DEF Replies
  <2>2. Grows("mobile", a.is, a.d)
    BY <1>r, <2>1, SendKeeps DEF Grows
  <2> QED BY <2>2
<1>1. CASE Expires \/ PhoneJoins \/ Start
  BY <1>1, <1>a DEF Expires, PhoneJoins, Start, Joins
<1>2. CASE Submit
  BY <1>2, <1>a DEF Submit
<1>3. CASE Receipt
  BY <1>3, <1>r, <1>t DEF Receipt, Answered
<1>4. CASE TaskReceipt
  BY <1>4, <1>r, <1>t DEF TaskReceipt, Answered
<1>5. CASE Snapshot \/ EndRound
  BY <1>5, <1>s DEF Snapshot, EndRound, Heartbeat
<1>6. CASE Poll \/ Probe \/ Process \/ LoopError \/ EndBatch \/ Killed
  BY <1>6 DEF Poll, Probe, Process, LoopError, EndBatch, Killed, relayVars
<1>7. CASE RunDue \/ RunTask \/ SaveDelivered \/ SchedulerKilled \/ UNCHANGED vars
  BY <1>7 DEF RunDue, RunTask, SaveDelivered, SchedulerKilled, relayVars, vars
<1> QED BY <1>1, <1>2, <1>3, <1>4, <1>5, <1>6, <1>7 DEF Next

\* The companion's events are events the relay had.
LEMMA BatchStep ==
  ASSUME TypeInv, [Next]_vars
  PROVE  mac'.batch \subseteq mac.batch \union events
<1>t. mac \in [pc : {"off", "idle", "probe", "batch", "receipt", "snapshot", "end"}, cursor : 0..MaxIds,
              done : SUBSET Deliveries, batch : SUBSET Event, answer : Answer, told : BOOLEAN]
  BY DEF TypeInv, TypeOK
<1>1. CASE Expires \/ PhoneJoins \/ Submit \/ RelayRestarts
  BY <1>t, <1>1 DEF Expires, PhoneJoins, Submit, RelayRestarts, macVars
<1>2. CASE Start \/ Killed
  BY <1>2, Starting DEF Killed
<1>3. CASE Poll
  BY <1>t, <1>3, PicksFrom DEF Poll, For
<1>4. CASE Probe
  <2>1. For("mac", 0) \subseteq events
    BY PicksFrom DEF For
  <2> QED BY <1>t, <1>4, <2>1 DEF Probe
<1>5. CASE Process
  BY <1>5, ProcessDoes
<1>6. CASE Receipt \/ Snapshot \/ LoopError \/ EndBatch \/ EndRound
  BY <1>t, <1>6 DEF Receipt, Snapshot, LoopError, EndBatch, EndRound
<1>7. CASE RunDue \/ RunTask \/ TaskReceipt \/ SaveDelivered \/ SchedulerKilled \/ UNCHANGED vars
  BY <1>7 DEF RunDue, RunTask, TaskReceipt, SaveDelivered, SchedulerKilled, vars, macVars
<1> QED BY <1>1, <1>2, <1>3, <1>4, <1>5, <1>6, <1>7 DEF Next

\* Every step keeps what the answers on their way speak of.
LEMMA AnsweredStep ==
  ASSUME TypeInv, [Next]_vars
  PROVE  Answered'
<1>t. TypeOK /\ Submitted /\ Answered
  BY DEF TypeInv
<1> USE DEF TypeOK, Answered
<1>1. CASE Expires \/ PhoneJoins \/ Submit \/ RelayRestarts
  BY <1>t, <1>1 DEF Expires, PhoneJoins, Submit, RelayRestarts, macVars, schedVars
<1>2. CASE Start \/ Killed
  BY <1>t, <1>2, Starting DEF Start, Killed, schedVars
<1>3. CASE Poll
  BY <1>t, <1>3 DEF Poll, schedVars
<1>4. CASE Probe
  <2>1. UNCHANGED sched /\ mac.pc = "probe"
    BY <1>4 DEF Probe, schedVars
  <2>2. mac'.pc # "receipt" /\ mac'.answer = mac.answer
    BY <1>t, <1>4 DEF Probe
  <2> QED BY <1>t, <2>1, <2>2
<1>5. CASE Process
  <2>1. PICK e \in mac.batch :
          \/ mac'.pc = "batch" /\ mac'.answer = mac.answer
          \/ /\ e.type = "submit" /\ mac'.pc = "receipt"
             /\ \E is \in {"accepted", "failed", "duplicate"} : mac'.answer = [d |-> e.d, is |-> is]
    BY <1>5, ProcessDoes
  <2>2. mac.pc = "batch" /\ UNCHANGED sched /\ (e.type = "submit" => e.d \in Deliveries)
    BY <1>t, <1>5 DEF Process, schedVars, Submitted
  <2>3. \/ mac'.pc = "batch" /\ mac'.answer = mac.answer
        \/ mac'.pc = "receipt" /\ mac'.answer \in Replies(Deliveries)
    BY <2>1, <2>2 DEF Replies
  <2> QED BY <1>t, <2>2, <2>3
<1>6. CASE Receipt \/ Snapshot \/ LoopError \/ EndBatch \/ EndRound
  BY <1>t, <1>6 DEF Receipt, Snapshot, LoopError, EndBatch, EndRound, schedVars
<1>7. CASE RunDue \/ SaveDelivered \/ SchedulerKilled
  BY <1>t, <1>7, Starting DEF RunDue, SaveDelivered, SchedulerKilled, macVars
<1>10. CASE TaskReceipt
  BY <1>t, <1>10 DEF TaskReceipt, macVars
<1>8. CASE RunTask
  <2>1. PICK t \in sched.todo, answer \in {"accepted", "failed"} :
          sched' = [sched EXCEPT !.pc = "receipt", !.todo = @ \ {t}, !.ids = @ \union {t},
                                 !.answer = [d |-> t, is |-> answer]]
    BY <1>8 DEF RunTask
  <2>2. UNCHANGED mac /\ t \in Tasks
    BY <1>t, <1>8, <2>1 DEF RunTask, macVars
  <2>3. [d |-> t, is |-> answer] \in Replies(Tasks)
    BY <2>2 DEF Replies
  <2> QED BY <1>t, <2>1, <2>2, <2>3
<1>9. CASE UNCHANGED vars
  BY <1>t, <1>9 DEF vars, macVars, schedVars
<1> QED BY <1>1, <1>2, <1>3, <1>4, <1>5, <1>6, <1>7, <1>8, <1>9, <1>10 DEF Next

\* Every step keeps the types.
LEMMA TypeInvStep ==
  ASSUME TypeInv, [Next]_vars
  PROVE  TypeInv'
<1> DEFINE Fits(e) == /\ e.type = "submit" => e.d \in Deliveries /\ e.to = "mac"
                      /\ e.type \in {"accepted", "failed", "duplicate"} => e.d \in Prompts
<1>1. Submitted'
  <2>1. \A e \in events' : Fits(e)
    <3>1. ASSUME NEW to, NEW type, NEW d, Grows(to, type, d)
          PROVE  \A e \in events' : Fits(e)
      <4>1. type \in {"accepted", "failed", "duplicate"} => d \in Prompts
        BY <3>1 DEF TypeInv, Answered, Replies, NoAnswer, None, Grows, Prompts
      <4> QED BY <3>1, <4>1 DEF TypeInv, Submitted, Grows
    <3>2. UNCHANGED events => \A e \in events' : Fits(e)
      BY DEF TypeInv, Submitted
    <3> QED BY <3>1, <3>2, StoreStep DEF RelayRestarts
  <2>2. \A e \in mac'.batch : Fits(e)
    BY BatchStep DEF TypeInv, Submitted
  <2> QED BY <2>1, <2>2 DEF Submitted
<1> QED BY <1>1, TypeStep, AnsweredStep DEF TypeInv

\* Every reachable state of the v1 protocol is well typed: in particular no
\* counter leaves its bound and no process holds an id of the other's.
THEOREM PollingIsTyped == Spec => []TypeOK
<1>1. TypeInv => TypeOK
  BY DEF TypeInv
<1> QED BY <1>1, TypeInit, TypeInvStep, PTL DEF Spec

-----------------------------------------------------------------------------
(* What runs, and what is said of it.                                      *)

\* Only the two processes run prompts, and none unruns one.
LEMMA RunsGrow ==
  ASSUME TypeInv, [Next]_vars
  PROVE  /\ \A p \in Prompts : ran'[p] >= ran[p]
         /\ unsure \subseteq unsure'
         /\ Process \/ RunTask \/ ran' = ran
<1>t. ran \in [Prompts -> Nat] /\ ran' \in [Prompts -> Nat]
  BY TypeStep DEF TypeInv, TypeOK
<1>o. ASSUME NEW p \in Prompts, NEW answer, Outcome(p, answer)
      PROVE  (\A q \in Prompts : ran'[q] >= ran[q]) /\ unsure \subseteq unsure'
  BY <1>t, <1>o DEF Outcome
<1>1. CASE Process
  <2>1. PICK e \in mac.batch :
          \/ UNCHANGED <<ran, unsure>>
          \/ e.type = "submit" /\ \E answer \in {"accepted", "failed"} : Outcome(e.d, answer)
    BY <1>1, ProcessDoes
  <2>2. e.type = "submit" => e.d \in Prompts
    BY DEF TypeInv, Submitted, Prompts
  <2> QED BY <1>1, <1>o, <1>t, <2>1, <2>2
<1>2. CASE RunTask
  <2>1. PICK t \in sched.todo, answer \in {"accepted", "failed"} : Outcome(t, answer)
    BY <1>2 DEF RunTask
  <2>2. t \in Prompts
    BY DEF TypeInv, TypeOK, Prompts
  <2> QED BY <1>2, <1>o, <2>1, <2>2
<1>3. CASE ~Process /\ ~RunTask
  <2>1. ran' = ran /\ unsure \subseteq unsure'
    BY <1>3 DEF Next, Expires, PhoneJoins, Submit, RelayRestarts, Start, Poll, Probe, Receipt, Snapshot,
       LoopError, EndBatch, EndRound, Killed, RunDue, TaskReceipt, SaveDelivered, SchedulerKilled, vars
  <2> QED BY <1>t, <2>1
<1> QED BY <1>1, <1>2, <1>3

\* What a step does to the records of the two processes.
LEMMA RecordsStep ==
  ASSUME PromptInv, [Next]_vars, ~Process, ~RunTask
  PROVE  /\ Loaded'
         /\ MacDone' \subseteq MacDone
         /\ \A p \in Prompts \ unsure' : p \in MacDone \union SchedDone /\ ran[p] > 0
                                          => p \in MacDone' \union SchedDone'
         /\ mac'.answer \in {mac.answer, NoAnswer} /\ sched'.answer \in {sched.answer, NoAnswer}
<1>t. /\ mac \in [pc : {"off", "idle", "probe", "batch", "receipt", "snapshot", "end"}, cursor : 0..MaxIds,
                 done : SUBSET Deliveries, batch : SUBSET Event, answer : Answer, told : BOOLEAN]
      /\ saved \in [cursor : 0..MaxIds, done : SUBSET Deliveries]
      /\ sched \in [pc : {"idle", "run", "receipt"}, todo : SUBSET Tasks, ids : SUBSET Tasks, answer : Answer]
      /\ delivered \subseteq Tasks /\ Loaded /\ Off.pc = "off" /\ NoRun.pc = "idle"
  BY Starting DEF PromptInv, TypeInv, TypeOK
<1> USE <1>t DEF Loaded, MacDone, SchedDone
<1>1. CASE Expires \/ PhoneJoins \/ Submit \/ RelayRestarts
  <2>1. UNCHANGED <<mac, saved, sched, delivered>> /\ unsure' = unsure
    BY <1>1 DEF Expires, PhoneJoins, Submit, RelayRestarts, macVars, schedVars
  <2> QED BY <2>1
<1>2. CASE Start
  BY <1>2, Starting DEF Start, schedVars
<1>3. CASE Poll
  <2>1. UNCHANGED <<saved, sched, delivered, unsure>> /\ mac.pc = "idle"
        /\ mac'.pc \in {"batch", "probe", "end"} /\ mac'.done = mac.done /\ mac'.answer = mac.answer
    BY <1>3 DEF Poll, schedVars
  <2> QED BY <2>1
<1>4. CASE Probe
  <2>1. UNCHANGED <<sched, delivered, unsure>> /\ mac.pc = "probe" /\ saved'.done \in {saved.done, mac.done}
    BY <1>4 DEF Probe, schedVars
  <2>2. mac'.pc \in {"batch", "end"} /\ mac'.done = mac.done /\ mac'.answer = mac.answer
    BY <1>4 DEF Probe
  <2> QED BY <2>1, <2>2
<1>5. CASE Receipt \/ Snapshot \/ LoopError \/ EndRound
  <2>1. UNCHANGED <<saved, sched, delivered, unsure>> /\ mac.pc # "off"
    BY <1>5 DEF Receipt, Snapshot, LoopError, EndRound, schedVars
  <2>2. mac'.pc # "off" /\ mac'.done = mac.done /\ mac'.answer \in {mac.answer, NoAnswer}
    BY <1>5 DEF Receipt, Snapshot, LoopError, EndRound
  <2> QED BY <2>1, <2>2
<1>6. CASE EndBatch
  <2>1. UNCHANGED <<sched, delivered, unsure>> /\ mac.pc = "batch" /\ saved'.done = mac.done
        /\ mac'.pc # "off" /\ mac'.done = mac.done /\ mac'.answer = mac.answer
    BY <1>6 DEF EndBatch, schedVars
  <2> QED BY <2>1
<1>7. CASE Killed
  BY <1>7, Starting DEF Killed, schedVars
<1>8. CASE RunDue
  BY <1>8, Starting DEF RunDue, macVars
<1>9. CASE TaskReceipt
  <2>1. UNCHANGED <<mac, saved, delivered, unsure>> /\ sched.pc = "receipt" /\ sched'.pc = "run"
        /\ sched'.ids = sched.ids /\ sched'.todo = sched.todo /\ sched'.answer = NoAnswer
    BY <1>9 DEF TaskReceipt, macVars
  <2> QED BY <2>1
<1>10. CASE SaveDelivered
  BY <1>10, Starting DEF SaveDelivered, macVars
<1>11. CASE SchedulerKilled
  BY <1>11, Starting DEF SchedulerKilled, macVars
<1>12. CASE UNCHANGED vars
  BY <1>12 DEF vars, macVars, schedVars
<1> QED BY <1>1, <1>2, <1>3, <1>4, <1>5, <1>6, <1>7, <1>8, <1>9, <1>10, <1>11, <1>12 DEF Next

\* The two halves of ReceiptsTell.
EventsTell == \A e \in events : e.type \in {"accepted", "duplicate"} => ran[e.d] > 0
Tells(is, d) ==
  /\ is \in {"accepted", "duplicate"} => ran[d] > 0
  /\ is = "failed" => ran[d] = 0 \/ d \in unsure
AnswersTell == Tells(mac.answer.is, mac.answer.d) /\ Tells(sched.answer.is, sched.answer.d)

\* Receipts tell what was done if the stored ones and the ones on their way do.
LEMMA ReceiptsTellInHalves == ReceiptsTell <=> EventsTell /\ AnswersTell
BY DEF ReceiptsTell, EventsTell, AnswersTell, Tells

\* Every step keeps the stored receipts true.
LEMMA EventsTellStep ==
  ASSUME TypeInv, EventsTell, AnswersTell, [Next]_vars
  PROVE  EventsTell'
<1>g. \A p \in Prompts : ran[p] > 0 => ran'[p] > 0
  <2>1. ran \in [Prompts -> Nat] /\ ran' \in [Prompts -> Nat]
    BY TypeStep DEF TypeInv, TypeOK
  <2> QED BY <2>1, RunsGrow
<1>o. \A e \in events : e.type \in {"accepted", "duplicate"} => ran'[e.d] > 0
  BY <1>g DEF EventsTell, TypeInv, Submitted
<1>1. CASE UNCHANGED events
  BY <1>1, <1>o DEF EventsTell
<1>2. CASE RelayRestarts
  BY <1>2 DEF RelayRestarts, EventsTell
<1>3. ASSUME NEW to, NEW type, NEW d, Grows(to, type, d)
      PROVE  EventsTell'
  <2>1. type \in {"accepted", "duplicate"} => d \in Prompts /\ ran[d] > 0
    BY <1>3 DEF TypeInv, Answered, Replies, NoAnswer, None, Grows, Prompts, AnswersTell, Tells
  <2> QED BY <1>3, <1>o, <1>g, <2>1 DEF Grows, EventsTell
<1> QED BY <1>1, <1>2, <1>3, StoreStep

\* A prompt that no process has on record did not run, as far as anyone can
\* know; running it now puts it on record, or hides it.
LEMMA OutcomeRecords ==
  ASSUME TypeOK, Recorded, NEW p \in Prompts, p \notin MacDone \union SchedDone,
         NEW answer \in {"accepted", "failed"}, Outcome(p, answer)
  PROVE  /\ \A q \in Prompts : q # p => ran'[q] = ran[q]
         /\ unsure \subseteq unsure' /\ unsure' \subseteq unsure \union {p}
         /\ p \notin unsure' => ran'[p] <= 1
         /\ answer = "accepted" => ran'[p] > 0
         /\ answer = "failed" => ran'[p] = 0 \/ p \in unsure'
<1>1. p \notin unsure => ran[p] = 0
  BY DEF Recorded, TypeOK
<1> QED BY <1>1 DEF Outcome, TypeOK

\* Handling a command of the batch keeps what is known of the prompts.
LEMMA PromptProcess ==
  ASSUME PromptInv, Process, TypeInv'
  PROVE  Loaded' /\ Recorded' /\ AnswersTell'
<1>t. TypeInv /\ TypeOK /\ TypeOK' /\ Submitted /\ Answered /\ Loaded /\ Recorded /\ AnswersTell
  BY ReceiptsTellInHalves DEF PromptInv, TypeInv
<1>d. /\ Deliveries \intersect Tasks = {} /\ Deliveries \subseteq Prompts /\ Tasks \subseteq Prompts
      /\ mac.done \subseteq Deliveries /\ mac'.done \subseteq Deliveries
      /\ sched.ids \subseteq Tasks /\ delivered \subseteq Tasks
      /\ ran \in [Prompts -> Nat] /\ ran' \in [Prompts -> Nat]
  BY <1>t, PollingAssumption DEF TypeOK, Prompts
<1>1. UNCHANGED <<saved, sched, delivered>> /\ mac.pc = "batch"
  BY DEF Process, schedVars
<1>2. MacDone = mac.done /\ SchedDone' = SchedDone /\ SchedDone \subseteq Tasks
  BY <1>1, <1>d DEF MacDone, SchedDone
<1>3. PICK e \in mac.batch :
        \/ /\ mac'.pc = "batch" /\ mac'.answer = mac.answer /\ mac'.done = mac.done
           /\ UNCHANGED <<ran, unsure>>
        \/ /\ e.type = "submit" /\ e.d \in mac.done
           /\ mac'.pc = "receipt" /\ mac'.answer = [d |-> e.d, is |-> "duplicate"]
           /\ mac'.done = mac.done
           /\ UNCHANGED <<ran, unsure>>
        \/ /\ e.type = "submit" /\ e.d \notin mac.done
           /\ \E answer \in {"accepted", "failed"} :
                /\ Outcome(e.d, answer)
                /\ mac'.pc = "receipt" /\ mac'.answer = [d |-> e.d, is |-> answer]
                /\ mac'.done = IF answer = "accepted" THEN mac.done \union {e.d} ELSE mac.done
  BY <1>t, ProcessDoes
<1>4. mac'.pc # "off" /\ MacDone' = mac'.done /\ mac.done \subseteq mac'.done
  BY <1>3 DEF MacDone
<1>5. Loaded'
  BY <1>t, <1>1, <1>2, <1>4 DEF Loaded, SchedDone
<1>6. CASE mac'.answer = mac.answer /\ mac'.done = mac.done /\ UNCHANGED <<ran, unsure>>
  BY <1>t, <1>1, <1>2, <1>4, <1>5, <1>6 DEF Recorded, AnswersTell, Tells
<1>7. CASE /\ e.type = "submit" /\ e.d \in mac.done
           /\ mac'.answer = [d |-> e.d, is |-> "duplicate"]
           /\ mac'.done = mac.done
           /\ UNCHANGED <<ran, unsure>>
  <2>1. Recorded'
    BY <1>t, <1>2, <1>4, <1>7 DEF Recorded
  <2>2. mac'.answer.d = e.d /\ mac'.answer.is = "duplicate" /\ ran'[e.d] > 0
    BY <1>t, <1>2, <1>7 DEF Recorded
  <2> QED BY <1>t, <1>1, <1>5, <1>7, <2>1, <2>2 DEF AnswersTell, Tells
<1>8. ASSUME e.type = "submit", e.d \notin mac.done, NEW answer \in {"accepted", "failed"},
             Outcome(e.d, answer), mac'.answer = [d |-> e.d, is |-> answer],
             mac'.done = IF answer = "accepted" THEN mac.done \union {e.d} ELSE mac.done
      PROVE  Loaded' /\ Recorded' /\ AnswersTell'
  <2>1. e.d \in Deliveries /\ e.d \in Prompts /\ e.d \notin MacDone \union SchedDone
    BY <1>t, <1>d, <1>2, <1>8 DEF Submitted
  <2>2. /\ \A q \in Prompts : q # e.d => ran'[q] = ran[q]
        /\ unsure \subseteq unsure' /\ unsure' \subseteq unsure \union {e.d}
        /\ e.d \notin unsure' => ran'[e.d] <= 1
        /\ answer = "accepted" => ran'[e.d] > 0
        /\ answer = "failed" => ran'[e.d] = 0 \/ e.d \in unsure'
    BY <1>t, <1>8, <2>1, OutcomeRecords
  <2>3. Recorded'
    <3>1. \A p \in Prompts \ unsure' : ran'[p] <= 1
      BY <1>t, <2>2 DEF Recorded
    <3>2. \A p \in Prompts \ unsure' : ran'[p] > 0 => p \in MacDone' \union SchedDone'
      BY <1>t, <1>d, <1>2, <1>4, <1>8, <2>2 DEF Recorded
    <3>3. \A p \in MacDone' : ran'[p] > 0
      BY <1>t, <1>d, <1>2, <1>4, <1>8, <2>1, <2>2 DEF Recorded
    <3> QED BY <3>1, <3>2, <3>3 DEF Recorded
  <2>4. mac'.answer.d = e.d /\ mac'.answer.is = answer
    BY <1>8
  <2>5. Tells(mac.answer.is, mac.answer.d)'
    BY <1>8, <2>2, <2>4 DEF Tells
  <2>6. sched'.answer = sched.answer
    BY <1>1
  <2>7. ASSUME sched.answer = NoAnswer
        PROVE  AnswersTell'
    BY <2>5, <2>6, <2>7 DEF Tells, AnswersTell, NoAnswer, None
  <2>8. ASSUME sched.answer.d \in Tasks
        PROVE  AnswersTell'
    <3>1. sched.answer.d # e.d /\ sched.answer.d \in Prompts
      BY <1>d, <2>1, <2>8
    <3>2. Tells(sched.answer.is, sched.answer.d)
      BY <1>t DEF AnswersTell
    <3> QED BY <2>2, <2>5, <2>6, <3>1, <3>2 DEF Tells, AnswersTell
  <2>9. AnswersTell'
    BY <1>t, <2>7, <2>8 DEF Answered, Replies
  <2> QED BY <1>5, <2>3, <2>9
<1> QED BY <1>3, <1>6, <1>7, <1>8

\* Running a scheduled task keeps what is known of the prompts.
LEMMA PromptTask ==
  ASSUME PromptInv, RunTask, TypeInv'
  PROVE  Loaded' /\ Recorded' /\ AnswersTell'
<1>t. TypeInv /\ TypeOK /\ TypeOK' /\ Answered /\ Loaded /\ Recorded /\ AnswersTell
  BY ReceiptsTellInHalves DEF PromptInv, TypeInv
<1>d. /\ Deliveries \intersect Tasks = {} /\ Deliveries \subseteq Prompts /\ Tasks \subseteq Prompts
      /\ MacDone \subseteq Deliveries
      /\ sched.ids \subseteq Tasks /\ sched.todo \subseteq Tasks
      /\ ran \in [Prompts -> Nat] /\ ran' \in [Prompts -> Nat]
  BY <1>t, PollingAssumption DEF TypeOK, Prompts, MacDone
<1>1. UNCHANGED <<mac, saved, delivered>> /\ sched.pc = "run"
  BY DEF RunTask, macVars
<1>2. PICK t \in sched.todo, answer \in {"accepted", "failed"} :
        /\ Outcome(t, answer)
        /\ sched' = [sched EXCEPT !.pc = "receipt", !.todo = @ \ {t}, !.ids = @ \union {t},
                                  !.answer = [d |-> t, is |-> answer]]
  BY DEF RunTask
<1>3. /\ sched'.pc = "receipt" /\ sched'.todo = sched.todo \ {t} /\ sched'.ids = sched.ids \union {t}
      /\ sched'.answer.d = t /\ sched'.answer.is = answer
  BY <1>t, <1>2 DEF TypeOK
<1>4. MacDone' = MacDone /\ SchedDone = sched.ids /\ SchedDone' = sched.ids \union {t}
  BY <1>1, <1>3 DEF MacDone, SchedDone
<1>5. t \in Tasks /\ t \in Prompts /\ t \notin MacDone \union SchedDone
  BY <1>t, <1>d, <1>4 DEF Loaded
<1>6. /\ \A q \in Prompts : q # t => ran'[q] = ran[q]
      /\ unsure \subseteq unsure' /\ unsure' \subseteq unsure \union {t}
      /\ t \notin unsure' => ran'[t] <= 1
      /\ answer = "accepted" => ran'[t] > 0
      /\ answer = "failed" => ran'[t] = 0 \/ t \in unsure'
  BY <1>t, <1>2, <1>5, OutcomeRecords
<1>7. Loaded'
  BY <1>t, <1>1, <1>3, <1>4 DEF Loaded
<1>8. Recorded'
  <2>1. \A p \in Prompts \ unsure' : ran'[p] <= 1
    BY <1>t, <1>6 DEF Recorded
  <2>2. \A p \in Prompts \ unsure' : ran'[p] > 0 => p \in MacDone' \union SchedDone'
    BY <1>t, <1>4, <1>6 DEF Recorded
  <2>3. \A p \in MacDone' : ran'[p] > 0
    BY <1>t, <1>d, <1>4, <1>5, <1>6 DEF Recorded
  <2> QED BY <2>1, <2>2, <2>3 DEF Recorded
<1>9. Tells(sched.answer.is, sched.answer.d)'
  BY <1>2, <1>3, <1>6 DEF Tells
<1>10. mac'.answer = mac.answer
  BY <1>1
<1>11. ASSUME mac.answer = NoAnswer
       PROVE  AnswersTell'
  BY <1>9, <1>10, <1>11 DEF Tells, AnswersTell, NoAnswer, None
<1>12. ASSUME mac.answer.d \in Deliveries
       PROVE  AnswersTell'
  <2>1. mac.answer.d # t /\ mac.answer.d \in Prompts
    BY <1>d, <1>5, <1>12
  <2>2. Tells(mac.answer.is, mac.answer.d)
    BY <1>t DEF AnswersTell
  <2> QED BY <1>6, <1>9, <1>10, <2>1, <2>2 DEF Tells, AnswersTell
<1>13. AnswersTell'
  BY <1>t, <1>11, <1>12 DEF Answered, Replies
<1> QED BY <1>7, <1>8, <1>13

\* What is known of the prompts holds at the start.
LEMMA PromptInvInit == Init => PromptInv
<1> SUFFICES ASSUME Init PROVE PromptInv
  OBVIOUS
<1>1. TypeInv
  BY TypeInit
<1>2. Loaded
  BY DEF Init, Loaded, MacDone, SchedDone, Off, NoRun
<1>3. Recorded
  BY DEF Init, Recorded, MacDone, SchedDone, Off, NoRun
<1>4. ReceiptsTell
  BY DEF Init, ReceiptsTell, Off, NoRun, NoAnswer, None
<1> QED BY <1>1, <1>2, <1>3, <1>4 DEF PromptInv

\* Every step keeps what is known of the prompts.
LEMMA PromptInvStep ==
  ASSUME PromptInv, [Next]_vars
  PROVE  PromptInv'
<1>t. TypeInv /\ TypeInv' /\ Recorded /\ EventsTell /\ AnswersTell
  BY TypeInvStep, ReceiptsTellInHalves DEF PromptInv
<1>1. EventsTell'
  BY <1>t, EventsTellStep
<1>2. Loaded' /\ Recorded' /\ AnswersTell'
  <2>1. CASE Process
    BY <2>1, <1>t, PromptProcess
  <2>2. CASE RunTask
    BY <2>2, <1>t, PromptTask
  <2>3. CASE ~Process /\ ~RunTask
    <3>1. ran' = ran /\ unsure \subseteq unsure'
      BY <2>3, <1>t, RunsGrow
    <3>2. /\ Loaded' /\ MacDone' \subseteq MacDone
          /\ \A p \in Prompts \ unsure' : p \in MacDone \union SchedDone /\ ran[p] > 0
                                           => p \in MacDone' \union SchedDone'
          /\ mac'.answer \in {mac.answer, NoAnswer} /\ sched'.answer \in {sched.answer, NoAnswer}
      BY <2>3, RecordsStep
    <3>3. Recorded'
      BY <1>t, <3>1, <3>2 DEF Recorded
    <3>4. NoAnswer.is \notin {"accepted", "duplicate", "failed"}
      BY DEF NoAnswer, None
    <3>5. AnswersTell'
      BY <1>t, <3>1, <3>2, <3>4 DEF AnswersTell, Tells
    <3> QED BY <3>2, <3>3, <3>5
  <2> QED BY <2>1, <2>2, <2>3
<1>3. ReceiptsTell'
  BY <1>1, <1>2, ReceiptsTellInHalves DEF ReceiptsTell, EventsTell, AnswersTell, Tells
<1> QED BY <1>t, <1>2, <1>3 DEF PromptInv

\* For any number of deliveries, restarts, kills and timeouts: a prompt runs
\* on the desktop once, unless a timeout or a kill hid that it had run.
THEOREM PromptsRunOnce == Spec => []RunsOnce
<1>1. PromptInv => RunsOnce
  <2> SUFFICES ASSUME PromptInv, NEW p \in Prompts, ran[p] > 1, p \notin unsure
               PROVE  FALSE
    BY DEF RunsOnce
  <2>1. ran[p] <= 1 /\ ran[p] \in Nat
    BY DEF PromptInv, TypeInv, TypeOK, Recorded
  <2> QED BY <2>1
<1> QED BY <1>1, PromptInvInit, PromptInvStep, PTL DEF Spec

\* And a receipt, as the companion or the scheduler holds it and as the relay
\* keeps it, tells what happened to the prompt.
THEOREM ReceiptsTellTheTruth == Spec => []ReceiptsTell
<1>1. PromptInv => ReceiptsTell
  BY DEF PromptInv
<1> QED BY <1>1, PromptInvInit, PromptInvStep, PTL DEF Spec

-----------------------------------------------------------------------------
(* Where the cursor goes.                                                  *)

CursorParts == IsFiniteSet(events) /\ Numbered /\ Contiguous /\ SavedPassedOver /\ NonePassedOver

\* A step that neither takes up nor brings an event: the cursor stays, or is
\* read from the file or written to it, or a process begins with none.
LEMMA CursorStays ==
  ASSUME CursorInv, TypeOK',
         UNCHANGED <<events, next>> \/ \E to, type, d : Grows(to, type, d),
         UNCHANGED <<handled, fresh>>,
         mac'.cursor \in {mac.cursor, saved.cursor, 0}, saved'.cursor \in {saved.cursor, mac.cursor},
         mac'.batch = {} \/ (mac'.batch = mac.batch /\ mac'.cursor = mac.cursor)
  PROVE  CursorParts'
<1>t. /\ \A e \in events \union events' : e.id \in Nat
      /\ next \in Nat /\ next > 0 /\ next' \in Nat
      /\ mac.cursor \in Nat /\ saved.cursor \in Nat
      /\ \A e \in mac.batch : e.id \in Nat
  BY PollingAssumption DEF CursorInv, TypeInv, TypeOK, Event
<1>i. CursorParts
  BY DEF CursorInv, CursorParts
<1>z. fresh => \A e \in events : ~(e.type = "submit" /\ e.id <= 0 /\ e.id \notin handled)
  BY <1>t, <1>i DEF CursorParts, NonePassedOver
<1>1. /\ next' >= next
      /\ \A e \in events' : e \in events \/ e.id = next
      /\ \A e \in events' : e.id < next'
      /\ IsFiniteSet(events')
  <2>1. CASE UNCHANGED <<events, next>>
    BY <1>t, <1>i, <2>1 DEF CursorParts, Numbered
  <2>2. ASSUME NEW to, NEW type, NEW d, Grows(to, type, d)
        PROVE  /\ next' >= next
               /\ \A e \in events' : e \in events \/ e.id = next
               /\ \A e \in events' : e.id < next'
               /\ IsFiniteSet(events')
    <3> DEFINE new == [id |-> next, to |-> to, type |-> type, d |-> d]
    <3>1. next' = next + 1 /\ events' \subseteq events \union {new} /\ new.id = next
      BY <2>2 DEF Grows
    <3>2. IsFiniteSet(events \union {new})
      BY <1>i, FS_AddElement DEF CursorParts
    <3>3. IsFiniteSet(events')
      BY <3>1, <3>2, FS_Subset
    <3> QED BY <1>t, <1>i, <3>1, <3>3 DEF CursorParts, Numbered
  <2> QED BY <2>1, <2>2
<1>2. Numbered'
  BY <1>t, <1>i, <1>1 DEF CursorParts, Numbered
<1>3. Contiguous'
  BY <1>t, <1>i, <1>1 DEF CursorParts, Contiguous, Numbered
<1>4. SavedPassedOver'
  BY <1>t, <1>i, <1>1 DEF CursorParts, SavedPassedOver, NonePassedOver, Numbered
<1>5. NonePassedOver'
  BY <1>t, <1>i, <1>z, <1>1 DEF CursorParts, SavedPassedOver, NonePassedOver, Numbered
<1> QED BY <1>1, <1>2, <1>3, <1>4, <1>5 DEF CursorParts

\* What a poll brings.
LEMMA PollBrings ==
  ASSUME TypeInv, IsFiniteSet(events), NEW since \in Nat
  PROVE  /\ For("mac", since) \subseteq events
         /\ \A e \in For("mac", since) : e.id > since
         /\ \A e \in For("mac", since), f \in events :
              f.to = "mac" /\ since < f.id /\ f.id < e.id => f \in For("mac", since)
<1> DEFINE mine == {e \in events : e.to = "mac" /\ e.id > since}
<1>1. IsFiniteSet(mine) /\ (\A e \in mine : e.id \in Nat) /\ MaxPerPoll \in Nat
  BY FS_Subset, PollingAssumption DEF TypeInv, TypeOK, Event
<1>2. For("mac", since) = First(MaxPerPoll, mine)
  BY DEF For
<1>3. First(MaxPerPoll, mine) \subseteq mine
  BY PicksFrom
<1>4. \A e \in First(MaxPerPoll, mine), f \in mine : f.id < e.id => f \in First(MaxPerPoll, mine)
  <2> HIDE DEF mine
  <2> QED BY <1>1, FirstHasNoGap
<1> QED BY <1>2, <1>3, <1>4

\* Every step keeps the cursor's invariant.
LEMMA CursorInvStep ==
  ASSUME CursorInv, [Next]_vars
  PROVE  CursorInv'
<1>t. TypeInv /\ TypeInv' /\ TypeOK' /\ CursorParts
  BY TypeInvStep DEF CursorInv, CursorParts, TypeInv
<1>m. mac \in [pc : {"off", "idle", "probe", "batch", "receipt", "snapshot", "end"}, cursor : 0..MaxIds,
              done : SUBSET Deliveries, batch : SUBSET Event, answer : Answer, told : BOOLEAN]
  BY <1>t DEF TypeInv, TypeOK
<1>n. /\ \A e \in events \union mac.batch : e.id \in Nat
      /\ next \in Nat /\ next > 0 /\ mac.cursor \in Nat /\ saved.cursor \in Nat
  BY <1>t, PollingAssumption DEF TypeInv, TypeOK, Event
<1>q. ASSUME ~RelayRestarts,
             UNCHANGED <<handled, fresh>>,
             mac'.cursor \in {mac.cursor, saved.cursor, 0}, saved'.cursor \in {saved.cursor, mac.cursor},
             mac'.batch = {} \/ (mac'.batch = mac.batch /\ mac'.cursor = mac.cursor)
      PROVE  CursorParts'
  BY <1>q, <1>t, StoreStep, CursorStays
<1>1. CASE RelayRestarts
  <2>1. events' = {} /\ next' = 1 /\ UNCHANGED <<mac, saved>>
        /\ fresh' = (saved.cursor = 0 /\ mac.cursor = 0 /\ mac.batch = {})
    BY <1>1 DEF RelayRestarts
  <2>2. IsFiniteSet(events')
    BY <2>1, FS_EmptySet
  <2>3. Numbered'
    <3>1. CASE fresh'
      <4>1. mac'.cursor = 0 /\ saved'.cursor = 0 /\ mac'.batch = {} /\ next' = 1
        BY <2>1, <3>1
      <4> QED BY <2>1, <4>1 DEF Numbered
    <3>2. CASE ~fresh'
      BY <2>1, <3>2 DEF Numbered
    <3> QED BY <3>1, <3>2
  <2>4. Contiguous' /\ SavedPassedOver' /\ NonePassedOver'
    BY <2>1 DEF Contiguous, SavedPassedOver, NonePassedOver
  <2> QED BY <1>t, <2>2, <2>3, <2>4 DEF CursorInv
<1>2. CASE ~RelayRestarts /\ (Expires \/ PhoneJoins \/ Submit \/ RunDue \/ RunTask \/ TaskReceipt
                             \/ SaveDelivered \/ SchedulerKilled \/ UNCHANGED vars)
  <2>1. UNCHANGED macVars
    BY <1>2 DEF Expires, PhoneJoins, Submit, RunDue, RunTask, TaskReceipt, SaveDelivered, SchedulerKilled, vars
  <2>2. CursorParts'
    BY <1>q, <1>2, <2>1 DEF macVars
  <2> QED BY <1>t, <2>2 DEF CursorInv, CursorParts
<1>3. CASE ~RelayRestarts /\ (Start \/ Killed)
  <2>1. /\ UNCHANGED <<handled, fresh, saved>> /\ mac'.batch = {}
        /\ mac'.cursor \in {saved.cursor, 0}
    BY <1>3, Starting DEF Start, Killed
  <2>2. CursorParts'
    BY <1>q, <1>3, <2>1
  <2> QED BY <1>t, <2>2 DEF CursorInv, CursorParts
<1>4. CASE ~RelayRestarts /\ (Receipt \/ Snapshot \/ LoopError \/ EndRound)
  <2>1. UNCHANGED <<handled, fresh, saved>>
    BY <1>4 DEF Receipt, Snapshot, LoopError, EndRound
  <2>2. mac'.cursor = mac.cursor /\ mac'.batch \in {mac.batch, {}}
    BY <1>m, <1>4 DEF Receipt, Snapshot, LoopError, EndRound
  <2>3. CursorParts'
    BY <1>q, <1>4, <2>1, <2>2
  <2> QED BY <1>t, <2>3 DEF CursorInv, CursorParts
<1>5. CASE ~RelayRestarts /\ EndBatch
  <2>1. UNCHANGED <<handled, fresh>> /\ saved'.cursor = mac.cursor
    BY <1>5 DEF EndBatch
  <2>2. mac'.cursor = mac.cursor /\ mac'.batch = mac.batch
    BY <1>m, <1>5 DEF EndBatch
  <2>3. CursorParts'
    BY <1>q, <1>5, <2>1, <2>2
  <2> QED BY <1>t, <2>3 DEF CursorInv, CursorParts
<1>6. CASE Poll
  <2>1. UNCHANGED <<events, next, handled, fresh, saved>>
    BY <1>6 DEF Poll, relayVars
  <2>2. mac'.cursor = mac.cursor /\ mac'.batch = For("mac", mac.cursor)
    BY <1>m, <1>6 DEF Poll
  <2>3. Numbered' /\ Contiguous'
    BY <1>t, <1>n, <2>1, <2>2, PollBrings DEF CursorParts, Numbered, Contiguous
  <2> QED BY <1>t, <2>1, <2>2, <2>3 DEF CursorInv, CursorParts, SavedPassedOver, NonePassedOver
<1>7. CASE Probe
  <2>1. UNCHANGED <<events, next, handled>>
    BY <1>7 DEF Probe, relayVars
  <2>2. \/ /\ mac' = [mac EXCEPT !.pc = "batch", !.cursor = 0, !.batch = For("mac", 0)]
           /\ saved' = [cursor |-> 0, done |-> mac.done] /\ fresh' = TRUE
        \/ mac' = [mac EXCEPT !.pc = "end"] /\ UNCHANGED <<saved, fresh>>
    BY <1>7 DEF Probe
  <2>3. CASE mac' = [mac EXCEPT !.pc = "end"] /\ UNCHANGED <<saved, fresh>>
    <3>1. mac'.cursor = mac.cursor /\ mac'.batch = mac.batch
      BY <1>m, <2>3
    <3> QED BY <1>t, <2>1, <2>3, <3>1 DEF CursorInv, CursorParts, Numbered, Contiguous, SavedPassedOver,
                                        NonePassedOver
  <2>4. CASE /\ mac' = [mac EXCEPT !.pc = "batch", !.cursor = 0, !.batch = For("mac", 0)]
             /\ saved' = [cursor |-> 0, done |-> mac.done] /\ fresh' = TRUE
    <3>1. mac'.cursor = 0 /\ mac'.batch = For("mac", 0) /\ saved'.cursor = 0
      BY <1>m, <2>4
    <3>2. \A e \in events : ~(e.id <= 0)
      BY <1>t, <1>n, PollingAssumption DEF TypeInv, TypeOK, Event
    <3>3. Numbered' /\ Contiguous'
      BY <1>t, <1>n, <2>1, <3>1, PollBrings DEF CursorParts, Numbered, Contiguous
    <3>4. SavedPassedOver' /\ NonePassedOver'
      BY <2>1, <3>1, <3>2 DEF SavedPassedOver, NonePassedOver
    <3> QED BY <1>t, <2>1, <3>3, <3>4 DEF CursorInv, CursorParts
  <2> QED BY <2>2, <2>3, <2>4
<1>8. CASE Process
  <2>1. UNCHANGED <<events, next, fresh, saved>>
    BY <1>8 DEF Process, relayVars
  <2>2. PICK e \in mac.batch :
          /\ \A f \in mac.batch : e.id <= f.id
          /\ mac'.batch = mac.batch \ {e}
          /\ mac'.cursor = IF e.id > mac.cursor THEN e.id ELSE mac.cursor
          /\ handled' = IF fresh THEN handled \union {e.id} ELSE handled
    BY <1>t, <1>8, ProcessDoes
  <2>3. Numbered' /\ Contiguous'
    BY <1>t, <1>n, <2>1, <2>2 DEF CursorParts, Numbered, Contiguous
  <2>4. SavedPassedOver'
    BY <1>t, <2>1, <2>2 DEF CursorParts, SavedPassedOver
  <2>5. ASSUME fresh, NEW f \in events, f.type = "submit", f.id <= mac'.cursor
        PROVE  f.id \in handled'
    <3>1. f.to = "mac" /\ f.id \in Nat /\ e.id \in Nat
      BY <1>t, <1>n, <2>5 DEF TypeInv, Submitted
    <3>2. CASE f.id <= mac.cursor
      BY <1>t, <2>2, <2>5, <3>2 DEF CursorParts, NonePassedOver
    <3>3. CASE mac.cursor < f.id /\ f.id < e.id
      BY <1>t, <1>n, <2>2, <2>5, <3>1, <3>3 DEF CursorParts, Contiguous
    <3>4. CASE f.id = e.id
      BY <2>2, <2>5, <3>4
    <3> QED BY <1>n, <2>2, <2>5, <3>1, <3>2, <3>3, <3>4
  <2>6. NonePassedOver'
    BY <2>1, <2>5 DEF NonePassedOver
  <2> QED BY <1>t, <2>1, <2>3, <2>4, <2>6 DEF CursorInv, CursorParts
<1> QED BY <1>1, <1>2, <1>3, <1>4, <1>5, <1>6, <1>7, <1>8 DEF Next

\* For any limits of the store and of a poll, any number of restarts, kills
\* and errors: once the companion's cursor belongs to this life of the relay,
\* it passes over no prompt that the relay holds.
THEOREM CursorPassesOverNone == Spec => []NonePassedOver
<1>1. Init => CursorInv
  <2> SUFFICES ASSUME Init PROVE CursorInv
    OBVIOUS
  <2>1. TypeInv /\ IsFiniteSet(events)
    BY TypeInit, FS_EmptySet DEF Init
  <2>2. Numbered /\ Contiguous /\ SavedPassedOver /\ NonePassedOver
    BY DEF Init, Off, Numbered, Contiguous, SavedPassedOver, NonePassedOver
  <2> QED BY <2>1, <2>2 DEF CursorInv
<1>2. CursorInv => NonePassedOver
  BY DEF CursorInv
<1> QED BY <1>1, <1>2, CursorInvStep, PTL DEF Spec
=============================================================================
