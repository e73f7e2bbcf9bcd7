----------------------------- MODULE RelayStream -----------------------------
(***************************************************************************)
(* One pairing's event stream, from the relay's Mac connections through    *)
(* the event store and the WebSocket hub to a mobile replica:              *)
(*   gateway/relay/app.py            _mac_receive, _commit_mac_event,      *)
(*                                   _handle_source_gap, mobile_websocket  *)
(*   gateway/relay/presence.py       which Mac connection is current       *)
(*   gateway/relay/websocket_hub.py  registration, replay, broadcast       *)
(*   src/mobile/reducer.js           what the replica does with a frame    *)
(* The store is the log EventStore implements: a resume above the floor is *)
(* exact at the moment it is read.  Everything runs on one event loop, so  *)
(* a step is the code between two awaits.  The hub's asyncio.Lock is       *)
(* fair: hubQueue holds its owner and the tasks waiting for it, in order.  *)
(***************************************************************************)
EXTENDS Integers, FiniteSets, Sequences, SequencesExt, FiniteSetsExt

CONSTANTS
    MaxSource,    \* bound: events the desktop source emits
    MaxGen,       \* bound: connections the Mac Companion makes
    MaxConns,     \* bound: connections the mobile makes
    MaxFaults,    \* bound: faults in a behaviour
    Faults,       \* the faults that happen: a subset of FaultKinds
    QueueLimit    \* client_queue_max_events

FaultKinds == {"prune", "cut", "loss", "newstore"}

ASSUME RelayStreamAssumption ==
    /\ MaxSource \in Nat /\ MaxGen \in Nat /\ MaxConns \in Nat /\ MaxFaults \in Nat
    /\ Faults \subseteq FaultKinds
    /\ QueueLimit \in Nat \ {0}

VARIABLES
    source,     \* the kinds of the events the source emitted; an event is its
                \* position, which is also its revision
    epoch,      \* epoch of the relay's database
    log,        \* committed events: log[cursor] is a position of source
    kept,       \* cursors still in the database
    floor,      \* retained floor
    macGen,     \* generation of the current Mac connection, 0 for none
    reader,     \* reader[g]: the relay's reader task of Mac connection g
    hubQueue,   \* the hub lock: its owner, then the tasks that wait for it
    client,     \* the hub's record of the mobile connection
    mobile,     \* the mobile replica
    gap,        \* the Companion owes the relay a source.gap
    atRisk,     \* history: positions whose delivery a fault may have prevented
    sent,       \* history: cursors enqueued on this mobile connection
    faults, conns  \* counters of the bounds

store == <<epoch, log, kept, floor>>
vars == <<source, epoch, log, kept, floor, macGen, reader, hubQueue, client,
          mobile, gap, atRisk, sent, faults, conns>>

Kinds == {"text", "terminal", "page", "final"}
KeyframeKinds == {"page", "final"}
Gens == 1..MaxGen
Positions == 1..MaxSource
MobileTask == 0   \* in hubQueue: the task that registers the mobile connection

\* Frames of a mobile connection.
EventFrames == [type : {"event"}, epoch : 1..(MaxFaults + 1),
                cursor : Positions, pos : Positions]
ResetFrames == [type : {"reset"}, epoch : 1..(MaxFaults + 1)]

TypeOK ==
    /\ source \in Seq(Kinds) /\ Len(source) <= MaxSource
    /\ epoch \in 1..(MaxFaults + 1)
    /\ log \in Seq(Positions)
    /\ kept \subseteq DOMAIN log
    /\ floor \in 0..Len(log)
    /\ macGen \in 0..MaxGen
    /\ reader \in [Gens -> [pc : {"off", "idle", "appended", "marking", "queued",
                                  "resetting", "gone"},
                            cursor : 0..MaxSource]]
    /\ hubQueue \in Seq(Gens \cup {MobileTask})
    /\ client \in [pc : {"down", "queued", "floor", "replay", "drain", "registered"},
                   phase : {"new", "replaying", "reset", "live"},
                   floor : 0..MaxSource, high : 0..MaxSource, last : 0..MaxSource,
                   buffer : SUBSET Positions,
                   queue : Seq(EventFrames \cup ResetFrames)]
    /\ Len(client.queue) <= QueueLimit
    /\ mobile \in [epoch : 0..(MaxFaults + 1), applied : 0..MaxSource,
                   recovery : BOOLEAN, staged : SUBSET Positions,
                   revision : 0..MaxSource, have : SUBSET Positions]
    /\ gap \in BOOLEAN
    /\ atRisk \subseteq Positions
    /\ sent \in Seq(Positions)
    /\ faults \in 0..MaxFaults /\ conns \in 0..MaxConns

NoClient == [pc |-> "down", phase |-> "new", floor |-> 0, high |-> 0, last |-> 0,
             buffer |-> {}, queue |-> <<>>]

NoReader == [pc |-> "off", cursor |-> 0]
Idle == [pc |-> "idle", cursor |-> 0]
Gone == [pc |-> "gone", cursor |-> 0]

Init ==
    /\ source = <<>>
    /\ epoch = 1 /\ log = <<>> /\ kept = {} /\ floor = 0
    /\ macGen = 0 /\ reader = [g \in Gens |-> NoReader]
    /\ hubQueue = <<>>
    /\ client = NoClient
    /\ mobile = [epoch |-> 0, applied |-> 0, recovery |-> FALSE, staged |-> {},
                 revision |-> 0, have |-> {}]
    /\ gap = FALSE /\ atRisk = {} /\ sent = <<>> /\ faults = 0 /\ conns = 0

\* A task stands in the hub's queue once.
Withdrawn(task, queue) ==
    IF task \in ToSet(queue)
    THEN RemoveAt(queue, CHOOSE i \in DOMAIN queue : queue[i] = task)
    ELSE queue

Fault(kind) == kind \in Faults /\ faults < MaxFaults /\ faults' = faults + 1

-----------------------------------------------------------------------------
(* The source, and the Mac connections.                                    *)

\* run_if_current holds the presence lock across a store append or a reset.
PresenceFree == \A g \in Gens : reader[g].pc \notin {"appended", "resetting"}

(* What the source emits next.  A keyframe's two events are adjacent; its  *)
(* final describes everything before it.                                   *)
Emits(kind) ==
    /\ Len(source) < MaxSource
    /\ (kind = "final") <=> (source # <<>> /\ Last(source) = "page")
    /\ source' = Append(source, kind)

(* An event the Companion never delivers: evicted from its bounded queue,  *)
(* or tagged with the generation of a connection that is gone.             *)
SourceLoses(kind) ==
    /\ Fault("loss")
    /\ Emits(kind)
    /\ gap' = TRUE
    /\ atRisk' = atRisk \cup {Len(source')}
    /\ UNCHANGED <<store, macGen, reader, hubQueue, client, mobile, sent, conns>>

(* mac_websocket registers a new connection in place of the current one,   *)
(* which it closes; or the current one has closed by itself.  A reader     *)
(* that is in the middle of an event may still finish it.                  *)
MacConnects(g) ==
    /\ PresenceFree
    /\ reader[g].pc = "off"
    /\ \A h \in 1..(g - 1) : reader[h].pc # "off"
    /\ macGen' = g
    /\ reader' = [h \in Gens |-> IF h = g THEN Idle
                                 ELSE IF reader[h].pc = "idle" THEN Gone ELSE reader[h]]
    /\ UNCHANGED <<source, store, hubQueue, client, mobile, gap, atRisk, sent,
                   faults, conns>>

\* Positions a superseded connection has committed and not yet queued.
BeingMarked == {log[reader[h].cursor] : h \in {g \in Gens : reader[g].pc = "marking"}}

(* The store commits the event inside run_if_current: an obsolete          *)
(* connection is refused there (stale_mac_connection).  It overtakes what  *)
(* an obsolete connection committed and has not queued for broadcast.      *)
CommitEvent(g, kind) ==
    /\ PresenceFree
    /\ macGen = g /\ reader[g].pc = "idle"
    /\ Emits(kind)
    /\ log' = Append(log, Len(source'))
    /\ kept' = kept \cup {Len(log')}
    /\ reader' = [reader EXCEPT ![g] = [pc |-> "appended", cursor |-> Len(log')]]
    /\ atRisk' = atRisk \cup BeingMarked
    /\ UNCHANGED <<epoch, floor, macGen, hubQueue, client, mobile, gap, sent,
                   faults, conns>>

KindAt(cursor) == source[log[cursor]]

(* Back in the reader, which now asks for the hub lock; a terminal event   *)
(* first awaits mark_terminal.                                             *)
AppendReturns(g) ==
    /\ reader[g].pc = "appended"
    /\ IF KindAt(reader[g].cursor) = "terminal"
       THEN /\ reader' = [reader EXCEPT ![g].pc = "marking"]
            /\ UNCHANGED hubQueue
       ELSE /\ reader' = [reader EXCEPT ![g].pc = "queued"]
            /\ hubQueue' = Append(hubQueue, g)
    /\ UNCHANGED <<source, store, macGen, client, mobile, gap, atRisk, sent,
                   faults, conns>>

MarkTerminalReturns(g) ==
    /\ reader[g].pc = "marking"
    /\ reader' = [reader EXCEPT ![g].pc = "queued"]
    /\ hubQueue' = Append(hubQueue, g)
    /\ UNCHANGED <<source, store, macGen, client, mobile, gap, atRisk, sent,
                   faults, conns>>

\* source.gap: require_reset asks for the hub lock, under the presence lock.
SourceGap(g) ==
    /\ PresenceFree
    /\ macGen = g /\ reader[g].pc = "idle"
    /\ gap
    /\ gap' = FALSE
    /\ reader' = [reader EXCEPT ![g].pc = "resetting"]
    /\ hubQueue' = Append(hubQueue, g)
    /\ UNCHANGED <<source, store, macGen, client, mobile, atRisk, sent, faults, conns>>

\* Fault variant: a cancelled reader keeps its place, and the lock if it owns it.
ReaderVanishes(g) ==
    /\ Fault("cut")
    /\ reader[g].pc \in {"appended", "marking", "queued", "resetting"}
    /\ reader' = [reader EXCEPT ![g] = Gone]
    /\ macGen' = IF macGen = g THEN 0 ELSE macGen
    /\ atRisk' = IF reader[g].pc = "resetting" THEN atRisk
                 ELSE atRisk \cup {log[reader[g].cursor]}
    /\ UNCHANGED <<source, store, hubQueue, client, mobile, gap, sent, conns>>

(* The reader of a failed or superseded connection is cancelled wherever   *)
(* it waits.  What it committed stays committed and is never broadcast.    *)
ReaderCancelled(g) ==
    /\ Fault("cut")
    /\ reader[g].pc \in {"appended", "marking", "queued", "resetting"}
    /\ reader' = [reader EXCEPT ![g] = Gone]
    /\ hubQueue' = Withdrawn(g, hubQueue)
    /\ macGen' = IF macGen = g THEN 0 ELSE macGen
    /\ atRisk' = IF reader[g].pc = "resetting" THEN atRisk
                 ELSE atRisk \cup {log[reader[g].cursor]}
    /\ UNCHANGED <<source, store, client, mobile, gap, sent, conns>>

-----------------------------------------------------------------------------
(* The database.                                                           *)

HighWater == Max(kept \cup {0})

\* Registration has checked the floor and has not read its rows yet.
ReplayPending == client.pc \in {"floor", "replay"}

PruneRows ==
    /\ Fault("prune")
    /\ \E gone \in SUBSET kept \ {{}} :
        /\ kept' = kept \ gone
        /\ floor' = Max(gone \cup {floor})
        /\ atRisk' = IF ReplayPending THEN atRisk \cup {log[c] : c \in gone}
                     ELSE atRisk
    /\ UNCHANGED <<source, epoch, log, macGen, reader, hubQueue, client, mobile,
                   gap, sent, conns>>

(* The relay is started on a new database: every connection ends and the   *)
(* cursors begin again, under another epoch.                               *)
NewStore ==
    /\ Fault("newstore")
    /\ epoch' = epoch + 1 /\ log' = <<>> /\ kept' = {} /\ floor' = 0
    /\ macGen' = 0
    /\ reader' = [g \in Gens |-> IF reader[g].pc = "off" THEN NoReader
                                 ELSE Gone]
    /\ hubQueue' = <<>> /\ client' = NoClient /\ sent' = <<>>
    /\ atRisk' = DOMAIN source
    /\ UNCHANGED <<source, mobile, gap, conns>>

-----------------------------------------------------------------------------
(* The hub.                                                                *)

EventFrame(cursor) ==
    [type |-> "event", epoch |-> epoch, cursor |-> cursor, pos |-> log[cursor]]
ResetFrame == [type |-> "reset", epoch |-> epoch]

InOrder(cursors) ==
    CHOOSE s \in [1..Cardinality(cursors) -> cursors] :
        \A i, j \in DOMAIN s : i < j => s[i] < s[j]
FramesOf(cursors) == [i \in DOMAIN cursors |-> EventFrame(cursors[i])]
Fits(frames) == Len(client.queue) + Len(frames) <= QueueLimit

(* Enqueue the events, in that order, and change the hub's record of the   *)
(* client; a queue over its limit closes the connection (SlowConsumer).    *)
Enqueue(cursors, changed) ==
    IF Fits(cursors)
    THEN /\ client' = [changed EXCEPT !.queue = @ \o FramesOf(cursors)]
         /\ sent' = sent \o cursors
    ELSE client' = NoClient /\ sent' = <<>>

EnqueueReset(changed) ==
    IF Fits(<<ResetFrame>>)
    THEN client' = [changed EXCEPT !.queue = Append(@, ResetFrame)] /\ UNCHANGED sent
    ELSE client' = NoClient /\ sent' = <<>>

Owns(task) == hubQueue # <<>> /\ Head(hubQueue) = task

\* A reader's lock section ends; a registration whose connection it closed has
\* nothing left to do when its turn comes.
ReaderReleases ==
    hubQueue' = IF client'.pc = "down" THEN Withdrawn(MobileTask, Tail(hubQueue))
                ELSE Tail(hubQueue)

(* The mobile presents the epoch and the cursor it has applied.  A task of *)
(* an earlier connection only touches that connection.                     *)
MobileConnects ==
    /\ client.pc = "down"
    /\ conns < MaxConns /\ conns' = conns + 1
    /\ client' = [NoClient EXCEPT !.pc = "queued", !.last = mobile.applied]
    /\ hubQueue' = Append(hubQueue, MobileTask)
    /\ sent' = <<>>
    /\ UNCHANGED <<source, store, macGen, reader, mobile, gap, atRisk, faults>>

MobileCloses ==
    /\ client.pc # "down"
    /\ client' = NoClient /\ sent' = <<>>
    /\ hubQueue' = Withdrawn(MobileTask, hubQueue)
    /\ UNCHANGED <<source, store, macGen, reader, mobile, gap, atRisk, faults, conns>>

\* The lock is taken, and held while the floor and the high water are read.
RegisterReadsFloor ==
    /\ Owns(MobileTask) /\ client.pc = "queued"
    /\ client' = [client EXCEPT !.pc = "floor", !.phase = "replaying", !.floor = floor]
    /\ UNCHANGED <<source, store, macGen, reader, hubQueue, mobile, gap, atRisk,
                   sent, faults, conns>>

\* Fault variant: the epoch the mobile presents is not compared.
RegisterIgnoresEpoch ==
    /\ Owns(MobileTask) /\ client.pc = "floor"
    /\ hubQueue' = Tail(hubQueue)
    /\ IF client.last < client.floor
       THEN EnqueueReset([client EXCEPT !.pc = "registered", !.phase = "reset",
                                        !.floor = 0])
       ELSE /\ client' = [client EXCEPT !.pc = "replay", !.floor = 0,
                                        !.high = HighWater]
            /\ UNCHANGED sent
    /\ UNCHANGED <<source, store, macGen, reader, mobile, gap, atRisk, faults, conns>>

RegisterDecides ==
    /\ Owns(MobileTask) /\ client.pc = "floor"
    /\ hubQueue' = Tail(hubQueue)
    /\ IF (mobile.epoch # 0 /\ mobile.epoch # epoch) \/ client.last < client.floor
       THEN EnqueueReset([client EXCEPT !.pc = "registered", !.phase = "reset",
                                        !.floor = 0])
       ELSE /\ client' = [client EXCEPT !.pc = "replay", !.floor = 0,
                                        !.high = HighWater]
            /\ UNCHANGED sent
    /\ UNCHANGED <<source, store, macGen, reader, mobile, gap, atRisk, faults, conns>>

\* Fault variant: the high water itself is left out.
ReplayedBelow == InOrder({c \in kept : client.last < c /\ c < client.high})

Replayed == InOrder({c \in kept : client.last < c /\ c <= client.high})

\* Outside the lock: the rows in (cursor, H] are read and enqueued.
RegisterReplays ==
    /\ client.pc = "replay"
    /\ Enqueue(Replayed,
               [client EXCEPT !.pc = "drain", !.high = 0,
                              !.last = Max({@} \cup ToSet(Replayed))])
    /\ hubQueue' = IF Fits(Replayed) THEN Append(hubQueue, MobileTask) ELSE hubQueue
    /\ UNCHANGED <<source, store, macGen, reader, mobile, gap, atRisk, faults, conns>>

\* Fault variant: only what is not next to the last cursor is drained.
DrainedLate == InOrder({c \in client.buffer : client.last + 1 < c})

\* Fault variant: the buffer is drained without deduplication.
DrainedAll == InOrder(client.buffer)

Drained == InOrder({c \in client.buffer : client.last < c})

RegisterDrains ==
    /\ Owns(MobileTask) /\ client.pc = "drain"
    /\ hubQueue' = Tail(hubQueue)
    /\ Enqueue(Drained,
               [client EXCEPT !.pc = "registered", !.phase = "live", !.buffer = {},
                              !.last = IF Drained = <<>> THEN @ ELSE Last(Drained)])
    /\ UNCHANGED <<source, store, macGen, reader, mobile, gap, atRisk, faults, conns>>

\* register_mobile has added the connection to the hub's set.
Subscribed == client.pc \notin {"down", "queued"}

\* broadcast_committed, for one client.
Publish(c) ==
    CASE ~Subscribed -> UNCHANGED <<client, sent>>
      [] Subscribed /\ client.phase = "replaying" ->
            /\ client' = [client EXCEPT !.buffer = @ \cup {c}]
            /\ UNCHANGED sent
      [] Subscribed /\ client.phase = "reset" /\ KindAt(c) = "final" ->
            Enqueue(<<c>> \o InOrder({b \in client.buffer : c < b}),
                    [client EXCEPT !.phase = "live", !.last = c, !.buffer = {}])
      [] Subscribed /\ client.phase = "reset" /\ KindAt(c) = "page" ->
            Enqueue(<<c>>, [client EXCEPT !.last = c])
      [] Subscribed /\ client.phase = "reset" /\ KindAt(c) \notin KeyframeKinds ->
            /\ client' = [client EXCEPT !.buffer = @ \cup {c}]
            /\ UNCHANGED sent
      [] Subscribed /\ client.phase = "live" ->
            IF client.last < c THEN Enqueue(<<c>>, [client EXCEPT !.last = c])
            ELSE UNCHANGED <<client, sent>>

\* A reset is queued ahead of a replay that will go live all the same.
ResetOvertakesReplay == client.pc \in {"replay", "drain"} /\ client.phase = "reset"

BroadcastCommitted(g) ==
    /\ Owns(g) /\ reader[g].pc = "queued"
    /\ Publish(reader[g].cursor) /\ ReaderReleases
    /\ reader' = [reader EXCEPT ![g] = IF macGen = g THEN Idle ELSE Gone]
    /\ atRisk' = IF ResetOvertakesReplay THEN atRisk \cup {log[reader[g].cursor]}
                 ELSE atRisk
    /\ UNCHANGED <<source, store, macGen, mobile, gap, faults, conns>>

(* The reset empties the live buffer also of a connection whose replay is  *)
(* still to be enqueued, behind the reset, and which will then go live.    *)
RequireReset(g) ==
    /\ Owns(g) /\ reader[g].pc = "resetting"
    /\ atRisk' = IF client.pc \in {"replay", "drain"}
                 THEN atRisk \cup {log[c] : c \in client.buffer} ELSE atRisk
    /\ IF Subscribed
       THEN EnqueueReset([client EXCEPT !.phase = "reset", !.buffer = {}])
       ELSE UNCHANGED <<client, sent>>
    /\ ReaderReleases
    /\ reader' = [reader EXCEPT ![g] = Idle]
    /\ UNCHANGED <<source, store, macGen, mobile, gap, faults, conns>>

-----------------------------------------------------------------------------
(* The replica.                                                            *)

NeedsReset(m) == [m EXCEPT !.recovery = TRUE]

(* applyEvent: text carries the revision it extends, and anything but that *)
(* revision asks for a keyframe; other events are applied unless stale.    *)
AppliedEvent(m, f) ==
    LET advanced == [m EXCEPT !.applied = f.cursor]
        kind == source[f.pos]
    IN  CASE kind = "page" -> [m EXCEPT !.staged = @ \cup {f.pos}]
          [] kind = "final" ->
                IF f.pos - 1 \in m.staged
                THEN [advanced EXCEPT !.recovery = FALSE, !.staged = @ \ {f.pos - 1},
                                      !.revision = f.pos, !.have = 1..f.pos]
                ELSE NeedsReset(m)
          [] kind \notin KeyframeKinds /\ f.pos < m.revision -> advanced
          [] kind = "text" /\ f.pos >= m.revision /\ f.pos # m.revision + 1 ->
                NeedsReset(m)
          [] \/ kind = "terminal" /\ f.pos >= m.revision
             \/ kind = "text" /\ f.pos = m.revision + 1 ->
                [advanced EXCEPT !.revision = f.pos, !.have = @ \cup {f.pos}]

\* Fault variant: in recovery every event is dropped, keyframes too.
AppliedStrictly(m, f) ==
    IF f.type = "reset" THEN [NeedsReset(m) EXCEPT !.epoch = f.epoch]
    ELSE IF m.epoch \notin {0, f.epoch} THEN NeedsReset(m)
    ELSE LET known == [m EXCEPT !.epoch = f.epoch]
         IN  IF f.cursor <= m.applied \/ m.recovery THEN known ELSE AppliedEvent(known, f)

\* applyFrame.
Applied(m, f) ==
    IF f.type = "reset" THEN [NeedsReset(m) EXCEPT !.epoch = f.epoch]
    ELSE IF m.epoch \notin {0, f.epoch} THEN NeedsReset(m)
    ELSE LET known == [m EXCEPT !.epoch = f.epoch]
         IN  IF f.cursor <= m.applied THEN known
             ELSE IF m.recovery /\ source[f.pos] \notin KeyframeKinds THEN known
             ELSE AppliedEvent(known, f)

MobileReceives ==
    /\ client.queue # <<>>
    /\ mobile' = Applied(mobile, Head(client.queue))
    /\ client' = [client EXCEPT !.queue = Tail(@)]
    /\ UNCHANGED <<source, store, macGen, reader, hubQueue, gap, atRisk, sent,
                   faults, conns>>

-----------------------------------------------------------------------------
MacStep(g) ==
    \/ \E kind \in Kinds : CommitEvent(g, kind)
    \/ MacConnects(g) \/ SourceGap(g) \/ ReaderCancelled(g)

ReaderTask(g) ==
    \/ AppendReturns(g) \/ MarkTerminalReturns(g)
    \/ BroadcastCommitted(g) \/ RequireReset(g)

RegistrationTask ==
    RegisterReadsFloor \/ RegisterDecides \/ RegisterReplays \/ RegisterDrains

Next ==
    \/ \E kind \in Kinds : SourceLoses(kind)
    \/ \E g \in Gens : MacStep(g) \/ ReaderTask(g)
    \/ RegistrationTask
    \/ PruneRows \/ NewStore
    \/ MobileConnects \/ MobileCloses \/ MobileReceives

Spec == Init /\ [][Next]_vars

\* The event loop runs every task that can run; no fault, no connection and no
\* further event is promised.
FairSpec ==
    /\ Spec
    /\ \A g \in Gens : WF_vars(ReaderTask(g))
    /\ WF_vars(RegistrationTask)

-----------------------------------------------------------------------------
(* Properties.                                                             *)

\* The events the replica's state should reflect and does not.
Holes ==
    {p \in 1..mobile.revision : p \notin mobile.have /\ source[p] \notin KeyframeKinds}

(* A replica that is not waiting for a keyframe shows every event up to    *)
(* its revision, except those whose delivery one of the known faults put   *)
(* at risk: lost before the relay, committed by a reader that was then     *)
(* cancelled or overtaken, pruned while its replay was being set up, or    *)
(* broadcast while a reset had overtaken a replay.  Replay, hand-off,      *)
(* resets and reconnections lose nothing otherwise.                        *)
OnlyFaultsLeaveHoles == ~mobile.recovery => Holes \subseteq atRisk

(* The same replica shows every event up to its revision, whatever fault   *)
(* happened: "There is no seam gap".                                       *)
NoSeamGap == ~mobile.recovery => Holes = {}

(* A connection carries a cursor at most once, through replay, buffering,  *)
(* resets and live delivery.                                               *)
CursorSentOnce == IsInjective(sent)

(* When no reader is between a commit and its broadcast, a live client     *)
(* that has read its queue and awaits no keyframe is up to date: it has    *)
(* applied, or a fault put at risk, every event still in the database, and *)
(* it knows which database that is.                                        *)
LiveClientIsCurrent ==
    /\ client.pc = "registered" /\ client.phase = "live" /\ client.queue = <<>>
    /\ ~mobile.recovery
    /\ \A g \in Gens : reader[g].pc \notin {"appended", "marking", "queued"}
    => \A c \in kept : (c > mobile.applied \/ mobile.epoch # epoch)
                        => log[c] \in atRisk \/ KindAt(c) = "page"

Delivers(f) ==
    /\ client.queue # <<>> /\ f = Head(client.queue)
    /\ client' = [client EXCEPT !.queue = Tail(@)]

(* A replica that waits for a keyframe takes the keyframe of its epoch     *)
(* that the relay sends: the page is staged, and the final that completes  *)
(* it ends the wait.                                                       *)
RecoveryTakesKeyframe ==
    [][ mobile.recovery /\ client.queue # <<>>
        => LET f == Head(client.queue)
           IN  Delivers(f) /\ f.type = "event" /\ f.epoch = mobile.epoch
               => /\ source[f.pos] = "page" => f.pos \in mobile'.staged
                  /\ source[f.pos] = "final" /\ f.pos - 1 \in mobile.staged
                        => ~mobile'.recovery ]_vars

(* The tasks that share the hub lock end, whatever connection closes or is  *)
(* superseded while one waits for it or holds it: every registration the    *)
(* hub accepted, and every broadcast of an event a living reader committed. *)
RelayTasksEnd ==
    /\ client.pc \in {"queued", "floor", "replay", "drain"}
           ~> client.pc \in {"registered", "down"}
    /\ \A g \in Gens : reader[g].pc \in {"appended", "marking", "queued", "resetting"}
           ~> reader[g].pc \in {"idle", "gone"}
=============================================================================
