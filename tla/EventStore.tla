----------------------------- MODULE EventStore -----------------------------
(***************************************************************************)
(* The relay's event store (gateway/relay/event_store.py): one SQLite      *)
(* table of events shared by every pairing, numbered by an AUTOINCREMENT   *)
(* cursor, and a table of retention floors.  One owner task executes the   *)
(* operations one after the other (_run), so an append is a single step.   *)
(* A prune is a transaction of several statements: it deletes what has     *)
(* expired, then deletes batches until the table is within its limits,     *)
(* and an exception or a crash anywhere before COMMIT takes it back.       *)
(*                                                                         *)
(* rows and saved are the tables as the connection sees them inside its    *)
(* transaction, disk what the file holds after a ROLLBACK or a restart.    *)
(***************************************************************************)
EXTENDS Integers, FiniteSets, FiniteSetsExt

CONSTANTS
    Pairings,       \* pairing ids
    Events,         \* the events sources publish: [uid, turn, terminal, bytes]
    NoTurn,         \* turn of an event that belongs to no turn (NULL)
    TerminalGrace,  \* terminal_recovery_seconds
    StaleAfter,     \* stale_in_flight_seconds
    MaxRows,        \* max_rows
    MaxBytes,       \* max_bytes
    BatchSize,      \* rows one size-trimming statement deletes (256)
    ReplayLimit,    \* rows one replay returns at most (10_000)
    MaxCursor,      \* bound: appends in a behaviour
    MaxTime         \* bound: the wall clock is in 0..MaxTime

ASSUME EventStoreAssumption ==
    /\ \A e \in Events : e.bytes \in Nat /\ e.terminal \in BOOLEAN
    /\ TerminalGrace \in Nat /\ StaleAfter \in Nat
    /\ MaxRows \in Nat /\ MaxBytes \in Nat
    /\ BatchSize \in Nat \ {0} /\ ReplayLimit \in Nat \ {0}
    /\ MaxCursor \in Nat /\ MaxTime \in Nat

VARIABLES
    rows,       \* the events table
    saved,      \* the retention_floor table; 0 stands for a missing row
    disk,       \* the committed image of both tables
    prune,      \* "idle", or "trimming" inside a prune's transaction
    pruneNow,   \* the time that prune was called with
    nextCursor, \* sqlite_sequence + 1: survives the deletion of every row
    clock,      \* time.time(), which may be set back
    history     \* history variable: every row ever committed

vars == <<rows, saved, disk, prune, pruneNow, nextCursor, clock, history>>

Rows == [cursor : 1..MaxCursor, pairing : Pairings, event : Events, at : 0..MaxTime]

TypeOK ==
    /\ rows \subseteq Rows
    /\ saved \in [Pairings -> 0..MaxCursor]
    /\ disk \in [rows : SUBSET Rows, saved : [Pairings -> 0..MaxCursor]]
    /\ prune \in {"idle", "trimming"}
    /\ pruneNow \in 0..MaxTime
    /\ nextCursor \in 1..(MaxCursor + 1)
    /\ clock \in 0..MaxTime
    /\ history \subseteq Rows

-----------------------------------------------------------------------------
(* Queries.                                                                *)

Of(p, table) == {r \in table : r.pairing = p}
Cursors(table) == {r.cursor : r \in table}

\* SELECT COALESCE(MAX(cursor),0): the highest cursor still in the table.
HighWater(p) == Max(Cursors(Of(p, disk.rows)) \cup {0})

(* The floor a client is checked against: the saved floor or the cursor    *)
(* before the first retained row, whichever is higher.                     *)
FloorIn(table, floors, p) ==
    IF Of(p, table) = {} THEN floors[p]
    ELSE Max({Min(Cursors(Of(p, table))) - 1, floors[p]})

RetainedFloor(p) == FloorIn(disk.rows, disk.saved, p)

Between(p, after, through) ==
    {r \in Of(p, disk.rows) : after < r.cursor /\ r.cursor <= through}

\* The first ReplayLimit rows of the range, in cursor order.
Replay(p, after, through) ==
    {r \in Between(p, after, through) :
        Cardinality({s \in Between(p, after, through) : s.cursor < r.cursor})
            < ReplayLimit}

-----------------------------------------------------------------------------
(* Retention.                                                              *)

TurnRows(r, table) == {s \in table : s.pairing = r.pairing /\ s.event.turn = r.event.turn}
TerminalRows(r, table) == {s \in TurnRows(r, table) : s.event.terminal}
InTurn(r) == r.event.turn # NoTurn

\* Fault variant: every row ages by itself.
IsOldRow(r, table, now) == r.at < now - TerminalGrace

(* A row outside any turn ages by itself; the rows of a turn go together,  *)
(* when its last terminal event is old or, without one, when its newest    *)
(* event is stale.                                                         *)
IsExpired(r, table, now) ==
    \/ ~InTurn(r) /\ r.at < now - TerminalGrace
    \/ /\ InTurn(r)
       /\ TerminalRows(r, table) # {}
       /\ \A s \in TerminalRows(r, table) : s.at < now - TerminalGrace
    \/ /\ InTurn(r)
       /\ TerminalRows(r, table) = {}
       /\ \A s \in TurnRows(r, table) : s.at < now - StaleAfter

Expired(table, now) == {r \in table : IsExpired(r, table, now)}

\* Fault variant: INSERT OR REPLACE in place of the MAX-merge.
RecordFloorsReplacing(floors, gone) ==
    [p \in Pairings |-> IF Of(p, gone) = {} THEN floors[p] ELSE Max(Cursors(Of(p, gone)))]

\* MAX-merge of the highest deleted cursor of each pairing.
RecordFloors(floors, gone) ==
    [p \in Pairings |-> Max(Cursors(Of(p, gone)) \cup {floors[p]})]

SumOfBytes(table) == MapThenSumSet(LAMBDA r : r.event.bytes, table)

WithinLimits(table) == Cardinality(table) <= MaxRows /\ SumOfBytes(table) <= MaxBytes

\* Fault variant: the last two classes in the other order.
TrimClassSwapped(r, table, now) ==
    IF ~InTurn(r) THEN 3
    ELSE IF TerminalRows(r, table) = {} THEN 2
    ELSE 1

\* The order of size trimming: finished turns first, active turns last.
TrimClass(r, table, now) ==
    IF ~InTurn(r) THEN 2
    ELSE IF TerminalRows(r, table) = {} THEN 3
    ELSE IF \E s \in TerminalRows(r, table) : s.at < now - TerminalGrace THEN 0
    ELSE 1

TrimsBefore(s, r, table, now) ==
    LET cs == TrimClass(s, table, now)
        cr == TrimClass(r, table, now)
    IN  cs < cr \/ (cs = cr /\ s.cursor < r.cursor)

TrimBatch(table, now) ==
    {r \in table : Cardinality({s \in table : TrimsBefore(s, r, table, now)}) < BatchSize}

-----------------------------------------------------------------------------
Init ==
    /\ rows = {} /\ history = {}
    /\ saved = [p \in Pairings |-> 0]
    /\ disk = [rows |-> rows, saved |-> saved]
    /\ prune = "idle" /\ pruneNow = 0
    /\ nextCursor = 1
    /\ clock = 0

\* Fault variant: MAX(cursor)+1, as without AUTOINCREMENT.
NewRowAfterMax(p, e) ==
    [cursor |-> Max(Cursors(rows) \cup {0}) + 1, pairing |-> p, event |-> e, at |-> clock]

NewRow(p, e) == [cursor |-> nextCursor, pairing |-> p, event |-> e, at |-> clock]

\* Fault variant: no UNIQUE constraint on event_uid.
AppendUnchecked(p, e) ==
    /\ prune = "idle"
    /\ nextCursor <= MaxCursor
    /\ rows' = rows \cup {NewRow(p, e)}
    /\ disk' = [disk EXCEPT !.rows = rows']
    /\ history' = history \cup {NewRow(p, e)}
    /\ nextCursor' = nextCursor + 1
    /\ UNCHANGED <<saved, prune, pruneNow, clock>>

(* INSERT ... ON CONFLICT(event_uid) DO NOTHING, for a uid that is not in  *)
(* the table.  The uid of an event that was pruned is free again.          *)
AppendNew(p, e) ==
    /\ prune = "idle"
    /\ nextCursor <= MaxCursor
    /\ \A r \in rows : r.event.uid # e.uid
    /\ rows' = rows \cup {NewRow(p, e)}
    /\ disk' = [disk EXCEPT !.rows = rows']
    /\ history' = history \cup {NewRow(p, e)}
    /\ nextCursor' = nextCursor + 1
    /\ UNCHANGED <<saved, prune, pruneNow, clock>>

(* A uid that is in the table: the same event of the same pairing is       *)
(* acknowledged with its first cursor, anything else is event_uid_conflict.*)
(* Neither changes the tables.                                             *)
AppendKnown(p, e) ==
    /\ prune = "idle"
    /\ \E r \in rows : r.event.uid = e.uid
    /\ UNCHANGED vars

\* Fault variant: the expired rows' floors are not recorded.
PruneUnrecorded ==
    /\ prune = "idle"
    /\ prune' = "trimming"
    /\ pruneNow' = clock
    /\ rows' = rows \ Expired(rows, clock)
    /\ UNCHANGED <<saved, disk, nextCursor, clock, history>>

\* _prune up to and including the DELETE of expired rows.
PruneExpired ==
    /\ prune = "idle"
    /\ prune' = "trimming"
    /\ pruneNow' = clock
    /\ saved' = RecordFloors(saved, Expired(rows, clock))
    /\ rows' = rows \ Expired(rows, clock)
    /\ UNCHANGED <<disk, nextCursor, clock, history>>

\* One round of the loop that brings the table within its limits.
PruneTrim ==
    /\ prune = "trimming"
    /\ ~WithinLimits(rows)
    /\ TrimBatch(rows, pruneNow) # {}
    /\ saved' = RecordFloors(saved, TrimBatch(rows, pruneNow))
    /\ rows' = rows \ TrimBatch(rows, pruneNow)
    /\ UNCHANGED <<disk, prune, pruneNow, nextCursor, clock, history>>

PruneCommit ==
    /\ prune = "trimming"
    /\ WithinLimits(rows) \/ TrimBatch(rows, pruneNow) = {}
    /\ disk' = [rows |-> rows, saved |-> saved]
    /\ prune' = "idle"
    /\ UNCHANGED <<rows, saved, pruneNow, nextCursor, clock, history>>

\* An exception between BEGIN and COMMIT, or a crash of the relay there.
PruneRollback ==
    /\ prune = "trimming"
    /\ rows' = disk.rows
    /\ saved' = disk.saved
    /\ prune' = "idle"
    /\ UNCHANGED <<disk, pruneNow, nextCursor, clock, history>>

\* The wall clock moves, forwards or (set by the user or NTP) backwards.
ClockMoves ==
    /\ clock' \in 0..MaxTime
    /\ UNCHANGED <<rows, saved, disk, prune, pruneNow, nextCursor, history>>

Next ==
    \/ \E p \in Pairings, e \in Events : AppendNew(p, e) \/ AppendKnown(p, e)
    \/ PruneExpired \/ PruneTrim \/ PruneCommit \/ PruneRollback
    \/ ClockMoves

Spec == Init /\ [][Next]_vars

-----------------------------------------------------------------------------
(* Properties.                                                             *)

(* A client that resumes from a cursor its floor check lets through is     *)
(* given every event committed after it, or a full page of earlier ones:   *)
(* no prune, however interrupted, leaves a hole above the floor            *)
(* (retained_floor's "oldest cursor from which an exact resume is          *)
(* possible").                                                             *)
ExactResume ==
    \A r \in history : \A after \in 0..MaxCursor :
        RetainedFloor(r.pairing) <= after /\ after < r.cursor
            => LET through == HighWater(r.pairing)
               IN  \/ r \in Replay(r.pairing, after, through)
                   \/ ~(Cardinality({s \in Between(r.pairing, after, through) :
                                        s.cursor < r.cursor}) < ReplayLimit)

(* A cursor names one event forever, even after every row was pruned: a    *)
(* client's cursor never comes to stand for an event it has not seen.      *)
CursorNamesOneEvent ==
    \A r, s \in history : r.cursor = s.cursor => r = s

(* An event that its source sends again after it was pruned is committed a *)
(* second time.  No resume sees both: the floor has passed one of them.    *)
NoEventResumedTwice ==
    \A r, s \in history :
        r # s /\ r.event.uid = s.event.uid
            => \/ r.cursor <= RetainedFloor(r.pairing)
               \/ s.cursor <= RetainedFloor(s.pairing)

(* The floor a pairing is checked against never falls, whatever is pruned, *)
(* rolled back or appended: a cursor once refused stays refused.           *)
FloorNeverFalls ==
    [][\A p \in Pairings : RetainedFloor(p) <= RetainedFloor(p)']_vars

(* Expiry takes a turn whole: no event of a turn outlives, in the same     *)
(* DELETE, another event of that turn.                                     *)
TurnsExpireWhole ==
    [][prune = "idle" /\ prune' = "trimming"
        => \A r \in rows \ rows' : InTurn(r) =>
              \A s \in rows' : s.pairing = r.pairing => s.event.turn # r.event.turn]_vars

(* The size limit takes an event of an active turn only when nothing but   *)
(* events of active turns is left.                                         *)
ActiveTurnsTrimmedLast ==
    [][prune = "trimming" /\ prune' = "trimming"
        => \A r \in rows \ rows' : InTurn(r) /\ TerminalRows(r, rows) = {}
              => \A s \in rows' : InTurn(s) /\ TerminalRows(s, rows) = {}]_vars

Log == INSTANCE ResumableLog WITH
    Entries <- Rows,
    kept <- disk.rows,
    floor <- [p \in Pairings |-> RetainedFloor(p)]

\* The store implements the resumable log its clients rely on.
ImplementsLog == Log!Spec
=============================================================================
