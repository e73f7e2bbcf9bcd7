----------------------------- MODULE SourceFeed -----------------------------
(***************************************************************************)
(* How the text of a turn reaches the phone.  The desktop plugin observes  *)
(* what the model has written (source-capture.js), batches it into text    *)
(* deltas and cuts keyframes (stream-normalizer.js), publishes both on its *)
(* socket to the Companion (companion-channel.js), whose bridge queues     *)
(* them (bridge_server.py); the Companion's pump moves them into a bounded *)
(* outbound queue and its writer sends them to the relay                   *)
(* (stream_pump.py), which commits them and hands them to the phone        *)
(* (reducer.js).  Every stage may lose events, and each has its own way of *)
(* owning up to it: a resync marker, a source gap, a new binding.          *)
(*                                                                         *)
(* The relay and the phone are one step here, a frame committed, broadcast *)
(* and applied at once: RelayStream is about what happens between them.    *)
(* Whether a queue is full is a choice that costs a fault, since the       *)
(* queues of the code (512 events, 256 frames, 2 MiB) are far longer than  *)
(* any behaviour that TLC can hold.                                        *)
(***************************************************************************)
EXTENDS Naturals, FiniteSets, Sequences, SequencesExt

CONSTANTS
  MaxTurns,    \* turns of the conversation
  MaxChunks,   \* pieces of text the model writes in a turn
  MaxFaults,   \* faults of a behaviour, of whatever kind
  Faults       \* the kinds of faults, a subset of FaultKinds

FaultKinds == {"ask",        \* the phone returns and asks for a keyframe
               "cut",        \* the Companion loses its socket to the relay
               "drop",       \* the plugin loses its socket to the Companion
               "overflow",   \* the bridge's event queue is full
               "evict"}      \* a critical frame finds the outbound queue full

ASSUME SourceFeedAssumption ==
  /\ MaxTurns \in Nat \ {0} /\ MaxChunks \in Nat /\ MaxFaults \in Nat
  /\ Faults \subseteq FaultKinds

Turns == 1..MaxTurns
Lengths == 0..MaxChunks

VARIABLES
  turns,      \* turns started so far; the last one is the current one
  running,    \* the native send of the current turn has not returned
  tab,        \* pieces of each turn's message in Claudian's own state (lastText)
  sent,       \* those of them that are in a delta; the rest is pendingText
  base,       \* the revision a pending delta was begun at
  revision,   \* the conversation's revision, one per event
  keyframes,  \* keyframes whose checksum is being computed, oldest first
  channel,    \* the plugin's socket to the bridge is authenticated
  bridge,     \* the bridge's queue of events for the Companion
  companion,  \* the Companion's connection: state, generation, tasks
  outbound,   \* the Companion's outbound queue
  gapPending, \* an eviction from it owes the relay a source.gap
  asks,       \* keyframe requests the Companion's reader has not read
  phone,      \* the replica of the conversation on the phone
  faults      \* faults so far

desktop == <<turns, running, tab, sent, base>>
link == <<companion, outbound, gapPending, asks, phone>>
feedVars == <<desktop, revision, keyframes, channel, bridge, link, faults>>

-----------------------------------------------------------------------------
(* Events, frames and types. *)

Documents == [text : [Turns -> Lengths], over : BOOLEAN, revision : Nat]

FeedEvents ==
  [kind : {"started", "terminal"}, revision : Nat]
    \cup [kind : {"page"}, revision : Nat, id : Nat]
    \cup [kind : {"final"}, revision : Nat, id : Nat, document : Documents]
    \cup [kind : {"delta"}, revision : Nat, turn : Turns, base : Nat,
          offset : Lengths, upto : Lengths]

Critical(e) == e.kind \in {"page", "final", "terminal", "gap"}

Resync == [kind |-> "resync"]
Gap == [kind |-> "gap"]

Requesters == {"bind", "pump", "reader", "barrier", "nobody"}

FeedTypeOK ==
  /\ turns \in 0..MaxTurns /\ running \in BOOLEAN
  /\ tab \in [Turns -> Lengths] /\ sent \in [Turns -> Lengths]
  /\ \A t \in Turns : sent[t] <= tab[t]
  /\ base \in [Turns -> Nat] /\ revision \in Nat
  /\ keyframes \in Seq([by : Requesters, document : Documents])
  /\ channel \in BOOLEAN
  /\ bridge \in Seq(FeedEvents \cup {Resync})
  /\ companion \in [pc : {"down", "binding", "up"}, generation : Nat, ended : BOOLEAN,
                    pump : {"run", "owes", "asks"}, reader : {"run", "asks"}]
  /\ outbound \in Seq([generation : Nat, event : FeedEvents \cup {Gap}])
  /\ gapPending \in BOOLEAN /\ asks \in Nat
  /\ phone \in [text : [Turns -> Seq(Nat)], over : BOOLEAN, revision : Nat,
                recovery : BOOLEAN, page : Nat]
  /\ faults \in 0..MaxFaults

(* The phone is never ahead of the desktop, whatever it takes for its      *)
(* revision: it shows no more of a message than Claudian does, and no      *)
(* revision that the conversation has not reached.                         *)
PhoneIsBehind ==
  /\ phone.revision <= revision
  /\ \A t \in Turns : Len(phone.text[t]) <= tab[t]

Nothing == [t \in Turns |-> 0]

\* The plugin has been bound once and its first keyframe has calibrated the phone.
FeedInit ==
  /\ turns = 0 /\ running = FALSE
  /\ tab = Nothing /\ sent = Nothing /\ base = Nothing
  /\ revision = 2 /\ keyframes = <<>>
  /\ channel = TRUE /\ bridge = <<>>
  /\ companion = [pc |-> "up", generation |-> 1, ended |-> FALSE,
                  pump |-> "run", reader |-> "run"]
  /\ outbound = <<>> /\ gapPending = FALSE /\ asks = 0
  /\ phone = [text |-> [t \in Turns |-> <<>>], over |-> TRUE, revision |-> 2,
              recovery |-> FALSE, page |-> 1]
  /\ faults = 0

Fault(kind) == kind \in Faults /\ faults < MaxFaults /\ faults' = faults + 1

-----------------------------------------------------------------------------
(* The plugin publishes.  An event takes the next revision of the          *)
(* conversation whether or not anyone hears it.                            *)

\* Fault variant: the retained window is dropped and nothing says so.
OverflowsSilently(events, i) ==
  /\ bridge # <<>> \/ i > 1
  /\ bridge' = SubSeq(events, i + 1, Len(events))
  /\ Fault("overflow")

Overflows(events, i) ==
  /\ bridge # <<>> \/ i > 1
  /\ bridge' = <<Resync>> \o SubSeq(events, i + 1, Len(events))
  /\ Fault("overflow")

Published(events) ==
  \/ /\ ~channel
     /\ UNCHANGED <<bridge, faults>>
  \/ /\ channel
     /\ bridge' = bridge \o events
     /\ UNCHANGED faults
  \/ /\ channel
     /\ \E i \in DOMAIN events : Overflows(events, i)

Emits(events) == revision' = revision + Len(events) /\ Published(events)

\* The turns with text that no delta has carried yet.
Pending == {t \in Turns : sent[t] < tab[t]}

\* flushText: one delta per pending message, in the order of the turns.
InTurnOrder(set) ==
  CHOOSE s \in [1..Cardinality(set) -> set] :
    \A i, j \in DOMAIN s : i < j => s[i] < s[j]

Deltas ==
  LET order == InTurnOrder(Pending)
  IN [i \in DOMAIN order |->
        [kind |-> "delta", revision |-> revision + i, turn |-> order[i],
         base |-> base[order[i]], offset |-> sent[order[i]], upto |-> tab[order[i]]]]

FlushText ==
  /\ Pending # {}
  /\ Emits(Deltas) /\ sent' = tab
  /\ UNCHANGED <<turns, running, tab, base, keyframes, channel, link>>

(* A keyframe flushes the pending text, copies what the tab shows, and     *)
(* declares the revision that its own two events will bring the            *)
(* conversation to; then it waits for the checksum.                        *)
DocumentOf(over, r) == [text |-> tab, over |-> over, revision |-> r + 2]

Cut(requests, by, over) ==
  /\ Emits(Deltas) /\ sent' = tab
  /\ keyframes' = Append(requests,
       [by |-> by, document |-> DocumentOf(over, revision + Len(Deltas))])

Terminal(r) == [kind |-> "terminal", revision |-> r]

EventsOf(k) ==
  LET id == revision + 1
  IN <<[kind |-> "page", revision |-> id, id |-> id],
       [kind |-> "final", revision |-> id + 1, id |-> id, document |-> k.document]>>
     \o (IF k.by = "barrier" THEN <<Terminal(id + 2)>> ELSE <<>>)

\* What the answer of a keyframe does to the task that asked for it.
Answered(by) ==
  CASE by = "bind"   -> [companion EXCEPT !.pc = "up"]
    [] by = "pump"   -> [companion EXCEPT !.pump = "run"]
    [] by = "reader" -> [companion EXCEPT !.reader = "run"]
    [] OTHER         -> companion

(* The checksums are computed in the order they were asked for.  Pages,    *)
(* final and what follows them leave the plugin without yielding to        *)
(* anything but each other, then the request is answered.                  *)
KeyframeEnds ==
  /\ keyframes # <<>>
  /\ Emits(EventsOf(Head(keyframes)))
  /\ keyframes' = Tail(keyframes)
  /\ companion' = Answered(Head(keyframes).by)
  /\ UNCHANGED <<desktop, channel, outbound, gapPending, asks, phone>>

-----------------------------------------------------------------------------
(* Turns.                                                                  *)

Started(r) == [kind |-> "started", revision |-> r]

\* A send, or a continuation that Claudian starts before the first send
\* returned: that one is superseded and cuts no keyframe of its own.
TurnStarts ==
  /\ turns < MaxTurns
  /\ turns' = turns + 1 /\ running' = TRUE
  /\ Emits(<<Started(revision + 1)>>)
  /\ UNCHANGED <<tab, sent, base, keyframes, channel, link>>

\* The original chunk handler puts a piece into the tab; the wrapper then observes
\* the whole message (observeText), and a first pending piece notes the revision.
ChunkObserved ==
  /\ running /\ tab[turns] < MaxChunks
  /\ tab' = [tab EXCEPT ![turns] = @ + 1]
  /\ base' = [base EXCEPT ![turns] = IF turns \in Pending THEN @ ELSE revision]
  /\ UNCHANGED <<turns, running, sent, revision, keyframes, channel, bridge, link,
                 faults>>

\* The completion barrier: the outer send has returned.
SendReturns ==
  /\ running
  /\ running' = FALSE
  /\ Cut(keyframes, "barrier", TRUE)
  /\ UNCHANGED <<turns, tab, base, channel, link>>

-----------------------------------------------------------------------------
(* The socket between the plugin and the Companion.                        *)

Asked(by) == by \in {"bind", "pump", "reader"}

\* The requests that were under way are answered to nobody.
Orphaned == [i \in DOMAIN keyframes |->
               IF Asked(keyframes[i].by) THEN [keyframes[i] EXCEPT !.by = "nobody"]
               ELSE keyframes[i]]

\* Fault variant: the pump of a bound connection is not told.
TransportKept ==
  [companion EXCEPT !.pc = IF @ = "binding" THEN "down" ELSE @]

\* _end_transport tells the pump of a bound connection; a bind under way fails.
TransportEnded ==
  [companion EXCEPT !.ended = @ \/ companion.pc = "up",
                    !.pc = IF @ = "binding" THEN "down" ELSE @]

ChannelDrops ==
  /\ channel /\ Fault("drop")
  /\ channel' = FALSE
  /\ keyframes' = Orphaned /\ companion' = TransportEnded
  /\ UNCHANGED <<desktop, revision, bridge, outbound, gapPending, asks, phone>>

ChannelOpens ==
  /\ ~channel
  /\ channel' = TRUE
  /\ UNCHANGED <<desktop, revision, keyframes, bridge, link, faults>>

-----------------------------------------------------------------------------
(* The Companion.                                                          *)

\* The socket to the relay is open: bind the plugin, which answers with a keyframe.
Connects ==
  /\ companion.pc = "down" /\ channel
  /\ companion' = [pc |-> "binding", generation |-> companion.generation + 1,
                   ended |-> FALSE, pump |-> "run", reader |-> "run"]
  /\ asks' = 0
  /\ Cut(keyframes, "bind", ~running)
  /\ UNCHANGED <<turns, running, tab, base, channel, outbound, gapPending, phone>>

Runs(task) == companion.pc = "up" /\ companion[task] = "run"

\* put: a critical frame may push out the oldest frame that is not.
Put(e) ==
  LET frame == [generation |-> companion.generation, event |-> e]
      plain == {i \in DOMAIN outbound : ~Critical(outbound[i].event)}
  IN \/ /\ outbound' = Append(outbound, frame)
        /\ UNCHANGED <<gapPending, faults>>
     \/ /\ Critical(e) /\ plain # {} /\ Fault("evict")
        /\ \E i \in plain :
             /\ \A j \in plain : i <= j
             /\ outbound' = Append(RemoveAt(outbound, i), frame)
        /\ gapPending' = TRUE

PumpTakesEvent ==
  /\ Runs("pump") /\ ~companion.ended
  /\ bridge # <<>> /\ Head(bridge) # Resync
  /\ bridge' = Tail(bridge) /\ Put(Head(bridge))
  /\ UNCHANGED <<desktop, revision, keyframes, channel, companion, asks, phone>>

\* The marker of an overflow becomes a source.gap ...
PumpTakesResync ==
  /\ Runs("pump") /\ ~companion.ended
  /\ bridge # <<>> /\ Head(bridge) = Resync
  /\ bridge' = Tail(bridge) /\ Put(Gap)
  /\ companion' = [companion EXCEPT !.pump = "owes"]
  /\ UNCHANGED <<desktop, revision, keyframes, channel, asks, phone>>

\* ... and a keyframe, for which the pump waits.
PumpRequests ==
  /\ companion.pc = "up" /\ companion.pump = "owes" /\ channel
  /\ companion' = [companion EXCEPT !.pump = "asks"]
  /\ Cut(keyframes, "pump", ~running)
  /\ UNCHANGED <<turns, running, tab, base, channel, outbound, gapPending, asks,
                 phone>>

\* The reader passes on a keyframe.request of the relay and waits for the answer.
ReaderRequests ==
  /\ Runs("reader") /\ asks > 0 /\ channel
  /\ asks' = asks - 1
  /\ companion' = [companion EXCEPT !.reader = "asks"]
  /\ Cut(keyframes, "reader", ~running)
  /\ UNCHANGED <<turns, running, tab, base, channel, outbound, gapPending, phone>>

(* A connection ends when one of its tasks does: the socket is gone, the   *)
(* transport has ended, or a frame did not fit.  What the pump or the      *)
(* writer held in its hands at that moment is lost; the queues stay.       *)
InHand(queue) == {queue, IF queue = <<>> THEN queue ELSE Tail(queue)}

ConnectionEnds ==
  /\ companion.pc = "up"
  /\ \/ companion.ended /\ UNCHANGED faults
     \/ Fault("cut")
  /\ bridge' \in InHand(bridge)
  /\ \/ gapPending' = FALSE /\ UNCHANGED outbound
     \/ UNCHANGED gapPending /\ outbound' \in InHand(outbound)
  /\ companion' = [companion EXCEPT !.pc = "down", !.ended = FALSE,
                                    !.pump = "run", !.reader = "run"]
  /\ keyframes' = Orphaned /\ asks' = 0
  /\ UNCHANGED <<desktop, revision, channel, phone>>

-----------------------------------------------------------------------------
(* The relay and the phone.                                                *)

Recovers(p) == [p EXCEPT !.recovery = TRUE]

Calibrated(p, d) ==
  [p EXCEPT !.text = [t \in Turns |-> [i \in 1..d.text[t] |-> i]],
            !.over = d.over, !.revision = d.revision, !.recovery = FALSE]

\* Fault variant: only that the delta is not an old one is checked.
ContinuesForward(p, e) == e.revision > p.revision

\* A delta continues the replica's text from the revision and the length it has.
Continues(p, e) ==
  /\ e.base = p.revision /\ e.revision = p.revision + 1
  /\ e.offset = Len(p.text[e.turn])

Extended(p, e) ==
  [p EXCEPT !.text[e.turn] = @ \o [i \in 1..(e.upto - e.offset) |-> e.offset + i],
            !.revision = e.revision]

AppliedEvent(p, e) ==
  CASE e.kind = "page" -> [p EXCEPT !.page = e.id]
    [] e.kind = "final" -> IF p.page = e.id THEN Calibrated(p, e.document) ELSE Recovers(p)
    [] e.kind = "delta" /\ ~Continues(p, e) -> Recovers(p)
    [] e.kind = "delta" /\ Continues(p, e) -> Extended(p, e)
    [] OTHER -> [p EXCEPT !.revision = e.revision,
                          !.over = e.kind = "terminal"]

Ignored(p, e) ==
  /\ e.kind \notin {"page", "final"}
  /\ p.recovery \/ e.revision < p.revision

Applied(p, e) == IF Ignored(p, e) THEN p ELSE AppliedEvent(p, e)

\* The phone asks for a keyframe whenever it is told to recover.
Asks(p, e) == ~Ignored(p, e) /\ AppliedEvent(p, e).recovery /\ e.kind # "page"

RelayTakesGap ==
  /\ phone' = Recovers(phone)
  /\ asks' = asks + 2     \* the relay asks, and the phone does

RelayTakesEvent(frame) ==
  IF frame.generation # companion.generation
  THEN UNCHANGED <<phone, asks>>      \* stale_mac_generation
  ELSE /\ phone' = Applied(phone, frame.event)
       /\ asks' = IF Asks(phone, frame.event) THEN asks + 1 ELSE asks

\* The writer's next frame: the gap it owes comes before what is queued.
WriterSends ==
  /\ companion.pc = "up"
  /\ \/ /\ gapPending
        /\ gapPending' = FALSE
        /\ RelayTakesGap /\ UNCHANGED outbound
     \/ /\ ~gapPending /\ outbound # <<>>
        /\ outbound' = Tail(outbound)
        /\ IF Head(outbound).event = Gap THEN RelayTakesGap
           ELSE RelayTakesEvent(Head(outbound))
        /\ UNCHANGED gapPending
  /\ UNCHANGED <<desktop, revision, keyframes, channel, bridge, companion, faults>>

\* The phone comes to the foreground.
PhoneAsks ==
  /\ companion.pc = "up" /\ Fault("ask")
  /\ asks' = asks + 1
  /\ UNCHANGED <<desktop, revision, keyframes, channel, bridge, companion, outbound,
                 gapPending, phone>>

-----------------------------------------------------------------------------
Capture == TurnStarts \/ ChunkObserved \/ FlushText \/ SendReturns \/ KeyframeEnds

Feed == \/ Connects \/ PumpTakesEvent \/ PumpTakesResync \/ PumpRequests
        \/ ReaderRequests \/ WriterSends \/ ChannelOpens

FeedNext == \/ Capture \/ Feed \/ ConnectionEnds
        \/ ChannelDrops \/ PhoneAsks

FeedSpec == FeedInit /\ [][FeedNext]_feedVars

(* Timers fire, checksums are computed, sockets are reopened and tasks run *)
(* as long as they can: none of it waits for a user.                       *)
FairFeedSpec ==
  /\ FeedSpec
  /\ WF_feedVars(FlushText) /\ WF_feedVars(KeyframeEnds)
  /\ WF_feedVars(Connects) /\ WF_feedVars(ChannelOpens)
  /\ WF_feedVars(PumpTakesEvent) /\ WF_feedVars(PumpTakesResync) /\ WF_feedVars(PumpRequests)
  /\ WF_feedVars(ReaderRequests) /\ WF_feedVars(WriterSends)
  /\ WF_feedVars(companion.ended /\ ConnectionEnds)

-----------------------------------------------------------------------------
(* Properties.                                                             *)

(* What the phone shows of a message is the beginning of it: no piece is   *)
(* missing inside, none is there twice, whatever was lost on the way.      *)
ShownTextIsPrefix ==
  \A t \in Turns : \A i \in DOMAIN phone.text[t] : phone.text[t][i] = i

PhoneIsCurrent ==
  /\ ~phone.recovery /\ phone.over = ~running
  /\ \A t \in Turns : Len(phone.text[t]) = tab[t]

\* No turn is running and nothing is on its way.
Settled ==
  /\ ~running /\ keyframes = <<>> /\ Pending = {}
  /\ companion.pc = "up" /\ ~companion.ended /\ companion.pump = "run"
  /\ bridge = <<>> /\ outbound = <<>> /\ ~gapPending /\ asks = 0

(* Every loss is owned up to: when the feed has come to rest after a turn, *)
(* the phone is not waiting for a keyframe nobody will send, and it shows  *)
(* the whole text of every turn and that the last one is over.             *)
SettledIsCurrent == Settled => PhoneIsCurrent

(* Once no turn runs any more the phone catches up, whatever connection or *)
(* queue failed before and however often it had to ask for a keyframe.     *)
PhoneCatchesUp == <>[](~running) => <>[]PhoneIsCurrent

(* source-capture.js 145: a keyframe declares its revision "so the next    *)
(* text.delta base_revision matches the calibrated mobile replica", so a   *)
(* phone that lost nothing is never thrown back into recovery by a delta.  *)
CalibrationHolds == [][~phone.recovery => ~phone'.recovery]_feedVars
=============================================================================
