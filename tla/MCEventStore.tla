---------------------------- MODULE MCEventStore ----------------------------
(***************************************************************************)
(* Instance of EventStore for TLC: one turn with an unfinished and a       *)
(* terminal event, one event outside turns, and a conflicting event that   *)
(* reuses a uid.                                                           *)
(***************************************************************************)
EXTENDS EventStore, TLC

CONSTANTS p1, p2, t1, noTurn

Event(uid, turn, terminal, bytes) ==
    [uid |-> uid, turn |-> turn, terminal |-> terminal, bytes |-> bytes]

MCEvents == { Event(1, t1, FALSE, 1), Event(2, t1, TRUE, 1),
              Event(3, noTurn, FALSE, 1), Event(1, t1, FALSE, 3) }

PairingSymmetry == Permutations({p1, p2})
=============================================================================
