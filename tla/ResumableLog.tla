---------------------------- MODULE ResumableLog ----------------------------
(***************************************************************************)
(* What the relay's event log promises to the clients that resume from it: *)
(* every pairing has a floor, and a client that presents a cursor at or    *)
(* above the floor is given exactly what was committed after that cursor.  *)
(* The log may forget entries, as long as it raises the floor over them.   *)
(* EventStore implements this specification.                               *)
(***************************************************************************)
EXTENDS Integers

CONSTANTS
    Pairings,   \* the pairings that share the log
    Entries     \* the records a log may hold; each has a cursor and a pairing

VARIABLES
    history,    \* every entry ever committed
    kept,       \* the entries a resume can still return
    floor       \* floor[p]: the lowest cursor p may resume from

vars == <<history, kept, floor>>

Init == /\ history = {}
        /\ kept = {}
        /\ floor = [p \in Pairings |-> 0]

(* The next entry is numbered above every entry ever committed.  The floor  *)
(* of a pairing that has nothing kept may follow up to just below it.      *)
Commit ==
    \E e \in Entries \ history :
        /\ \A d \in history : d.cursor < e.cursor
        /\ history' = history \cup {e}
        /\ kept' = kept \cup {e}
        /\ floor' \in [Pairings -> Nat]
        /\ \A p \in Pairings : 
              \/ floor'[p] = floor[p]
              \/ /\ p = e.pairing
                 /\ \A k \in kept : k.pairing # p
                 /\ floor[p] <= floor'[p]
                 /\ floor'[p] < e.cursor

(* Entries may be forgotten in any order, but never above the floor.       *)
Forget ==
    /\ kept' \subseteq kept
    /\ floor' \in [Pairings -> Nat]
    /\ \A p \in Pairings : floor[p] <= floor'[p]
    /\ \A k \in kept \ kept' : k.cursor <= floor'[k.pairing]
    /\ UNCHANGED history

Next == Commit \/ Forget

Spec == Init /\ [][Next]_vars
=============================================================================
