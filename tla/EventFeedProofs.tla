--------------------------- MODULE EventFeedProofs ---------------------------
(***************************************************************************)
(* Theorems about the events of a conversation: where they are stored, and *)
(* what they tell the phone.                                               *)
(*                                                                         *)
(* EventStore, for every set of pairings and events and every value of the *)
(* limits.  IInv is the inductive invariant: the saved floors cover every  *)
(* row that was ever deleted, in the working tables and in the committed   *)
(* image alike.                                                            *)
(*                                                                         *)
(* SourceFeed, for any number of turns, chunks and faults of any kind.     *)
(* FeedInv is the inductive invariant: whatever is on its way to the phone *)
(* tells of text that was written and of revisions that were reached.      *)
(***************************************************************************)
EXTENDS EventStore, SourceFeed, SequenceTheorems, FiniteSetTheorems,
        WellFoundedInduction, TLAPS

-----------------------------------------------------------------------------
(* Min and Max of FiniteSetsExt on sets of naturals: what their CHOOSE     *)
(* returns.  Floors and cursors are such extremes.                         *)

(* The order of the naturals is contained in a well-founded relation.      *)
LEMMA NatOrderWellFounded ==
    \E R : /\ IsWellFoundedOn(R, Nat)
           /\ \A a, b \in Nat : a < b => <<a, b>> \in R
<1> DEFINE R == OpToRel(<, Nat)
<1>1. \A a, b \in Nat : a < b => <<a, b>> \in R
  <2> SUFFICES ASSUME NEW a \in Nat, NEW b \in Nat, a < b
               PROVE  <<a, b>> \in {ss \in Nat \X Nat : ss[1] < ss[2]}
    BY DEF OpToRel
  <2> QED
    OBVIOUS
<1>2. IsWellFoundedOn(R, Nat)
  BY NatLessThanWellFounded
<1> HIDE DEF R
<1>3. QED
  BY <1>1, <1>2

(* Every nonempty set of naturals has a least element, which Min returns.  *)
LEMMA MinIsLeast ==
    ASSUME NEW S \in SUBSET Nat, S # {}
    PROVE  Min(S) \in S /\ \A y \in S : Min(S) <= y
<1>1. PICK R : /\ IsWellFoundedOn(R, Nat)
               /\ \A a, b \in Nat : a < b => <<a, b>> \in R
  BY NatOrderWellFounded
<1>2. \A a, b \in Nat : a < b => <<a, b>> \in R
  BY <1>1, Zenon
<1>3. PICK x \in S : \A y \in S : ~ (<<y, x>> \in R)
  <2>1. IsWellFoundedOn(R, Nat)
    BY <1>1
  <2>2. QED
    BY <2>1, WFMin, Zenon
<1>4. ASSUME NEW y \in S
      PROVE  x <= y
  <2>1. ~ (y < x)
    BY <1>2, <1>3, Zenon
  <2>2. QED
    BY <2>1
<1>5. QED
  BY <1>4 DEF Min

(* Every nonempty set of naturals that has an upper bound has a greatest   *)
(* element, which Max returns.                                             *)
LEMMA MaxIsGreatest ==
    ASSUME NEW N \in Nat, NEW S \in SUBSET (0..N), S # {}
    PROVE  Max(S) \in S /\ \A y \in S : y <= Max(S)
<1> DEFINE T == {N - x : x \in S}
<1>1. T \subseteq Nat /\ T # {}
  <2>1. \A x \in S : N - x \in Nat
    OBVIOUS
  <2>2. PICK x \in S : TRUE
    OBVIOUS
  <2>3. QED
    BY <2>1, <2>2
<1>2. Min(T) \in T /\ \A y \in T : Min(T) <= y
  BY <1>1, MinIsLeast
<1>3. PICK x \in S : Min(T) = N - x
  BY <1>2
<1>4. ASSUME NEW y \in S
      PROVE  x >= y
  <2>1. N - x <= N - y
    BY <1>2, <1>3
  <2>2. QED
    BY <2>1
<1>5. QED
  BY <1>4 DEF Max

-----------------------------------------------------------------------------
(* The invariant.                                                          *)

\* Every row that is gone from a table is at or below its pairing's floor.
FloorsCover(table, floors) ==
    \A r \in history \ table : r.cursor <= floors[r.pairing]

CursorsUsed ==
    /\ \A r \in history : r.cursor < nextCursor
    /\ \A p \in Pairings : saved[p] < nextCursor /\ disk.saved[p] < nextCursor

UidsUnique(table) ==
    \A r, s \in table : r.event.uid = s.event.uid => r = s

\* Inside a prune the working tables only lose rows and raise floors.
WorkFollowsDisk ==
    /\ rows \subseteq disk.rows
    /\ \A p \in Pairings : disk.saved[p] <= saved[p]
    /\ prune = "idle" => rows = disk.rows /\ saved = disk.saved

IInv ==
    /\ TypeOK
    /\ disk.rows \subseteq history
    /\ WorkFollowsDisk
    /\ CursorsUsed
    /\ CursorNamesOneEvent
    /\ UidsUnique(disk.rows)
    /\ FloorsCover(rows, saved)
    /\ FloorsCover(disk.rows, disk.saved)

Floors == [Pairings -> 0..MaxCursor]

-----------------------------------------------------------------------------
(* RecordFloors keeps its type, lowers no floor and covers what is deleted.*)
LEMMA RecordFloorsCovers ==
    ASSUME NEW floors \in Floors, NEW gone \in SUBSET Rows
    PROVE  /\ RecordFloors(floors, gone) \in Floors
           /\ \A p \in Pairings : floors[p] <= RecordFloors(floors, gone)[p]
           /\ \A r \in gone : r.cursor <= RecordFloors(floors, gone)[r.pairing]
           /\ \A p \in Pairings :
                \/ RecordFloors(floors, gone)[p] = floors[p]
                \/ \E r \in gone : RecordFloors(floors, gone)[p] = r.cursor
<1> DEFINE S(p) == Cursors(Of(p, gone)) \cup {floors[p]}
<1>1. ASSUME NEW p \in Pairings
      PROVE  /\ Max(S(p)) \in S(p)
             /\ \A y \in S(p) : y <= Max(S(p))
             /\ S(p) \subseteq 0..MaxCursor
  <2>1. S(p) \subseteq 0..MaxCursor /\ S(p) # {}
    BY EventStoreAssumption DEF Rows, Of, Cursors, Floors
  <2>2. MaxCursor \in Nat
    BY EventStoreAssumption
  <2> HIDE DEF S
  <2>3. QED
    BY <2>1, <2>2, MaxIsGreatest
<1>2. \A p \in Pairings : RecordFloors(floors, gone)[p] = Max(S(p))
  BY DEF RecordFloors
<1>3. RecordFloors(floors, gone) \in Floors
  <2>1. \A p \in Pairings : Max(S(p)) \in 0..MaxCursor
    BY <1>1
  <2>2. QED
    BY <2>1 DEF RecordFloors, Floors
<1>4. \A p \in Pairings : floors[p] <= RecordFloors(floors, gone)[p]
  BY <1>1, <1>2
<1>5. ASSUME NEW r \in gone
      PROVE  r.cursor <= RecordFloors(floors, gone)[r.pairing]
  <2>1. r.pairing \in Pairings /\ r.cursor \in S(r.pairing)
    BY DEF Rows, Of, Cursors
  <2>2. QED
    BY <1>1, <1>2, <2>1
<1>6. ASSUME NEW p \in Pairings
      PROVE  \/ RecordFloors(floors, gone)[p] = floors[p]
             \/ \E r \in gone : RecordFloors(floors, gone)[p] = r.cursor
  <2>1. Max(S(p)) \in S(p)
    BY <1>1
  <2>2. QED
    BY <1>2, <2>1 DEF Cursors, Of
<1>7. QED
  BY <1>3, <1>4, <1>5, <1>6

(* What FloorIn returns: the saved floor, or the cursor before the first   *)
(* row when that is higher.                                                *)
LEMMA FloorInBounds ==
    ASSUME NEW table \in SUBSET Rows, NEW floors \in Floors, NEW p \in Pairings
    PROVE  /\ FloorIn(table, floors, p) \in 0..MaxCursor
           /\ floors[p] <= FloorIn(table, floors, p)
           /\ Of(p, table) = {} => FloorIn(table, floors, p) = floors[p]
           /\ \A r \in Of(p, table) : \/ FloorIn(table, floors, p) = floors[p]
                                      \/ FloorIn(table, floors, p) <= r.cursor - 1
           /\ Of(p, table) # {} => \E r \in Of(p, table) :
                                        r.cursor - 1 <= FloorIn(table, floors, p)
<1>0. MaxCursor \in Nat /\ floors[p] \in 0..MaxCursor
  BY EventStoreAssumption DEF Floors
<1>1. CASE Of(p, table) = {}
  BY <1>0, <1>1 DEF FloorIn
<1>2. CASE Of(p, table) # {}
  <2> DEFINE C == Cursors(Of(p, table))
             M == Max({Min(C) - 1, floors[p]})
  <2>1. C \subseteq 1..MaxCursor /\ C # {}
    BY <1>2 DEF Cursors, Of, Rows
  <2>2. Min(C) \in C /\ \A y \in C : Min(C) <= y
    <3>1. C \in SUBSET Nat
      BY <2>1, <1>0
    <3> HIDE DEF C
    <3>2. QED
      BY <3>1, <2>1, MinIsLeast
  <2>3. {Min(C) - 1, floors[p]} \in SUBSET (0..MaxCursor)
    <3>1. Min(C) \in 1..MaxCursor
      BY <2>1, <2>2
    <3> HIDE DEF C
    <3>2. QED
      BY <3>1, <1>0
  <2>4. M \in {Min(C) - 1, floors[p]} /\ Min(C) - 1 <= M /\ floors[p] <= M
    <3> HIDE DEF C
    <3>1. QED
      BY <1>0, <2>3, MaxIsGreatest
  <2>5. FloorIn(table, floors, p) = M
    BY <1>2 DEF FloorIn
  <2>6. PICK r \in Of(p, table) : r.cursor = Min(C)
    BY <2>2 DEF Cursors
  <2>7. \A s \in Of(p, table) : Min(C) <= s.cursor /\ s.cursor \in 1..MaxCursor
    BY <2>1, <2>2 DEF Cursors
  <2> HIDE DEF C, M
  <2>8. Min(C) \in 1..MaxCursor
    BY <2>6, <2>7
  <2>9. \A s \in Of(p, table) : M = floors[p] \/ M <= s.cursor - 1
    BY <1>0, <2>4, <2>7, <2>8
  <2>10. QED
    BY <1>0, <1>2, <2>3, <2>4, <2>5, <2>6, <2>8, <2>9
<1>3. QED
  BY <1>1, <1>2

(* Deleting rows under a floor that covers them does not lower the floor.  *)
LEMMA FloorInMonotone ==
    ASSUME NEW t1 \in SUBSET Rows, NEW t2 \in SUBSET t1,
           NEW f1 \in Floors, NEW f2 \in Floors, NEW p \in Pairings,
           f1[p] <= f2[p],
           \A r \in Of(p, t1) : r \notin t2 => r.cursor <= f2[p]
    PROVE  FloorIn(t1, f1, p) <= FloorIn(t2, f2, p)
<1> DEFINE F1 == FloorIn(t1, f1, p)
           F2 == FloorIn(t2, f2, p)
<1>1. /\ F1 \in Nat /\ F2 \in Nat /\ f1[p] \in Nat /\ f2[p] \in Nat
      /\ f2[p] <= F2
  <2>1. MaxCursor \in Nat
    BY EventStoreAssumption
  <2>2. F1 \in 0..MaxCursor /\ F2 \in 0..MaxCursor /\ f2[p] <= F2
    BY FloorInBounds
  <2>3. QED
    BY <2>1, <2>2 DEF Floors
<1>2. \A r \in Of(p, t1) : F1 = f1[p] \/ F1 <= r.cursor - 1
  BY FloorInBounds
<1>3. Of(p, t1) = {} => F1 = f1[p]
  BY FloorInBounds
<1>4. Of(p, t2) # {} => \E r \in Of(p, t2) : r.cursor - 1 <= F2
  BY FloorInBounds
<1>5. \A r \in Of(p, t1) : r.cursor \in Nat
  BY DEF Of, Rows
<1>6. Of(p, t2) \subseteq Of(p, t1) /\ \A r \in Of(p, t1) : r \in Of(p, t2) \/ r \notin t2
  BY DEF Of
<1> HIDE DEF F1, F2
<1>7. F1 = f1[p] => F1 <= F2
  BY <1>1
<1>8. F1 # f1[p] /\ Of(p, t2) # {} => F1 <= F2
  BY <1>1, <1>2, <1>4, <1>5, <1>6
<1>9. ASSUME F1 # f1[p], Of(p, t2) = {}
      PROVE  F1 <= F2
  <2>1. PICK r \in Of(p, t1) : r \notin t2
    BY <1>3, <1>6, <1>9
  <2>2. QED
    BY <1>1, <1>2, <1>5, <1>9, <2>1
<1>10. QED
  BY <1>7, <1>8, <1>9 DEF F1, F2

(* Appending a row above every other leaves the floor of a pairing that    *)
(* has rows unchanged, and raises an empty one to below the row at most.   *)
LEMMA FloorInAppend ==
    ASSUME NEW table \in SUBSET Rows, NEW floors \in Floors, NEW p \in Pairings,
           NEW new \in Rows, 
           \A r \in table : r.cursor < new.cursor,
           floors[p] < new.cursor
    PROVE  \/ FloorIn(table \cup {new}, floors, p) = FloorIn(table, floors, p)
           \/ /\ p = new.pairing
              /\ Of(p, table) = {}
              /\ FloorIn(table, floors, p) <= FloorIn(table \cup {new}, floors, p)
              /\ FloorIn(table \cup {new}, floors, p) < new.cursor
<1> DEFINE t2 == table \cup {new}
           F1 == FloorIn(table, floors, p)
           F2 == FloorIn(t2, floors, p)
<1>1. CASE p # new.pairing
  <2>1. Of(p, t2) = Of(p, table)
    BY <1>1 DEF Of
  <2>2. QED
    BY <2>1 DEF FloorIn
<1>2. CASE p = new.pairing
  <2>0. t2 \in SUBSET Rows
    OBVIOUS
  <2>1. /\ F1 \in Nat /\ F2 \in Nat /\ floors[p] \in Nat
        /\ floors[p] <= F1 /\ floors[p] <= F2
    <3> HIDE DEF t2
    <3>1. MaxCursor \in Nat
      BY EventStoreAssumption
    <3>2. /\ F1 \in 0..MaxCursor /\ F2 \in 0..MaxCursor
          /\ floors[p] <= F1 /\ floors[p] <= F2
      BY <2>0, FloorInBounds
    <3>3. QED
      BY <3>1, <3>2 DEF Floors
  <2>2. /\ Of(p, table) = {} => F1 = floors[p]
        /\ \A r \in Of(p, table) : F1 = floors[p] \/ F1 <= r.cursor - 1
        /\ Of(p, table) # {} => \E r \in Of(p, table) : r.cursor - 1 <= F1
    BY FloorInBounds
  <2>3. /\ \A r \in Of(p, t2) : F2 = floors[p] \/ F2 <= r.cursor - 1
        /\ Of(p, t2) # {} => \E r \in Of(p, t2) : r.cursor - 1 <= F2
    <3> HIDE DEF t2
    <3>1. QED
      BY <2>0, FloorInBounds
  <2>4. Of(p, t2) = Of(p, table) \cup {new}
    BY <1>2 DEF Of
  <2>5. /\ \A r \in Of(p, table) : r.cursor \in Nat /\ r.cursor < new.cursor
        /\ new.cursor \in Nat
    BY DEF Of, Rows
  <2> HIDE DEF t2, F1, F2
  <2>6. CASE Of(p, table) = {}
    <3>1. F1 <= F2
      BY <2>1, <2>2, <2>6
    <3>2. new \in Of(p, t2)
      BY <2>4
    <3>3. F2 < new.cursor
      BY <2>1, <2>3, <2>5, <3>2
    <3>4. QED
      BY <1>2, <2>6, <3>1, <3>3 DEF F1, F2, t2
  <2>7. CASE Of(p, table) # {}
    <3>1. F2 <= F1
      BY <2>1, <2>2, <2>3, <2>4, <2>5, <2>7
    <3>2. PICK r \in Of(p, t2) : r.cursor - 1 <= F2
      BY <2>3, <2>4
    <3>3. PICK s \in Of(p, table) : s.cursor <= r.cursor
      BY <2>4, <2>5, <2>7
    <3>4. F1 <= F2
      BY <2>1, <2>2, <2>4, <2>5, <3>2, <3>3
    <3>5. QED
      BY <2>1, <3>1, <3>4 DEF F1, F2, t2
  <2>8. QED
    BY <2>6, <2>7
<1>3. QED
  BY <1>1, <1>2

-----------------------------------------------------------------------------
(* The invariant.                                                          *)

\* A prune's deletion of any set of rows, with the floors recorded for it.
LEMMA DeletionKeepsCover ==
    ASSUME IInv, NEW gone \in SUBSET rows
    PROVE  LET left == rows \ gone
               floors == RecordFloors(saved, gone)
           IN  /\ floors \in Floors
               /\ FloorsCover(left, floors)
               /\ \A p \in Pairings : /\ disk.saved[p] <= floors[p]
                                      /\ floors[p] < nextCursor
<1> DEFINE left == rows \ gone
           floors == RecordFloors(saved, gone)
<1>1. /\ rows \in SUBSET Rows /\ saved \in Floors /\ nextCursor \in Nat
      /\ disk.saved \in Floors /\ history \in SUBSET Rows /\ MaxCursor \in Nat
  BY EventStoreAssumption DEF IInv, TypeOK, Floors
<1>2. /\ floors \in Floors
      /\ \A p \in Pairings : saved[p] <= floors[p]
      /\ \A r \in gone : r.cursor <= floors[r.pairing]
      /\ \A p \in Pairings : floors[p] = saved[p] \/ \E r \in gone : floors[p] = r.cursor
  BY <1>1, RecordFloorsCovers
<1> HIDE DEF floors
<1>3. ASSUME NEW r \in history \ left
      PROVE  r.cursor <= floors[r.pairing]
  <2>1. r.cursor \in Nat /\ r.pairing \in Pairings
    BY <1>1 DEF Rows
  <2>2. saved[r.pairing] \in Nat /\ floors[r.pairing] \in Nat
    BY <1>1, <1>2, <2>1 DEF Floors
  <2>3. CASE r \in gone
    BY <1>2, <2>3
  <2>4. CASE r \notin rows
    <3>1. r.cursor <= saved[r.pairing]
      BY <2>4 DEF IInv, FloorsCover
    <3>2. QED
      BY <1>2, <2>1, <2>2, <3>1
  <2>5. QED
    BY <2>3, <2>4
<1>4. ASSUME NEW p \in Pairings
      PROVE  disk.saved[p] <= floors[p] /\ floors[p] < nextCursor
  <2>1. disk.saved[p] \in Nat /\ saved[p] \in Nat /\ floors[p] \in Nat
    BY <1>1, <1>2 DEF Floors
  <2>2. disk.saved[p] <= saved[p] /\ saved[p] < nextCursor
    BY DEF IInv, WorkFollowsDisk, CursorsUsed
  <2>3. \A r \in gone : r.cursor < nextCursor
    BY DEF IInv, WorkFollowsDisk, CursorsUsed
  <2>4. QED
    BY <1>1, <1>2, <2>1, <2>2, <2>3
<1>5. QED
  BY <1>2, <1>3, <1>4 DEF FloorsCover, floors

(* The initial state satisfies the invariant.                              *)
LEMMA InitIInv == Init => IInv
<1> SUFFICES ASSUME Init PROVE IInv
  OBVIOUS
<1>1. MaxCursor \in Nat /\ MaxTime \in Nat
  BY EventStoreAssumption
<1>2. TypeOK
  BY <1>1 DEF Init, TypeOK
<1>3. QED
  BY <1>1, <1>2 DEF Init, IInv, WorkFollowsDisk, CursorsUsed, CursorNamesOneEvent,
                    UidsUnique, FloorsCover

(* Every step of the store preserves the invariant.                        *)
LEMMA NextIInv == IInv /\ [Next]_vars => IInv'
<1> SUFFICES ASSUME IInv, [Next]_vars
             PROVE  IInv'
  OBVIOUS
<1>0. /\ MaxCursor \in Nat /\ MaxTime \in Nat
      /\ rows \in SUBSET Rows /\ saved \in Floors /\ nextCursor \in Nat
      /\ disk.rows \in SUBSET Rows /\ disk.saved \in Floors
      /\ history \in SUBSET Rows /\ rows \subseteq history
  BY EventStoreAssumption DEF IInv, TypeOK, Floors, WorkFollowsDisk
<1>1. ASSUME NEW p \in Pairings, NEW e \in Events, AppendNew(p, e)
      PROVE  IInv'
  <2> DEFINE new == NewRow(p, e)
  <2>1. /\ new \in Rows /\ new.cursor = nextCursor /\ new.event = e
        /\ new.pairing = p
    BY <1>0, <1>1 DEF AppendNew, NewRow, Rows, IInv, TypeOK
  <2>2. /\ rows' = rows \cup {new} /\ history' = history \cup {new}
        /\ disk'.rows = rows' /\ disk'.saved = saved /\ saved' = saved
        /\ nextCursor' = nextCursor + 1 /\ prune' = prune /\ prune = "idle"
        /\ rows = disk.rows /\ saved = disk.saved
        /\ disk' = [rows |-> rows', saved |-> saved]
    BY <1>0, <1>1 DEF AppendNew, IInv, TypeOK, WorkFollowsDisk
  <2> HIDE DEF new
  <2>3. TypeOK'
    BY <1>0, <1>1, <2>1, <2>2 DEF AppendNew, IInv, TypeOK, Floors
  <2>4. \A r \in history : r.cursor \in Nat /\ r.cursor < nextCursor
    BY <1>0 DEF IInv, CursorsUsed, Rows
  <2>5. CursorsUsed'
    BY <1>0, <2>1, <2>2, <2>4 DEF IInv, CursorsUsed, Floors
  <2>6. CursorNamesOneEvent'
    BY <1>0, <2>1, <2>2, <2>4 DEF IInv, CursorNamesOneEvent
  <2>7. UidsUnique(disk.rows)'
    BY <1>1, <2>1, <2>2 DEF IInv, UidsUnique, AppendNew
  <2>8. FloorsCover(rows, saved)' /\ FloorsCover(disk.rows, disk.saved)'
    BY <2>2 DEF IInv, FloorsCover
  <2>9. WorkFollowsDisk'
    BY <1>0, <2>2 DEF WorkFollowsDisk, Floors
  <2>10. (disk.rows \subseteq history)'
    BY <1>0, <2>2
  <2>11. QED
    BY <2>3, <2>5, <2>6, <2>7, <2>8, <2>9, <2>10 DEF IInv
<1>2. ASSUME NEW gone \in SUBSET rows,
             saved' = RecordFloors(saved, gone), rows' = rows \ gone,
             prune' = "trimming", pruneNow' \in 0..MaxTime,
             UNCHANGED <<disk, nextCursor, clock, history>>
      PROVE  IInv'
  <2>1. /\ saved' \in Floors
        /\ FloorsCover(rows', saved')
        /\ \A p \in Pairings : disk.saved[p] <= saved'[p] /\ saved'[p] < nextCursor
    BY <1>2, DeletionKeepsCover
  <2>2. TypeOK'
    BY <1>0, <1>2, <2>1 DEF IInv, TypeOK, Floors
  <2>3. WorkFollowsDisk' /\ CursorsUsed'
    BY <1>2, <2>1 DEF IInv, WorkFollowsDisk, CursorsUsed
  <2>4. FloorsCover(rows, saved)'
    BY <1>2, <2>1 DEF FloorsCover
  <2>5. QED
    BY <1>2, <2>2, <2>3, <2>4 DEF IInv, CursorNamesOneEvent, UidsUnique, FloorsCover
<1>3. CASE PruneExpired
  <2>1. Expired(rows, clock) \in SUBSET rows
    BY DEF Expired
  <2>2. pruneNow' \in 0..MaxTime
    BY <1>3 DEF PruneExpired, IInv, TypeOK
  <2>3. QED
    BY <1>2, <1>3, <2>1, <2>2 DEF PruneExpired
<1>4. CASE PruneTrim
  <2>1. TrimBatch(rows, pruneNow) \in SUBSET rows
    BY DEF TrimBatch
  <2>2. pruneNow' \in 0..MaxTime /\ prune' = "trimming"
    BY <1>4 DEF PruneTrim, IInv, TypeOK
  <2>3. QED
    BY <1>2, <1>4, <2>1, <2>2 DEF PruneTrim
<1>5. CASE PruneCommit
  <2>1. /\ disk'.rows = rows /\ disk'.saved = saved /\ prune' = "idle"
        /\ UNCHANGED <<rows, saved, pruneNow, nextCursor, clock, history>>
        /\ disk' = [rows |-> rows, saved |-> saved]
    BY <1>5 DEF PruneCommit
  <2>2. TypeOK'
    BY <1>0, <2>1 DEF IInv, TypeOK, Floors
  <2>3. WorkFollowsDisk' /\ CursorsUsed'
    BY <1>0, <2>1 DEF IInv, WorkFollowsDisk, CursorsUsed, Floors
  <2>4. UidsUnique(disk.rows)'
    BY <2>1 DEF IInv, WorkFollowsDisk, UidsUnique
  <2>5. FloorsCover(rows, saved)' /\ FloorsCover(disk.rows, disk.saved)'
    BY <2>1 DEF IInv, FloorsCover
  <2>6. QED
    BY <1>0, <2>1, <2>2, <2>3, <2>4, <2>5 DEF IInv, CursorNamesOneEvent
<1>6. CASE PruneRollback
  <2>1. /\ rows' = disk.rows /\ saved' = disk.saved /\ prune' = "idle"
        /\ UNCHANGED <<disk, pruneNow, nextCursor, clock, history>>
    BY <1>6 DEF PruneRollback
  <2>2. TypeOK'
    BY <1>0, <2>1 DEF IInv, TypeOK, Floors
  <2>3. WorkFollowsDisk' /\ CursorsUsed'
    BY <1>0, <2>1 DEF IInv, WorkFollowsDisk, CursorsUsed, Floors
  <2>4. FloorsCover(rows, saved)' /\ FloorsCover(disk.rows, disk.saved)'
    BY <2>1 DEF IInv, FloorsCover
  <2>5. QED
    BY <2>1, <2>2, <2>3, <2>4 DEF IInv, CursorNamesOneEvent, UidsUnique
<1>7. CASE ClockMoves
  BY <1>7 DEF ClockMoves, IInv, TypeOK, WorkFollowsDisk, CursorsUsed,
              CursorNamesOneEvent, UidsUnique, FloorsCover
<1>8. CASE UNCHANGED vars
  BY <1>8 DEF vars, IInv, TypeOK, WorkFollowsDisk, CursorsUsed,
              CursorNamesOneEvent, UidsUnique, FloorsCover
<1>9. QED
  BY <1>1, <1>3, <1>4, <1>5, <1>6, <1>7, <1>8 DEF Next, AppendKnown

(* IInv holds throughout every behaviour of the store.                     *)
THEOREM InvariantHolds == Spec => []IInv
  BY InitIInv, NextIInv, PTL DEF Spec

(* The tables are well-typed, for every instance.                          *)
THEOREM TypeCorrect == Spec => []TypeOK
<1>1. IInv => TypeOK
  BY DEF IInv
<1>2. QED
  BY <1>1, InvariantHolds, PTL

(* A cursor names one event forever.                                       *)
THEOREM CursorsAreNeverReused == Spec => []CursorNamesOneEvent
<1>1. IInv => CursorNamesOneEvent
  BY DEF IInv
<1>2. QED
  BY <1>1, InvariantHolds, PTL

-----------------------------------------------------------------------------
(* What the invariant gives to clients.                                    *)

(* A row that is not in the committed table is at or below the floor of    *)
(* its pairing.                                                            *)
LEMMA LostIsBelowFloor ==
    ASSUME IInv, NEW r \in history, r \notin disk.rows
    PROVE  r.cursor <= RetainedFloor(r.pairing)
<1>1. /\ r.pairing \in Pairings /\ r.cursor \in 1..MaxCursor /\ MaxCursor \in Nat
      /\ disk.rows \in SUBSET Rows /\ disk.saved \in Floors
  BY EventStoreAssumption DEF IInv, TypeOK, Rows, Floors
<1>2. r.cursor <= disk.saved[r.pairing]
  BY DEF IInv, FloorsCover
<1>3. /\ disk.saved[r.pairing] \in 0..MaxCursor
      /\ RetainedFloor(r.pairing) \in 0..MaxCursor
      /\ disk.saved[r.pairing] <= RetainedFloor(r.pairing)
  BY <1>1, FloorInBounds DEF RetainedFloor, Floors
<1>4. QED
  BY <1>1, <1>2, <1>3

(* No row of a pairing is above its high water.                            *)
LEMMA HighWaterIsHighest ==
    ASSUME IInv, NEW r \in disk.rows
    PROVE  r.cursor <= HighWater(r.pairing)
<1> DEFINE C == Cursors(Of(r.pairing, disk.rows)) \cup {0}
<1>1. MaxCursor \in Nat /\ disk.rows \in SUBSET Rows
  BY EventStoreAssumption DEF IInv, TypeOK
<1>2. C \in SUBSET (0..MaxCursor) /\ C # {} /\ r.cursor \in C
  BY <1>1 DEF Cursors, Of, Rows
<1> HIDE DEF C
<1>3. r.cursor <= Max(C)
  BY <1>1, <1>2, MaxIsGreatest
<1>4. QED
  BY <1>3 DEF HighWater, C

(* The event log's promise to clients, for every value of the limits: a    *)
(* resume from a cursor at or above the floor misses nothing.              *)
THEOREM ResumeIsExact == Spec => []ExactResume
<1>1. IInv => ExactResume
  <2> SUFFICES ASSUME IInv, NEW r \in history, NEW after \in 0..MaxCursor,
                      RetainedFloor(r.pairing) <= after, after < r.cursor,
                      Cardinality({s \in Between(r.pairing, after, HighWater(r.pairing)) :
                                        s.cursor < r.cursor}) < ReplayLimit
               PROVE  r \in Replay(r.pairing, after, HighWater(r.pairing))
    BY DEF ExactResume
  <2>1. /\ r.cursor \in Nat /\ r.pairing \in Pairings /\ after \in Nat
        /\ RetainedFloor(r.pairing) \in Nat
    <3>1. /\ MaxCursor \in Nat /\ r \in Rows
          /\ disk.rows \in SUBSET Rows /\ disk.saved \in Floors
      BY EventStoreAssumption DEF IInv, TypeOK, Floors
    <3>2. r.pairing \in Pairings
      BY <3>1 DEF Rows
    <3>3. RetainedFloor(r.pairing) \in 0..MaxCursor
      BY <3>1, <3>2, FloorInBounds DEF RetainedFloor
    <3>4. QED
      BY <3>1, <3>2, <3>3 DEF Rows
  <2>2. r \in disk.rows
    <3>1. ~(r.cursor <= RetainedFloor(r.pairing))
      BY <2>1
    <3>2. QED
      BY <3>1, LostIsBelowFloor
  <2>3. r \in Between(r.pairing, after, HighWater(r.pairing))
    BY <2>2, HighWaterIsHighest DEF Between, Of
  <2>4. QED
    BY <2>3 DEF Replay
<1>2. QED
  BY <1>1, InvariantHolds, PTL

(* An event committed twice, around a prune, is never resumed twice.       *)
THEOREM NoDuplicateResume == Spec => []NoEventResumedTwice
<1>1. IInv => NoEventResumedTwice
  <2> SUFFICES ASSUME IInv, NEW r \in history, NEW s \in history,
                      r # s, r.event.uid = s.event.uid
               PROVE  \/ r.cursor <= RetainedFloor(r.pairing)
                      \/ s.cursor <= RetainedFloor(s.pairing)
    BY DEF NoEventResumedTwice
  <2>1. r \notin disk.rows \/ s \notin disk.rows
    BY DEF IInv, UidsUnique
  <2>2. QED
    BY <2>1, LostIsBelowFloor
<1>2. QED
  BY <1>1, InvariantHolds, PTL

-----------------------------------------------------------------------------
(* The steps of the committed image, and the log it implements.            *)

(* How an append changes the floors.                                       *)
LEMMA AppendFloors ==
    ASSUME IInv, NEW p \in Pairings, NEW e \in Events, AppendNew(p, e), NEW q \in Pairings
    PROVE  \/ RetainedFloor(q)' = RetainedFloor(q)
           \/ /\ q = p
              /\ Of(q, disk.rows) = {}
              /\ RetainedFloor(q) <= RetainedFloor(q)'
              /\ RetainedFloor(q)' < nextCursor
<1> DEFINE new == NewRow(p, e)
<1>1. /\ new \in Rows /\ new.cursor = nextCursor /\ new.pairing = p
      /\ disk'.rows = disk.rows \cup {new} /\ disk'.saved = disk.saved
  BY EventStoreAssumption DEF AppendNew, NewRow, Rows, IInv, TypeOK, WorkFollowsDisk
<1>2. /\ disk.rows \in SUBSET Rows /\ disk.saved \in Floors
      /\ \A r \in disk.rows : r.cursor < nextCursor
      /\ disk.saved[q] < nextCursor
  BY DEF IInv, TypeOK, Floors, CursorsUsed
<1> HIDE DEF new
<1>3. \/ FloorIn(disk.rows \cup {new}, disk.saved, q) = FloorIn(disk.rows, disk.saved, q)
      \/ /\ q = new.pairing
         /\ Of(q, disk.rows) = {}
         /\ FloorIn(disk.rows, disk.saved, q) <= FloorIn(disk.rows \cup {new}, disk.saved, q)
         /\ FloorIn(disk.rows \cup {new}, disk.saved, q) < new.cursor
  BY <1>1, <1>2, FloorInAppend
<1>4. /\ RetainedFloor(q)' = FloorIn(disk.rows \cup {new}, disk.saved, q)
      /\ RetainedFloor(q) = FloorIn(disk.rows, disk.saved, q)
  BY <1>1 DEF RetainedFloor
<1>5. QED
  BY <1>1, <1>3, <1>4

(* A committed prune only forgets rows under the floor it leaves.          *)
LEMMA CommitFloors ==
    ASSUME IInv, PruneCommit
    PROVE  /\ disk'.rows \subseteq disk.rows
           /\ \A p \in Pairings : RetainedFloor(p) <= RetainedFloor(p)'
           /\ \A r \in disk.rows \ disk'.rows : r.cursor <= RetainedFloor(r.pairing)'
<1>1. /\ disk'.rows = rows /\ disk'.saved = saved /\ rows \subseteq disk.rows
      /\ disk.rows \in SUBSET Rows /\ disk.saved \in Floors /\ saved \in Floors
      /\ \A p \in Pairings : disk.saved[p] <= saved[p]
      /\ \A r \in disk.rows \ rows : r.cursor <= saved[r.pairing]
  BY DEF PruneCommit, IInv, TypeOK, WorkFollowsDisk, Floors, FloorsCover
<1>2. ASSUME NEW p \in Pairings
      PROVE  RetainedFloor(p) <= RetainedFloor(p)'
  <2>1. \A r \in Of(p, disk.rows) : r \notin rows => r.cursor <= saved[p]
    BY <1>1 DEF Of
  <2>2. FloorIn(disk.rows, disk.saved, p) <= FloorIn(rows, saved, p)
    BY <1>1, <2>1, FloorInMonotone
  <2>3. QED
    BY <1>1, <2>2 DEF RetainedFloor
<1>3. ASSUME NEW r \in disk.rows \ rows
      PROVE  r.cursor <= RetainedFloor(r.pairing)'
  <2>1. r.pairing \in Pairings /\ r.cursor \in Nat /\ MaxCursor \in Nat
    BY <1>1, EventStoreAssumption DEF Rows
  <2>2. /\ saved[r.pairing] <= FloorIn(rows, saved, r.pairing)
        /\ FloorIn(rows, saved, r.pairing) \in 0..MaxCursor
        /\ saved[r.pairing] \in 0..MaxCursor
    BY <1>1, <2>1, FloorInBounds DEF Floors
  <2>3. r.cursor <= FloorIn(rows, saved, r.pairing)
    BY <1>1, <2>1, <2>2
  <2>4. QED
    BY <1>1, <2>3 DEF RetainedFloor
<1>4. QED
  BY <1>1, <1>2, <1>3

\* The steps that leave the committed image alone.
LEMMA OtherStepsKeepDisk ==
    ASSUME [Next]_vars, ~PruneCommit,
           \A p \in Pairings, e \in Events : ~AppendNew(p, e)
    PROVE  UNCHANGED <<disk, history>>
  BY DEF Next, vars, AppendKnown, PruneExpired, PruneTrim, PruneRollback, ClockMoves

(* No step lowers the floor a client is checked against.                   *)
THEOREM FloorIsMonotone == Spec => FloorNeverFalls
<1>1. IInv /\ [Next]_vars => \A p \in Pairings : RetainedFloor(p) <= RetainedFloor(p)'
  <2> SUFFICES ASSUME IInv, [Next]_vars, NEW q \in Pairings
               PROVE  RetainedFloor(q) <= RetainedFloor(q)'
    OBVIOUS
  <2>0. RetainedFloor(q) \in Nat
    <3>1. MaxCursor \in Nat /\ disk.rows \in SUBSET Rows /\ disk.saved \in Floors
      BY EventStoreAssumption DEF IInv, TypeOK, Floors
    <3>2. RetainedFloor(q) \in 0..MaxCursor
      BY <3>1, FloorInBounds DEF RetainedFloor
    <3>3. QED
      BY <3>1, <3>2
  <2>1. CASE \E p \in Pairings, e \in Events : AppendNew(p, e)
    BY <2>0, <2>1, AppendFloors
  <2>2. CASE PruneCommit
    BY <2>2, CommitFloors
  <2>3. CASE ~PruneCommit /\ \A p \in Pairings, e \in Events : ~AppendNew(p, e)
    <3>1. disk' = disk
      BY <2>3, OtherStepsKeepDisk
    <3>2. RetainedFloor(q)' = RetainedFloor(q)
      BY <3>1 DEF RetainedFloor
    <3>3. QED
      BY <2>0, <3>2
  <2>4. QED
    BY <2>1, <2>2, <2>3
<1>2. QED
  BY <1>1, InvariantHolds, PTL DEF Spec, FloorNeverFalls

(* Expiry never splits a turn of a pairing.                                *)
THEOREM ExpiryKeepsTurnsWhole == Spec => TurnsExpireWhole
<1> DEFINE Whole == prune = "idle" /\ prune' = "trimming"
                    => \A r \in rows \ rows' : InTurn(r) =>
                          \A s \in rows' : s.pairing = r.pairing
                                              => s.event.turn # r.event.turn
<1>1. [Next]_vars => Whole
  <2> SUFFICES ASSUME [Next]_vars, prune = "idle", prune' = "trimming",
                      NEW r \in rows \ rows', InTurn(r),
                      NEW s \in rows', s.pairing = r.pairing,
                      s.event.turn = r.event.turn
               PROVE  FALSE
    OBVIOUS
  <2>1. PruneExpired
    BY DEF Next, vars, AppendNew, AppendKnown, PruneTrim, PruneCommit, PruneRollback, ClockMoves
  <2>2. /\ rows' = rows \ Expired(rows, clock)
        /\ r \in Expired(rows, clock) /\ s \in rows /\ s \notin Expired(rows, clock)
    BY <2>1 DEF PruneExpired
  <2>3. TurnRows(r, rows) = TurnRows(s, rows)
    BY DEF TurnRows
  <2>4. TerminalRows(r, rows) = TerminalRows(s, rows) /\ InTurn(s)
    BY <2>3 DEF TerminalRows, InTurn
  <2>5. IsExpired(r, rows, clock) = IsExpired(s, rows, clock)
    BY <2>3, <2>4 DEF IsExpired
  <2>6. QED
    BY <2>2, <2>5 DEF Expired
<1>2. QED
  BY <1>1, PTL DEF Spec, TurnsExpireWhole

(* The event store implements the resumable log.                           *)
THEOREM StoreImplementsLog == Spec => ImplementsLog
<1>1. Init => Log!Init
  <2> SUFFICES ASSUME Init PROVE Log!Init
    OBVIOUS
  <2>1. disk.rows = {} /\ disk.saved = [p \in Pairings |-> 0] /\ history = {}
    BY DEF Init
  <2>2. \A p \in Pairings : RetainedFloor(p) = 0
    BY <2>1 DEF RetainedFloor, FloorIn, Of
  <2>3. QED
    BY <2>1, <2>2 DEF Log!Init
<1>2. IInv /\ IInv' /\ [Next]_vars => [Log!Next]_(Log!vars)
  <2> SUFFICES ASSUME IInv, IInv', [Next]_vars
               PROVE  Log!Next \/ Log!vars' = Log!vars
    BY DEF Log!vars
  <2>0. /\ \A p \in Pairings : RetainedFloor(p) \in Nat /\ RetainedFloor(p)' \in Nat
        /\ [p \in Pairings |-> RetainedFloor(p)]' = [p \in Pairings |-> RetainedFloor(p)']
    <3>1. /\ MaxCursor \in Nat /\ disk.rows \in SUBSET Rows /\ disk.saved \in Floors
          /\ disk'.rows \in SUBSET Rows /\ disk'.saved \in Floors
      BY EventStoreAssumption DEF IInv, TypeOK, Floors
    <3>2. ASSUME NEW p \in Pairings
          PROVE  /\ FloorIn(disk.rows, disk.saved, p) \in 0..MaxCursor
                 /\ FloorIn(disk'.rows, disk'.saved, p) \in 0..MaxCursor
      BY <3>1, FloorInBounds
    <3>3. QED
      BY <3>1, <3>2 DEF RetainedFloor
  <2>1. ASSUME NEW p \in Pairings, NEW e \in Events, AppendNew(p, e)
        PROVE  Log!Next
    <3> DEFINE new == NewRow(p, e)
    <3>1. /\ new \in Rows /\ new.cursor = nextCursor /\ new.pairing = p
          /\ disk'.rows = disk.rows \cup {new} /\ history' = history \cup {new}
      BY <2>1, EventStoreAssumption
      DEF AppendNew, NewRow, Rows, IInv, TypeOK, WorkFollowsDisk
    <3>2. /\ \A d \in history : d.cursor < nextCursor
          /\ nextCursor \in Nat
      BY EventStoreAssumption DEF IInv, CursorsUsed, TypeOK
    <3>3. new \notin history
      BY <3>1, <3>2
    <3> HIDE DEF new
    <3>4. \A q \in Pairings :
              \/ RetainedFloor(q)' = RetainedFloor(q)
              \/ /\ q = new.pairing
                 /\ \A k \in disk.rows : k.pairing # q
                 /\ RetainedFloor(q) <= RetainedFloor(q)'
                 /\ RetainedFloor(q)' < new.cursor
      BY <2>1, <3>1, AppendFloors DEF Of
    <3>5. Log!Commit
      BY <2>0, <3>1, <3>2, <3>3, <3>4 DEF Log!Commit
    <3>6. QED
      BY <3>5 DEF Log!Next
  <2>2. CASE PruneCommit
    <3>1. Log!Forget
      BY <2>0, <2>2, CommitFloors DEF Log!Forget, PruneCommit, IInv, TypeOK, Rows
    <3>2. QED
      BY <3>1 DEF Log!Next
  <2>3. CASE ~PruneCommit /\ \A p \in Pairings, e \in Events : ~AppendNew(p, e)
    <3>1. disk' = disk /\ history' = history
      BY <2>3, OtherStepsKeepDisk
    <3>2. \A p \in Pairings : RetainedFloor(p)' = RetainedFloor(p)
      BY <3>1 DEF RetainedFloor
    <3>3. QED
      BY <2>0, <3>1, <3>2 DEF Log!vars
  <2>4. QED
    BY <2>1, <2>2, <2>3
<1>3. QED
  BY <1>1, <1>2, InvariantHolds, PTL DEF Spec, ImplementsLog, Log!Spec

-----------------------------------------------------------------------------
(* The order in which pending turns are flushed.                           *)

Increasing(s) == \A i, j \in DOMAIN s : i < j => s[i] < s[j]

(* Every bounded set of naturals can be enumerated in increasing order: a  *)
(* least bound for which that fails would be no bound of the set without   *)
(* its greatest element.                                                   *)
LEMMA IncreasingExists ==
    ASSUME NEW N \in Nat, NEW S \in SUBSET (1..N)
    PROVE  \E s \in [1..Cardinality(S) -> S] : Increasing(s)
<1> DEFINE Enumerated(T) == \E s \in [1..Cardinality(T) -> T] : Increasing(s)
           Bad == {n \in Nat : \E T \in SUBSET (1..n) : ~Enumerated(T)}
<1>1. SUFFICES ASSUME Bad # {}
               PROVE  FALSE
  OBVIOUS
<1>2. Bad \in SUBSET Nat
  OBVIOUS
<1> DEFINE m == Min(Bad)
<1>3. m \in Bad /\ \A n \in Bad : m <= n
  BY <1>1, <1>2, MinIsLeast, Zenon
<1> HIDE DEF m
<1>4. PICK T \in SUBSET (1..m) : ~Enumerated(T)
  BY <1>3
<1>5. m \in Nat
  BY <1>2, <1>3
<1> HIDE DEF Bad
<1>11. ASSUME NEW n \in Nat, n < m, NEW U \in SUBSET (1..n)
       PROVE  Enumerated(U)
  <2>1. n \notin Bad
    BY <1>3, <1>5, <1>11
  <2>2. QED
    BY <2>1 DEF Bad
<1>12. T \subseteq 1..m /\ ~Enumerated(T)
  BY <1>4
<1> HIDE DEF Enumerated
<1>6. IsFiniteSet(T)
  <2>1. IsFiniteSet(1..m)
    BY <1>5, FS_Interval
  <2>2. QED
    BY <2>1, FS_Subset
<1>7. CASE T = {}
  <2>1. Cardinality(T) = 0
    BY <1>7, FS_EmptySet
  <2>2. [i \in 1..0 |-> 0] \in [1..Cardinality(T) -> T]
    BY <2>1
  <2>3. Increasing([i \in 1..0 |-> 0])
    BY DEF Increasing
  <2>4. QED
    BY <1>12, <2>2, <2>3 DEF Enumerated
<1>8. CASE T # {} /\ m \notin T
  <2>1. m # 0
    <3>1. PICK x \in T : x \in 1..m
      BY <1>8, <1>12
    <3>2. QED
      BY <1>5, <3>1
  <2>2. m - 1 \in Nat /\ m - 1 < m
    BY <1>5, <2>1
  <2>3. T \in SUBSET (1..(m - 1))
    <3> SUFFICES ASSUME NEW x \in T
                 PROVE  x \in 1..(m - 1)
        OBVIOUS
    <3>1. x \in 1..m /\ x # m
      BY <1>8, <1>12
    <3>2. QED
      BY <1>5, <3>1
  <2>4. QED
    BY <1>11, <1>12, <2>2, <2>3
<1>9. CASE m \in T
  <2> DEFINE U == T \ {m}
  <2>1. m \in 1..m /\ m # 0
    BY <1>5, <1>9, <1>12
  <2>2. m - 1 \in Nat /\ m - 1 < m
    BY <1>5, <2>1
  <2>3. \A x \in U : x \in 1..(m - 1) /\ x < m
    <3> SUFFICES ASSUME NEW x \in U
                 PROVE  x \in 1..(m - 1) /\ x < m
        OBVIOUS
    <3>1. x \in 1..m /\ x # m
      BY <1>12
    <3>2. QED
      BY <1>5, <3>1
  <2>4. Enumerated(U)
    <3>1. U \in SUBSET (1..(m - 1))
      BY <2>3
    <3>2. QED
      BY <1>11, <2>2, <3>1
  <2>5. PICK s \in [1..Cardinality(U) -> U] : Increasing(s)
    BY <2>4 DEF Enumerated
  <2>6. Cardinality(U) = Cardinality(T) - 1
    BY <1>6, <1>9, FS_RemoveElement
  <2>7. Cardinality(T) \in Nat /\ Cardinality(U) \in Nat
    BY <1>6, FS_CardinalityType, FS_RemoveElement
  <2> DEFINE k == Cardinality(T)
             r == [i \in 1..k |-> IF i = k THEN m ELSE s[i]]
  <2>8. r \in [1..k -> T]
    <3> SUFFICES ASSUME NEW i \in 1..k, i # k
                 PROVE  s[i] \in T
        BY <1>9
    <3>1. i \in 1..Cardinality(U)
      BY <2>6, <2>7
    <3>2. QED
      BY <2>5, <3>1
  <2>9. Increasing(r)
    <3> SUFFICES ASSUME NEW i \in 1..k, NEW j \in 1..k, i < j
                 PROVE  r[i] < r[j]
        BY DEF Increasing
    <3>1. i \in 1..Cardinality(U) /\ r[i] = s[i]
      BY <2>6, <2>7
    <3>2. s[i] \in U
      BY <2>5, <3>1
    <3>3. s[i] < m
      BY <2>3, <3>2
    <3>4. CASE j = k
      BY <3>1, <3>3, <3>4
    <3>5. CASE j # k
      <4>1. j \in 1..Cardinality(U) /\ r[j] = s[j]
        BY <2>6, <2>7, <3>5
      <4>2. QED
        BY <2>5, <3>1, <4>1 DEF Increasing
    <3>6. QED
      BY <3>4, <3>5
  <2> HIDE DEF r
  <2>10. QED
    BY <1>12, <2>8, <2>9 DEF Enumerated
<1>10. QED
  BY <1>7, <1>8, <1>9

-----------------------------------------------------------------------------
(* The feed.  What the phone shows rests on what every event on its way    *)
(* says of the desktop, and on nothing else: which events arrive, in what  *)
(* order and how often does not matter.                                    *)

\* A keyframe that waits for its checksum: its text was written, and its
\* revision is not beyond the one its own two events will bring about.
Vouched ==
  {d \in Documents : d.revision <= revision + 2
                     /\ \A t \in Turns : d.text[t] <= tab[t]}

\* An event on its way tells of text that was written and of revisions that
\* were reached.
Tells(e) ==
  /\ e.revision <= revision
  /\ e.kind = "page" => e.id <= revision
  /\ e.kind = "delta" => e.offset <= e.upto /\ e.upto <= tab[e.turn]
  /\ e.kind = "final" => /\ e.document.revision <= revision
                         /\ \A t \in Turns : e.document.text[t] <= tab[t]

Told == {e \in FeedEvents : Tells(e)}

Requests == [by : Requesters, document : Vouched]
Frames == [generation : Nat, event : Told \cup {Gap}]

FeedInv ==
  /\ FeedTypeOK /\ ShownTextIsPrefix /\ PhoneIsBehind
  /\ keyframes \in Seq(Requests)
  /\ bridge \in Seq(Told \cup {Resync})
  /\ outbound \in Seq(Frames)

\* Text and revision only grow.
Grows ==
  /\ revision' \in Nat /\ revision <= revision'
  /\ tab' \in [Turns -> Lengths] /\ \A t \in Turns : tab[t] <= tab'[t]

(* Turns and lengths are numbers.                                          *)
LEMMA TurnsAndLengths ==
  /\ \A t \in Turns : t \in Nat
  /\ \A n \in Lengths : n \in Nat
  /\ 0 \in Lengths /\ Turns \subseteq Nat /\ Lengths \subseteq Nat
  BY SourceFeedAssumption DEF Turns, Lengths

(* The fields of an event of each kind.                                    *)
LEMMA EventFields ==
  ASSUME NEW e \in FeedEvents
  PROVE  /\ e.kind \in {"started", "terminal", "page", "final", "delta"}
         /\ e.revision \in Nat
         /\ e.kind = "page" => e.id \in Nat
         /\ e.kind = "final" => e.id \in Nat /\ e.document \in Documents
         /\ e.kind = "delta" => /\ e.turn \in Turns /\ e.base \in Nat
                                /\ e.offset \in Lengths /\ e.upto \in Lengths
  BY DEF FeedEvents

LEMMA DocumentFields ==
  ASSUME NEW d \in Documents
  PROVE  /\ d.text \in [Turns -> Lengths] /\ d.over \in BOOLEAN /\ d.revision \in Nat
         /\ \A t \in Turns : d.text[t] \in Nat
  BY TurnsAndLengths DEF Documents

(* A sequence over a set is one over every larger set.                     *)
LEMMA SeqWidens ==
  ASSUME NEW S, NEW T, S \subseteq T, NEW s \in Seq(S)
  PROVE  s \in Seq(T)
  OBVIOUS

(* What an event or a request tells stays true.                            *)
LEMMA TellsStay ==
  ASSUME revision \in Nat, tab \in [Turns -> Lengths], Grows
  PROVE  /\ Told \subseteq Told' /\ Vouched \subseteq Vouched'
         /\ Requests \subseteq Requests' /\ Frames \subseteq Frames'
<1>1. /\ revision' \in Nat /\ revision <= revision'
      /\ \A t \in Turns : tab[t] \in Nat /\ tab'[t] \in Nat /\ tab[t] <= tab'[t]
  BY TurnsAndLengths DEF Grows
<1>2. \A d \in Documents, t \in Turns : d.text[t] \in Nat /\ d.revision \in Nat
  BY DocumentFields
<1>3. \A a, b, c \in Nat : a <= b /\ b <= c => a <= c /\ a <= c + 2
  OBVIOUS
<1>4. \A a, b, c \in Nat : a <= b + 2 /\ b <= c => a <= c + 2
  OBVIOUS
<1>5. Vouched \subseteq Vouched'
  <2> SUFFICES ASSUME NEW d \in Vouched
               PROVE  d \in Vouched'
    OBVIOUS
  <2>1. d \in Documents /\ d.revision <= revision + 2
        /\ \A t \in Turns : d.text[t] <= tab[t]
    BY DEF Vouched
  <2>2. d.revision <= revision' + 2
    <3>1. d.revision \in Nat
      BY <2>1, DocumentFields
    <3>2. QED
      BY <1>1, <1>4, <2>1, <3>1
  <2>3. \A t \in Turns : d.text[t] <= tab'[t]
    BY <1>1, <1>2, <1>3, <2>1
  <2>4. QED
    BY <2>1, <2>2, <2>3 DEF Vouched
<1>6. Told \subseteq Told'
  <2> SUFFICES ASSUME NEW e \in Told
               PROVE  e \in FeedEvents /\ Tells(e)'
    BY DEF Told
  <2>1. e \in FeedEvents /\ Tells(e)
    BY DEF Told
  <2>2. e.revision <= revision'
    BY <1>1, <1>3, <2>1, EventFields DEF Tells
  <2>3. e.kind = "page" => e.id <= revision'
    BY <1>1, <1>3, <2>1, EventFields DEF Tells
  <2>4. e.kind = "delta" => e.offset <= e.upto /\ e.upto <= tab'[e.turn]
    <3> SUFFICES ASSUME e.kind = "delta"
                 PROVE  e.offset <= e.upto /\ e.upto <= tab'[e.turn]
      OBVIOUS
    <3>1. e.turn \in Turns /\ e.upto \in Nat /\ e.offset <= e.upto /\ e.upto <= tab[e.turn]
      BY <2>1, EventFields, TurnsAndLengths DEF Tells
    <3>2. QED
      BY <1>1, <1>3, <3>1
  <2>5. e.kind = "final" => /\ e.document.revision <= revision'
                            /\ \A t \in Turns : e.document.text[t] <= tab'[t]
    <3> SUFFICES ASSUME e.kind = "final"
                 PROVE  /\ e.document.revision <= revision'
                        /\ \A t \in Turns : e.document.text[t] <= tab'[t]
      OBVIOUS
    <3>1. /\ e.document \in Documents /\ e.document.revision <= revision
          /\ \A t \in Turns : e.document.text[t] <= tab[t]
      BY <2>1, EventFields DEF Tells
    <3>2. /\ e.document.revision \in Nat
          /\ \A t \in Turns : e.document.text[t] \in Nat
      BY <3>1, DocumentFields
    <3>3. QED
      BY <1>1, <1>3, <3>1, <3>2
  <2>6. QED
    BY <2>1, <2>2, <2>3, <2>4, <2>5 DEF Tells
<1>7. Requests \subseteq Requests'
  BY <1>5 DEF Requests
<1>8. Frames \subseteq Frames'
  BY <1>6 DEF Frames
<1>9. QED
  BY <1>5, <1>6, <1>7, <1>8

-----------------------------------------------------------------------------
(* What the plugin publishes.                                              *)

(* The pending turns are listed one by one.                                *)
LEMMA InTurnOrderLists ==
  ASSUME NEW S \in SUBSET Turns
  PROVE  /\ Cardinality(S) \in Nat
         /\ InTurnOrder(S) \in [1..Cardinality(S) -> S]
<1>1. IsFiniteSet(S)
  <2>1. IsFiniteSet(Turns)
    BY SourceFeedAssumption, FS_Interval DEF Turns
  <2>2. QED
    BY <2>1, FS_Subset
<1>2. Cardinality(S) \in Nat
  BY <1>1, FS_CardinalityType
<1>3. \E s \in [1..Cardinality(S) -> S] : Increasing(s)
  BY SourceFeedAssumption, IncreasingExists DEF Turns
<1>4. QED
  BY <1>2, <1>3 DEF InTurnOrder, Increasing

(* The deltas of a flush tell what the tabs show, at revisions up to their *)
(* own number.                                                             *)
LEMMA DeltasTell ==
  ASSUME FeedTypeOK, revision' = revision + Len(Deltas), tab' = tab
  PROVE  Deltas \in Seq(Told') /\ Grows /\ Len(Deltas) \in Nat
<1> DEFINE order == InTurnOrder(Pending)
           n == Cardinality(Pending)
<1>1. Pending \in SUBSET Turns
  BY DEF Pending
<1>2. n \in Nat /\ order \in [1..n -> Pending]
  BY <1>1, InTurnOrderLists
<1> HIDE DEF order, n
<1>3. Deltas = [i \in 1..n |->
        [kind |-> "delta", revision |-> revision + i, turn |-> order[i],
         base |-> base[order[i]], offset |-> sent[order[i]], upto |-> tab[order[i]]]]
  BY <1>2 DEF Deltas, order
<1>4. Len(Deltas) = n /\ DOMAIN Deltas = 1..n
  BY <1>2, <1>3
<1>5. revision \in Nat /\ revision' = revision + n /\ revision' \in Nat
  BY <1>2, <1>4 DEF FeedTypeOK
<1>6. Grows
  <2>1. \A t \in Turns : tab[t] <= tab'[t]
    <3>1. \A t \in Turns : tab[t] \in Nat
      BY TurnsAndLengths DEF FeedTypeOK
    <3>2. QED
      BY <3>1
  <2>2. revision <= revision'
    BY <1>2, <1>5
  <2>3. QED
    BY <1>5, <2>1, <2>2 DEF FeedTypeOK, Grows
<1>7. ASSUME NEW i \in 1..n
      PROVE  Deltas[i] \in Told'
  <2>1. order[i] \in Turns /\ sent[order[i]] < tab[order[i]]
    BY <1>1, <1>2 DEF Pending
  <2>2. PICK t \in Turns : t = order[i]
    BY <2>1
  <2>3. /\ base[t] \in Nat /\ sent[t] \in Lengths /\ tab[t] \in Lengths
        /\ sent[t] \in Nat /\ tab[t] \in Nat /\ sent[t] < tab[t]
    BY <2>1, <2>2, TurnsAndLengths DEF FeedTypeOK
  <2>4. revision + i \in Nat /\ revision + i <= revision'
    BY <1>2, <1>5
  <2>5. PICK e : e = [kind |-> "delta", revision |-> revision + i, turn |-> t,
                      base |-> base[t], offset |-> sent[t], upto |-> tab[t]]
    OBVIOUS
  <2>6. e \in FeedEvents
    BY <2>3, <2>4, <2>5 DEF FeedEvents
  <2>7. sent[t] <= tab[t]
    BY <2>3
  <2>8. e.kind = "delta" /\ e.revision = revision + i /\ e.turn = t
        /\ e.offset = sent[t] /\ e.upto = tab[t]
    BY <2>5
  <2>9. Tells(e)'
    <3>1. tab[t] <= tab'[t]
      BY <2>3
    <3>2. QED
      BY <2>4, <2>7, <2>8, <3>1 DEF Tells
  <2>10. e \in Told'
    BY <2>6, <2>9 DEF Told
  <2>11. QED
    BY <1>3, <2>2, <2>5, <2>10
<1>8. QED
  BY <1>2, <1>3, <1>4, <1>6, <1>7


(* A fault is counted, up to the bound.                                    *)
LEMMA FaultCounts ==
  ASSUME faults \in 0..MaxFaults, NEW kind, Fault(kind)
  PROVE  faults' \in 0..MaxFaults
<1>1. faults < MaxFaults /\ faults' = faults + 1
  BY DEF Fault
<1>2. MaxFaults \in Nat /\ faults \in Nat
  BY SourceFeedAssumption
<1>3. \A a, b \in Nat : a < b => a + 1 \in 0..b
  OBVIOUS
<1>4. QED
  BY <1>1, <1>2, <1>3, Zenon

(* Whatever overflows, the bridge's queue holds what it held, what is      *)
(* published and the marker.                                               *)
LEMMA PublishedStays ==
  ASSUME NEW T, Resync \in T, bridge \in Seq(T), NEW events \in Seq(T),
         Published(events), faults \in 0..MaxFaults
  PROVE  bridge' \in Seq(T) /\ faults' \in 0..MaxFaults
<1>1. CASE ~channel /\ UNCHANGED <<bridge, faults>>
  BY <1>1
<1>2. CASE bridge' = bridge \o events /\ UNCHANGED faults
  BY <1>2, ConcatProperties
<1>3. ASSUME NEW i \in DOMAIN events, Overflows(events, i)
      PROVE  bridge' \in Seq(T) /\ faults' \in 0..MaxFaults
  <2>1. i \in Nat /\ Len(events) \in Nat /\ DOMAIN events = 1..Len(events)
    OBVIOUS
  <2>2. \A k \in (i + 1)..Len(events) : events[k] \in T
    BY <2>1
  <2>3. SubSeq(events, i + 1, Len(events)) \in Seq(T)
    BY <2>1, <2>2, SubSeqProperties
  <2>4. <<Resync>> \in Seq(T)
    OBVIOUS
  <2>5. bridge' = <<Resync>> \o SubSeq(events, i + 1, Len(events))
    BY <1>3 DEF Overflows
  <2>6. bridge' \in Seq(T)
    BY <2>3, <2>4, <2>5, ConcatProperties
  <2>7. faults' \in 0..MaxFaults
    BY <1>3, FaultCounts DEF Overflows
  <2>8. QED
    BY <2>6, <2>7
<1>4. QED
  BY <1>1, <1>2, <1>3 DEF Published

(* Emitting what tells of the state it leads to keeps the bridge's queue.  *)
LEMMA EmitsTell ==
  ASSUME FeedInv, Grows, NEW events \in Seq(Told'), Published(events)
  PROVE  bridge' \in Seq(Told' \cup {Resync}) /\ faults' \in 0..MaxFaults
<1>1. PICK T : T = Told' \cup {Resync}
  OBVIOUS
<1>2. Told \cup {Resync} \subseteq T
  BY <1>1, TellsStay DEF FeedInv, FeedTypeOK
<1>3. bridge \in Seq(T)
  BY <1>2, SeqWidens DEF FeedInv
<1>4. events \in Seq(T)
  BY <1>1, SeqWidens
<1>5. faults \in 0..MaxFaults /\ Resync \in T
  BY <1>1 DEF FeedInv, FeedTypeOK
<1>6. bridge' \in Seq(T) /\ faults' \in 0..MaxFaults
  BY <1>3, <1>4, <1>5, PublishedStays
<1>7. QED
  BY <1>1, <1>6

(* Types alone follow from what the queues tell.                           *)
LEMMA TellsAreTyped ==
  /\ Told \subseteq FeedEvents
  /\ Requests \subseteq [by : Requesters, document : Documents]
  /\ Frames \subseteq [generation : Nat, event : FeedEvents \cup {Gap}]
  BY DEF Told, Requests, Vouched, Frames

\* What a step keeps that does not touch the phone, the tabs or the relay's side.
Behind ==
  /\ phone' = phone
  /\ turns' \in 0..MaxTurns /\ running' \in BOOLEAN
  /\ sent' \in [Turns -> Lengths] /\ \A t \in Turns : sent'[t] <= tab'[t]
  /\ base' \in [Turns -> Nat]
  /\ channel' \in BOOLEAN
  /\ companion' \in [pc : {"down", "binding", "up"}, generation : Nat, ended : BOOLEAN,
                     pump : {"run", "owes", "asks"}, reader : {"run", "asks"}]
  /\ gapPending' \in BOOLEAN /\ asks' \in Nat
  /\ faults' \in 0..MaxFaults

(* A step that does not move the phone keeps the invariant when the queues *)
(* tell the truth after it.                                                *)
LEMMA QueuesSuffice ==
  ASSUME FeedInv, Grows, Behind,
         keyframes' \in Seq(Requests'), bridge' \in Seq(Told' \cup {Resync}),
         outbound' \in Seq(Frames')
  PROVE  FeedInv'
<1>1. /\ keyframes' \in Seq([by : Requesters, document : Documents])
      /\ outbound' \in Seq([generation : Nat, event : FeedEvents \cup {Gap}])
      /\ bridge' \in Seq(FeedEvents \cup {Resync})
  <2>1. /\ Told' \cup {Resync} \subseteq FeedEvents \cup {Resync}
        /\ Requests' \subseteq [by : Requesters, document : Documents]
        /\ Frames' \subseteq [generation : Nat, event : FeedEvents \cup {Gap}]
    BY DEF Told, Requests, Vouched, Frames
  <2>2. QED
    BY <2>1, SeqWidens
<1>2. FeedTypeOK'
  BY <1>1 DEF FeedInv, FeedTypeOK, Grows, Behind
<1>3. ShownTextIsPrefix'
  BY DEF FeedInv, ShownTextIsPrefix, Behind
<1>4. PhoneIsBehind'
  <2>1. /\ revision \in Nat /\ revision' \in Nat /\ revision <= revision'
        /\ phone.revision \in Nat /\ phone.revision <= revision
    BY DEF FeedInv, FeedTypeOK, PhoneIsBehind, Grows
  <2>2. ASSUME NEW t \in Turns
        PROVE  Len(phone'.text[t]) <= tab'[t]
    <3>1. /\ Len(phone.text[t]) \in Nat /\ Len(phone.text[t]) <= tab[t]
          /\ tab[t] \in Nat /\ tab'[t] \in Nat /\ tab[t] <= tab'[t]
      <4>1. phone.text[t] \in Seq(Nat) /\ Len(phone.text[t]) <= tab[t]
        BY DEF FeedInv, FeedTypeOK, PhoneIsBehind
      <4>2. tab[t] \in Nat /\ tab'[t] \in Nat /\ tab[t] <= tab'[t]
        BY TurnsAndLengths DEF FeedInv, FeedTypeOK, Grows
      <4>3. QED
        BY <4>1, <4>2
    <3>2. phone'.text[t] = phone.text[t]
      BY DEF Behind
    <3>3. QED
      BY <3>1, <3>2
  <2>3. phone'.revision <= revision'
    <3>1. phone'.revision = phone.revision
      BY DEF Behind
    <3>2. QED
      BY <2>1, <3>1
  <2>4. QED
    BY <2>2, <2>3 DEF PhoneIsBehind
<1>5. QED
  BY <1>2, <1>3, <1>4 DEF FeedInv

(* A cut flushes the pending text and vouches for what the tabs show.      *)
LEMMA CutTells ==
  ASSUME FeedInv, tab' = tab, NEW requests \in Seq(Requests), NEW by \in Requesters,
         NEW over \in BOOLEAN, Cut(requests, by, over)
  PROVE  /\ Grows
         /\ keyframes' \in Seq(Requests') /\ bridge' \in Seq(Told' \cup {Resync})
         /\ faults' \in 0..MaxFaults
         /\ sent' \in [Turns -> Lengths] /\ \A t \in Turns : sent'[t] <= tab'[t]
<1>1. /\ revision' = revision + Len(Deltas) /\ Published(Deltas) /\ sent' = tab
      /\ keyframes' = Append(requests,
           [by |-> by, document |-> DocumentOf(over, revision + Len(Deltas))])
  BY DEF Cut, Emits
<1>2. Deltas \in Seq(Told') /\ Grows
  BY <1>1, DeltasTell DEF FeedInv
<1>3. bridge' \in Seq(Told' \cup {Resync}) /\ faults' \in 0..MaxFaults
  BY <1>1, <1>2, EmitsTell
<1>4. /\ tab \in [Turns -> Lengths] /\ \A t \in Turns : tab[t] \in Nat
      /\ revision' \in Nat
  BY <1>2, TurnsAndLengths DEF FeedInv, FeedTypeOK, Grows
<1>5. PICK k : k = [by |-> by, document |-> DocumentOf(over, revision + Len(Deltas))]
  OBVIOUS
<1>6. k \in Requests'
  <2>1. k = [by |-> by, document |-> [text |-> tab, over |-> over,
                                      revision |-> revision' + 2]]
    BY <1>1, <1>5 DEF DocumentOf
  <2>2. PICK d : d = [text |-> tab, over |-> over, revision |-> revision' + 2]
    OBVIOUS
  <2>3. d \in Documents /\ d.revision <= revision' + 2
    <3>1. revision' + 2 \in Nat /\ revision' + 2 <= revision' + 2
      <4>1. \A a \in Nat : a + 2 \in Nat /\ a + 2 <= a + 2
        OBVIOUS
      <4>2. QED
        BY <1>4, <4>1, Zenon
    <3>2. QED
      BY <1>4, <2>2, <3>1 DEF Documents
  <2>4. \A t \in Turns : d.text[t] <= tab'[t]
    <3>1. d.text = tab
      BY <2>2
    <3>2. QED
      BY <1>4, <3>1
  <2>5. d \in Vouched'
    BY <2>3, <2>4 DEF Vouched
  <2>6. QED
    BY <2>1, <2>2, <2>5 DEF Requests
<1>7. keyframes' \in Seq(Requests')
  <2>1. Requests \subseteq Requests'
    BY <1>2, TellsStay DEF FeedInv, FeedTypeOK
  <2>2. requests \in Seq(Requests')
    BY <2>1, SeqWidens
  <2>3. keyframes' = Append(requests, k)
    BY <1>1, <1>5
  <2>4. PICK R : R = Requests'
    OBVIOUS
  <2>5. keyframes' \in Seq(R)
    BY <1>6, <2>2, <2>3, <2>4, AppendProperties
  <2>6. QED
    BY <2>4, <2>5
<1>8. sent' \in [Turns -> Lengths] /\ \A t \in Turns : sent'[t] <= tab'[t]
  BY <1>1, <1>4
<1>9. QED
  BY <1>2, <1>3, <1>7, <1>8


-----------------------------------------------------------------------------
(* The steps that do not move the phone.                                   *)

(* What stands while nothing moves.                                        *)
LEMMA Standing ==
  ASSUME FeedInv
  PROVE  /\ turns \in 0..MaxTurns /\ running \in BOOLEAN
         /\ tab \in [Turns -> Lengths] /\ sent \in [Turns -> Lengths]
         /\ \A t \in Turns : sent[t] <= tab[t]
         /\ base \in [Turns -> Nat] /\ revision \in Nat /\ channel \in BOOLEAN
         /\ companion \in [pc : {"down", "binding", "up"}, generation : Nat,
                           ended : BOOLEAN, pump : {"run", "owes", "asks"},
                           reader : {"run", "asks"}]
         /\ gapPending \in BOOLEAN /\ asks \in Nat /\ faults \in 0..MaxFaults
         /\ keyframes \in Seq(Requests) /\ bridge \in Seq(Told \cup {Resync})
         /\ outbound \in Seq(Frames)
  BY DEF FeedInv, FeedTypeOK

(* Nothing written, nothing published: everything on its way stands.       *)
LEMMA NothingNew ==
  ASSUME FeedInv, revision' = revision, tab' = tab
  PROVE  /\ Grows /\ Told' = Told /\ Requests' = Requests /\ Frames' = Frames
<1>1. revision \in Nat /\ tab \in [Turns -> Lengths]
      /\ \A t \in Turns : tab[t] \in Nat
  BY Standing, TurnsAndLengths
<1>2. Grows
  <2>1. \A n \in Nat : n <= n
    OBVIOUS
  <2>2. QED
    BY <1>1, <2>1 DEF Grows
<1>3. Told' = Told
  BY DEF Told, Tells
<1>4. Requests' = Requests
  BY DEF Requests, Vouched
<1>5. QED
  BY <1>2, <1>3, <1>4 DEF Frames

(* What is on its way stays true while text and revision grow.             *)
LEMMA OnItsWay ==
  ASSUME FeedInv, Grows
  PROVE  /\ keyframes \in Seq(Requests') /\ bridge \in Seq(Told' \cup {Resync})
         /\ outbound \in Seq(Frames')
<1>1. Told \subseteq Told' /\ Requests \subseteq Requests' /\ Frames \subseteq Frames'
  BY TellsStay, Standing
<1>2. Told \cup {Resync} \subseteq Told' \cup {Resync}
  BY <1>1
<1>3. QED
  BY <1>1, <1>2, SeqWidens, Standing

LEMMA FlushTextStep ==
  ASSUME FeedInv, FlushText
  PROVE  FeedInv'
<1>1. /\ revision' = revision + Len(Deltas) /\ Published(Deltas) /\ sent' = tab
      /\ UNCHANGED <<turns, running, tab, base, keyframes, channel, link>>
  BY DEF FlushText, Emits
<1>2. Deltas \in Seq(Told') /\ Grows
  BY <1>1, DeltasTell DEF FeedInv
<1>3. bridge' \in Seq(Told' \cup {Resync}) /\ faults' \in 0..MaxFaults
  BY <1>1, <1>2, EmitsTell
<1>4. keyframes' \in Seq(Requests') /\ outbound' \in Seq(Frames')
  BY <1>1, <1>2, OnItsWay DEF link
<1>5. \A t \in Turns : sent'[t] <= tab'[t]
  <2>1. \A t \in Turns : tab[t] \in Nat
    BY Standing, TurnsAndLengths
  <2>2. QED
    BY <1>1, <2>1
<1>6. Behind
  BY <1>1, <1>3, <1>5, Standing DEF Behind, link
<1>7. QED
  BY <1>2, <1>3, <1>4, <1>6, QueuesSuffice

(* The two events of a keyframe bring the conversation to what it declared.*)
LEMMA KeyframeTells ==
  ASSUME FeedInv, NEW k \in Requests, tab' = tab,
         revision' = revision + Len(EventsOf(k))
  PROVE  EventsOf(k) \in Seq(Told') /\ Grows
<1> DEFINE page == [kind |-> "page", revision |-> revision + 1, id |-> revision + 1]
           final == [kind |-> "final", revision |-> revision + 1 + 1,
                     id |-> revision + 1, document |-> k.document]
           rest == IF k.by = "barrier" THEN <<Terminal(revision + 1 + 2)>> ELSE <<>>
<1>1. EventsOf(k) = <<page, final>> \o rest
  BY DEF EventsOf
<1>2. revision \in Nat /\ \A t \in Turns : tab[t] \in Nat
  BY Standing, TurnsAndLengths
<1>3. k.document \in Documents /\ k.document.revision \in Nat
      /\ k.document.revision <= revision + 2
      /\ \A t \in Turns : k.document.text[t] <= tab[t]
  BY DocumentFields DEF Requests, Vouched
<1>4. page \in FeedEvents /\ final \in FeedEvents
  BY <1>2, <1>3 DEF FeedEvents
<1>5. Terminal(revision + 1 + 2) \in FeedEvents
  BY <1>2 DEF FeedEvents, Terminal
<1>6. Len(EventsOf(k)) = IF k.by = "barrier" THEN 3 ELSE 2
  BY <1>1
<1>7. /\ revision' \in Nat /\ revision <= revision' /\ revision + 1 <= revision'
      /\ revision + 1 + 1 <= revision' /\ revision + 2 <= revision'
      /\ k.by = "barrier" => revision + 1 + 2 <= revision'
  BY <1>2, <1>6
<1>8. k.document.revision <= revision'
  BY <1>2, <1>3, <1>7
<1>9. Grows
  BY <1>2, <1>7, Standing DEF Grows
<1> HIDE DEF page, final
<1>10. page \in Told' /\ final \in Told'
  <2>1. ASSUME NEW p, p = page PROVE p \in Told'
    <3>1. Tells(p)'
      BY <1>7, <2>1 DEF Tells, page
    <3>2. QED
      BY <1>4, <2>1, <3>1 DEF Told
  <2>2. ASSUME NEW f, f = final PROVE f \in Told'
    <3>1. f.kind = "final" /\ f.revision = revision + 1 + 1 /\ f.document = k.document
      BY <2>2 DEF final
    <3>2. Tells(f)'
      BY <1>3, <1>7, <1>8, <3>1 DEF Tells
    <3>3. QED
      BY <1>4, <2>2, <3>2 DEF Told
  <2>3. QED
    BY <2>1, <2>2
<1>11. k.by = "barrier" => Terminal(revision + 1 + 2) \in Told'
  <2> SUFFICES ASSUME k.by = "barrier", NEW e, e = Terminal(revision + 1 + 2)
               PROVE  e \in Told'
    OBVIOUS
  <2>1. Tells(e)'
    BY <1>7 DEF Tells, Terminal
  <2>2. QED
    BY <1>5, <2>1 DEF Told
<1>12. <<page, final>> \in Seq(Told') /\ rest \in Seq(Told')
  BY <1>10, <1>11
<1>13. QED
  BY <1>1, <1>9, <1>12, ConcatProperties

LEMMA KeyframeEndsStep ==
  ASSUME FeedInv, KeyframeEnds
  PROVE  FeedInv'
<1>1. keyframes # <<>> /\ keyframes \in Seq(Requests)
  BY Standing DEF KeyframeEnds
<1>2. PICK k \in Requests : k = Head(keyframes)
  BY <1>1
<1>3. /\ revision' = revision + Len(EventsOf(k)) /\ Published(EventsOf(k))
      /\ keyframes' = Tail(keyframes) /\ companion' = Answered(k.by)
      /\ UNCHANGED <<desktop, channel, outbound, gapPending, asks, phone>>
  BY <1>2 DEF KeyframeEnds, Emits
<1>4. EventsOf(k) \in Seq(Told') /\ Grows
  BY <1>3, KeyframeTells DEF desktop
<1>5. bridge' \in Seq(Told' \cup {Resync}) /\ faults' \in 0..MaxFaults
  BY <1>3, <1>4, EmitsTell
<1>6. keyframes' \in Seq(Requests') /\ outbound' \in Seq(Frames')
  <2>1. keyframes \in Seq(Requests') /\ outbound \in Seq(Frames')
    BY <1>4, OnItsWay
  <2>2. PICK R : R = Requests'
    OBVIOUS
  <2>3. Tail(keyframes) \in Seq(R)
    BY <1>1, <2>1, <2>2, HeadTailProperties
  <2>4. QED
    BY <1>3, <2>1, <2>2, <2>3
<1>7. companion' \in [pc : {"down", "binding", "up"}, generation : Nat,
                      ended : BOOLEAN, pump : {"run", "owes", "asks"},
                      reader : {"run", "asks"}]
  BY <1>3, Standing DEF Answered
<1>8. Behind
  BY <1>3, <1>5, <1>7, Standing DEF Behind, desktop
<1>9. QED
  BY <1>4, <1>5, <1>6, <1>8, QueuesSuffice

LEMMA TurnStartsStep ==
  ASSUME FeedInv, TurnStarts
  PROVE  FeedInv'
<1>1. PICK e : e = Started(revision + 1)
  OBVIOUS
<1>2. /\ turns < MaxTurns /\ turns' = turns + 1 /\ running' = TRUE
      /\ revision' = revision + Len(<<e>>) /\ Published(<<e>>)
      /\ UNCHANGED <<tab, sent, base, keyframes, channel, link>>
  BY <1>1 DEF TurnStarts, Emits
<1>3. revision \in Nat /\ Len(<<e>>) = 1 /\ \A t \in Turns : tab[t] \in Nat
  BY Standing, TurnsAndLengths
<1>4. revision' = revision + 1 /\ revision' \in Nat /\ revision <= revision'
      /\ revision + 1 <= revision'
  BY <1>2, <1>3
<1>5. Grows
  BY <1>2, <1>3, <1>4, Standing DEF Grows
<1>6. e \in Told'
  <2>1. e.kind = "started" /\ e.revision = revision + 1 /\ e \in FeedEvents
    BY <1>1, <1>3 DEF Started, FeedEvents
  <2>2. Tells(e)'
    BY <1>4, <2>1 DEF Tells
  <2>3. QED
    BY <2>1, <2>2 DEF Told
<1>7. bridge' \in Seq(Told' \cup {Resync}) /\ faults' \in 0..MaxFaults
  <2>1. <<e>> \in Seq(Told')
    BY <1>6
  <2>2. QED
    BY <1>2, <1>5, <2>1, EmitsTell
<1>8. keyframes' \in Seq(Requests') /\ outbound' \in Seq(Frames')
  BY <1>2, <1>5, OnItsWay DEF link
<1>9. turns' \in 0..MaxTurns
  <2>1. MaxTurns \in Nat /\ turns \in Nat
    BY SourceFeedAssumption, Standing
  <2>2. \A a, b \in Nat : a < b => a + 1 \in 0..b
    OBVIOUS
  <2>3. QED
    BY <1>2, <2>1, <2>2, Zenon
<1>10. Behind
  BY <1>2, <1>7, <1>9, Standing DEF Behind, link
<1>11. QED
  BY <1>5, <1>7, <1>8, <1>10, QueuesSuffice

LEMMA ChunkObservedStep ==
  ASSUME FeedInv, ChunkObserved
  PROVE  FeedInv'
<1>1. /\ tab[turns] < MaxChunks
      /\ tab' = [tab EXCEPT ![turns] = tab[turns] + 1]
      /\ base' = [base EXCEPT ![turns] = IF turns \in Pending THEN base[turns] ELSE revision]
      /\ UNCHANGED <<turns, running, sent, revision, keyframes, channel, bridge, link,
                     faults>>
  BY DEF ChunkObserved
<1>2. \A t \in Turns : tab[t] \in Nat /\ tab'[t] \in Lengths /\ tab'[t] \in Nat /\ tab[t] <= tab'[t]
  <2> SUFFICES ASSUME NEW t \in Turns
               PROVE  tab[t] \in Nat /\ tab'[t] \in Lengths /\ tab'[t] \in Nat /\ tab[t] <= tab'[t]
    OBVIOUS
  <2>1. tab[t] \in Nat /\ tab[t] \in Lengths
    BY Standing, TurnsAndLengths
  <2>2. CASE t = turns
    <3>1. tab'[t] = tab[t] + 1 /\ tab[t] < MaxChunks
      BY <1>1, <2>2, Standing
    <3>2. \A a, b \in Nat : a < b => a + 1 \in 0..b /\ a + 1 \in Nat /\ a <= a + 1
      OBVIOUS
    <3>3. MaxChunks \in Nat
      BY SourceFeedAssumption
    <3>4. QED
      BY <2>1, <3>1, <3>2, <3>3, Zenon DEF Lengths
  <2>3. CASE t # turns
    <3>1. tab'[t] = tab[t]
      BY <1>1, <2>3, Standing
    <3>2. QED
      BY <2>1, <3>1
  <2>4. QED
    BY <2>2, <2>3
<1>3. tab' \in [Turns -> Lengths]
  <2>1. DOMAIN tab' = Turns /\ tab' = [t \in Turns |-> tab'[t]]
    BY <1>1, Standing
  <2>2. QED
    BY <1>2, <2>1
<1>4. Grows
  BY <1>1, <1>2, <1>3, Standing DEF Grows
<1>5. keyframes' \in Seq(Requests') /\ bridge' \in Seq(Told' \cup {Resync})
      /\ outbound' \in Seq(Frames')
  BY <1>1, <1>4, OnItsWay DEF link
<1>6. \A t \in Turns : sent'[t] <= tab'[t]
  <2>1. \A t \in Turns : sent[t] \in Nat /\ sent[t] <= tab[t]
    BY Standing, TurnsAndLengths
  <2>2. QED
    BY <1>1, <1>2, <2>1
<1>7. base' \in [Turns -> Nat]
  BY <1>1, Standing
<1>8. Behind
  BY <1>1, <1>6, <1>7, Standing DEF Behind, link
<1>9. QED
  BY <1>4, <1>5, <1>8, QueuesSuffice

LEMMA SendReturnsStep ==
  ASSUME FeedInv, SendReturns
  PROVE  FeedInv'
<1>1. /\ running' = FALSE /\ Cut(keyframes, "barrier", TRUE)
      /\ UNCHANGED <<turns, tab, base, channel, link>>
  BY DEF SendReturns
<1>2. /\ Grows
      /\ keyframes' \in Seq(Requests') /\ bridge' \in Seq(Told' \cup {Resync})
      /\ faults' \in 0..MaxFaults
      /\ sent' \in [Turns -> Lengths] /\ \A t \in Turns : sent'[t] <= tab'[t]
  BY <1>1, CutTells, Standing DEF Requesters
<1>3. outbound' \in Seq(Frames')
  BY <1>1, <1>2, OnItsWay DEF link
<1>4. Behind
  BY <1>1, <1>2, Standing DEF Behind, link
<1>5. QED
  BY <1>2, <1>3, <1>4, QueuesSuffice

(* Requests that are answered to nobody keep what they declare.            *)
LEMMA OrphanedTell ==
  ASSUME FeedInv
  PROVE  Orphaned \in Seq(Requests)
<1>1. keyframes \in Seq(Requests) /\ DOMAIN keyframes = 1..Len(keyframes)
      /\ Len(keyframes) \in Nat
  BY Standing
<1>2. ASSUME NEW i \in DOMAIN keyframes
      PROVE  Orphaned[i] \in Requests
  <2>1. keyframes[i] \in Requests
    BY <1>1
  <2>2. [keyframes[i] EXCEPT !.by = "nobody"] \in Requests
    BY <2>1 DEF Requests, Requesters
  <2>3. QED
    BY <2>1, <2>2 DEF Orphaned
<1>3. DOMAIN Orphaned = 1..Len(keyframes) /\ Orphaned = [i \in 1..Len(keyframes) |-> Orphaned[i]]
  BY <1>1 DEF Orphaned
<1>4. QED
  BY <1>1, <1>2, <1>3


(* The steps that neither write nor publish.                               *)

LEMMA SocketSteps ==
  ASSUME FeedInv, ChannelDrops \/ ChannelOpens
  PROVE  FeedInv'
<1>1. CASE ChannelDrops
  <2>1. /\ Fault("drop") /\ channel' = FALSE
        /\ keyframes' = Orphaned /\ companion' = TransportEnded
        /\ UNCHANGED <<desktop, revision, bridge, outbound, gapPending, asks, phone>>
    BY <1>1 DEF ChannelDrops
  <2>2. /\ Grows /\ Told' = Told /\ Requests' = Requests /\ Frames' = Frames
    BY <2>1, NothingNew DEF desktop
  <2>3. faults' \in 0..MaxFaults
    BY <2>1, FaultCounts, Standing
  <2>4. companion' \in [pc : {"down", "binding", "up"}, generation : Nat,
                        ended : BOOLEAN, pump : {"run", "owes", "asks"},
                        reader : {"run", "asks"}]
    BY <2>1, Standing DEF TransportEnded
  <2>5. Behind
    BY <2>1, <2>3, <2>4, Standing DEF Behind, desktop
  <2>6. QED
    BY <2>1, <2>2, <2>5, OrphanedTell, QueuesSuffice, Standing
<1>2. CASE ChannelOpens
  <2>1. /\ channel' = TRUE
        /\ UNCHANGED <<desktop, revision, keyframes, bridge, link, faults>>
    BY <1>2 DEF ChannelOpens
  <2>2. /\ Grows /\ Told' = Told /\ Requests' = Requests /\ Frames' = Frames
    BY <2>1, NothingNew DEF desktop
  <2>3. Behind
    BY <2>1, Standing DEF Behind, desktop, link
  <2>4. QED
    BY <2>1, <2>2, <2>3, QueuesSuffice, Standing DEF link
<1>3. QED
  BY <1>1, <1>2

LEMMA CutSteps ==
  ASSUME FeedInv, Connects \/ PumpRequests \/ ReaderRequests
  PROVE  FeedInv'
<1>1. PICK by \in Requesters, over \in BOOLEAN :
        /\ Cut(keyframes, by, over)
        /\ UNCHANGED <<turns, running, tab, base, channel, outbound, gapPending, phone>>
  <2>1. (~running) \in BOOLEAN
    BY Standing
  <2>2. "bind" \in Requesters /\ "pump" \in Requesters /\ "reader" \in Requesters
    BY DEF Requesters
  <2>3. QED
    BY <2>1, <2>2 DEF Connects, PumpRequests, ReaderRequests
<1>2. /\ Grows
      /\ keyframes' \in Seq(Requests') /\ bridge' \in Seq(Told' \cup {Resync})
      /\ faults' \in 0..MaxFaults
      /\ sent' \in [Turns -> Lengths] /\ \A t \in Turns : sent'[t] <= tab'[t]
  BY <1>1, CutTells, Standing
<1>3. outbound' \in Seq(Frames')
  BY <1>1, <1>2, OnItsWay
<1>4. companion' \in [pc : {"down", "binding", "up"}, generation : Nat,
                      ended : BOOLEAN, pump : {"run", "owes", "asks"},
                      reader : {"run", "asks"}]
  <2>1. companion.generation \in Nat
    BY Standing
  <2>2. CASE Connects
    BY <2>1, <2>2 DEF Connects
  <2>3. CASE PumpRequests
    BY <2>3, Standing DEF PumpRequests
  <2>4. CASE ReaderRequests
    BY <2>4, Standing DEF ReaderRequests
  <2>5. QED
    BY <2>2, <2>3, <2>4
<1>5. asks' \in Nat
  <2>1. \A n \in Nat : n > 0 => n - 1 \in Nat
    OBVIOUS
  <2>2. asks \in Nat
    BY Standing
  <2>3. asks' = 0 \/ asks' = asks \/ (asks > 0 /\ asks' = asks - 1)
    BY DEF Connects, PumpRequests, ReaderRequests
  <2>4. QED
    BY <2>1, <2>2, <2>3
<1>6. Behind
  BY <1>1, <1>2, <1>4, <1>5, Standing DEF Behind
<1>7. QED
  BY <1>2, <1>3, <1>6, QueuesSuffice

(* Whether or not it pushes out another frame, a frame that is put into    *)
(* the outbound queue joins those that were there.                         *)
LEMMA PutStays ==
  ASSUME FeedInv, NEW e \in Told \cup {Gap}, Put(e)
  PROVE  outbound' \in Seq(Frames) /\ gapPending' \in BOOLEAN /\ faults' \in 0..MaxFaults
<1> DEFINE frame == [generation |-> companion.generation, event |-> e]
<1>1. frame \in Frames
  BY Standing DEF Frames
<1> HIDE DEF frame
<1>2. CASE outbound' = Append(outbound, frame) /\ UNCHANGED <<gapPending, faults>>
  BY <1>1, <1>2, Standing, AppendProperties
<1>3. ASSUME NEW i \in DOMAIN outbound,
             outbound' = Append(RemoveAt(outbound, i), frame),
             Fault("evict"), gapPending' = TRUE
      PROVE  outbound' \in Seq(Frames) /\ gapPending' \in BOOLEAN /\ faults' \in 0..MaxFaults
  <2>1. outbound \in Seq(Frames) /\ i \in 1..Len(outbound) /\ Len(outbound) \in Nat
        /\ \A k \in 1..Len(outbound) : outbound[k] \in Frames
    BY Standing
  <2>2. SubSeq(outbound, 1, i - 1) \in Seq(Frames)
    <3>1. 1 \in Int /\ i - 1 \in Int /\ \A k \in 1..(i - 1) : outbound[k] \in Frames
      BY <2>1
    <3>2. QED
      BY <3>1, SubSeqProperties
  <2>3. SubSeq(outbound, i + 1, Len(outbound)) \in Seq(Frames)
    <3>1. i + 1 \in Int /\ Len(outbound) \in Int
          /\ \A k \in (i + 1)..Len(outbound) : outbound[k] \in Frames
      BY <2>1
    <3>2. QED
      BY <3>1, SubSeqProperties
  <2>4. RemoveAt(outbound, i) \in Seq(Frames)
    BY <2>2, <2>3, ConcatProperties DEF RemoveAt
  <2>5. QED
    BY <1>1, <1>3, <2>4, AppendProperties, FaultCounts, Standing
<1>4. QED
  BY <1>2, <1>3 DEF Put, frame

LEMMA PumpSteps ==
  ASSUME FeedInv, PumpTakesEvent \/ PumpTakesResync
  PROVE  FeedInv'
<1>1. /\ bridge # <<>> /\ bridge' = Tail(bridge)
      /\ UNCHANGED <<desktop, revision, keyframes, channel, asks, phone>>
  BY DEF PumpTakesEvent, PumpTakesResync
<1>2. Grows /\ Told' = Told /\ Requests' = Requests /\ Frames' = Frames
  BY <1>1, NothingNew DEF desktop
<1>3. /\ Head(bridge) \in Told \cup {Resync}
      /\ Tail(bridge) \in Seq(Told \cup {Resync})
  BY <1>1, Standing, HeadTailProperties
<1>4. PICK e \in Told \cup {Gap} : Put(e)
  BY <1>3 DEF PumpTakesEvent, PumpTakesResync
<1>5. outbound' \in Seq(Frames) /\ gapPending' \in BOOLEAN /\ faults' \in 0..MaxFaults
  BY <1>4, PutStays
<1>6. companion' \in [pc : {"down", "binding", "up"}, generation : Nat,
                      ended : BOOLEAN, pump : {"run", "owes", "asks"},
                      reader : {"run", "asks"}]
  BY Standing DEF PumpTakesEvent, PumpTakesResync
<1>7. Behind
  BY <1>1, <1>5, <1>6, Standing DEF Behind, desktop
<1>8. QED
  BY <1>1, <1>2, <1>3, <1>5, <1>7, QueuesSuffice, Standing

LEMMA ConnectionEndsStep ==
  ASSUME FeedInv, ConnectionEnds
  PROVE  FeedInv'
<1>1. /\ UNCHANGED faults \/ Fault("cut")
      /\ bridge' \in InHand(bridge)
      /\ \/ gapPending' = FALSE /\ UNCHANGED outbound
         \/ UNCHANGED gapPending /\ outbound' \in InHand(outbound)
      /\ companion' = [companion EXCEPT !.pc = "down", !.ended = FALSE,
                                        !.pump = "run", !.reader = "run"]
      /\ keyframes' = Orphaned /\ asks' = 0
      /\ UNCHANGED <<desktop, revision, channel, phone>>
  BY DEF ConnectionEnds
<1>2. Grows /\ Told' = Told /\ Requests' = Requests /\ Frames' = Frames
  BY <1>1, NothingNew DEF desktop
<1>3. ASSUME NEW T, NEW q \in Seq(T), NEW p \in InHand(q)
      PROVE  p \in Seq(T)
  BY <1>3, HeadTailProperties DEF InHand
<1>4. bridge' \in Seq(Told \cup {Resync}) /\ outbound' \in Seq(Frames)
  <2>1. bridge \in Seq(Told \cup {Resync}) /\ outbound \in Seq(Frames)
    BY Standing
  <2>2. bridge' \in Seq(Told \cup {Resync})
    BY <1>1, <1>3, <2>1
  <2>3. outbound' \in Seq(Frames)
    BY <1>1, <1>3, <2>1
  <2>4. QED
    BY <2>2, <2>3
<1>5. faults' \in 0..MaxFaults
  BY <1>1, FaultCounts, Standing
<1>6. companion' \in [pc : {"down", "binding", "up"}, generation : Nat,
                      ended : BOOLEAN, pump : {"run", "owes", "asks"},
                      reader : {"run", "asks"}]
  BY <1>1, Standing
<1>7. Behind
  BY <1>1, <1>5, <1>6, Standing DEF Behind, desktop
<1>8. QED
  BY <1>1, <1>2, <1>4, <1>7, OrphanedTell, QueuesSuffice

LEMMA PhoneAsksStep ==
  ASSUME FeedInv, PhoneAsks
  PROVE  FeedInv'
<1>1. /\ Fault("ask") /\ asks' = asks + 1
      /\ UNCHANGED <<desktop, revision, keyframes, channel, bridge, companion, outbound,
                     gapPending, phone>>
  BY DEF PhoneAsks
<1>2. Grows /\ Told' = Told /\ Requests' = Requests /\ Frames' = Frames
  BY <1>1, NothingNew DEF desktop
<1>3. faults' \in 0..MaxFaults /\ asks' \in Nat
  BY <1>1, FaultCounts, Standing
<1>4. Behind
  BY <1>1, <1>3, Standing DEF Behind, desktop
<1>5. QED
  BY <1>1, <1>2, <1>4, QueuesSuffice, Standing

-----------------------------------------------------------------------------
(* The phone.                                                              *)

Replica == [text : [Turns -> Seq(Nat)], over : BOOLEAN, revision : Nat,
            recovery : BOOLEAN, page : Nat]

\* What is shown is a beginning of what was written.
Shows(p) ==
  /\ p \in Replica /\ p.revision <= revision
  /\ \A t \in Turns : /\ Len(p.text[t]) <= tab[t]
                      /\ \A i \in DOMAIN p.text[t] : p.text[t][i] = i

\* The beginning of a message, of the given length.
Beginning(n) == [i \in 1..n |-> i]

LEMMA Beginnings ==
  ASSUME NEW n \in Nat
  PROVE  /\ Beginning(n) \in Seq(Nat) /\ Len(Beginning(n)) = n
         /\ \A i \in DOMAIN Beginning(n) : Beginning(n)[i] = i
  BY DEF Beginning

(* A keyframe replaces the text by what it vouches for.                    *)
LEMMA CalibratedShows ==
  ASSUME FeedInv, NEW p, Shows(p), NEW d \in Documents, d.revision <= revision,
         \A t \in Turns : d.text[t] <= tab[t]
  PROVE  Shows(Calibrated(p, d))
<1> DEFINE text == [t \in Turns |-> [i \in 1..d.text[t] |-> i]]
<1>1. Calibrated(p, d) = [p EXCEPT !.text = text, !.over = d.over,
                                   !.revision = d.revision, !.recovery = FALSE]
  BY DEF Calibrated
<1>2. \A t \in Turns : text[t] = Beginning(d.text[t]) /\ d.text[t] \in Nat
  BY DocumentFields DEF Beginning
<1>3. text \in [Turns -> Seq(Nat)]
  BY <1>2, Beginnings
<1>4. \A t \in Turns : Len(text[t]) = d.text[t] /\ \A i \in DOMAIN text[t] : text[t][i] = i
  BY <1>2, Beginnings
<1> HIDE DEF text
<1>5. PICK q : q = Calibrated(p, d)
  OBVIOUS
<1>6. /\ q \in Replica /\ q.text = text /\ q.revision = d.revision
  BY <1>1, <1>3, <1>5, DocumentFields DEF Replica, Shows
<1>7. Shows(q)
  BY <1>4, <1>6 DEF Shows
<1>8. QED
  BY <1>5, <1>7

(* A delta that continues the text continues the beginning.                *)
LEMMA ExtendedShows ==
  ASSUME FeedInv, NEW p, Shows(p), NEW e \in Told, e.kind = "delta", Continues(p, e)
  PROVE  Shows(Extended(p, e))
<1>1. /\ e.turn \in Turns /\ e.offset \in Nat /\ e.upto \in Nat /\ e.revision \in Nat
      /\ e.offset <= e.upto /\ e.upto <= tab[e.turn] /\ e.revision <= revision
  BY EventFields, TurnsAndLengths DEF Told, Tells
<1>2. /\ p \in Replica /\ p.text[e.turn] \in Seq(Nat) /\ Len(p.text[e.turn]) = e.offset
      /\ \A i \in DOMAIN p.text[e.turn] : p.text[e.turn][i] = i
  BY <1>1 DEF Shows, Replica, Continues
<1> DEFINE old == p.text[e.turn]
           new == [i \in 1..(e.upto - e.offset) |-> e.offset + i]
<1>3. e.upto - e.offset \in Nat /\ e.offset + (e.upto - e.offset) = e.upto
  BY <1>1
<1>4. new \in Seq(Nat) /\ Len(new) = e.upto - e.offset
      /\ \A i \in 1..(e.upto - e.offset) : new[i] = e.offset + i
  BY <1>1, <1>3
<1>5. old \in Seq(Nat) /\ Len(old) = e.offset /\ \A i \in 1..e.offset : old[i] = i
  BY <1>2
<1> HIDE DEF old, new
<1>6. old \o new \in Seq(Nat) /\ Len(old \o new) = e.upto
  <2>1. old \o new \in Seq(Nat) /\ Len(old \o new) = Len(old) + Len(new)
    BY <1>4, <1>5, ConcatProperties
  <2>2. QED
    BY <1>3, <1>4, <1>5, <2>1
<1>7. ASSUME NEW i \in DOMAIN (old \o new)
      PROVE  (old \o new)[i] = i
  <2>1. i \in 1..e.upto /\ i \in 1..(Len(old) + Len(new)) /\ i \in Nat
    BY <1>1, <1>3, <1>4, <1>5, <1>6
  <2>2. (old \o new)[i] = IF i <= Len(old) THEN old[i] ELSE new[i - Len(old)]
    BY <1>4, <1>5, <2>1, ConcatProperties
  <2>3. CASE i <= e.offset
    BY <1>1, <1>5, <2>1, <2>2, <2>3
  <2>4. CASE ~(i <= e.offset)
    <3>1. i - e.offset \in 1..(e.upto - e.offset) /\ e.offset + (i - e.offset) = i
      BY <1>1, <2>1, <2>4
    <3>2. QED
      BY <1>4, <1>5, <2>2, <2>4, <3>1
  <2>5. QED
    BY <2>3, <2>4
<1>8. PICK q : q = Extended(p, e)
  OBVIOUS
<1>9. q = [p EXCEPT !.text = [p.text EXCEPT ![e.turn] = old \o new],
                    !.revision = e.revision]
  BY <1>2, <1>8 DEF Extended, Replica, old, new
<1>10. /\ q \in Replica /\ q.revision = e.revision
       /\ q.text = [p.text EXCEPT ![e.turn] = old \o new]
  BY <1>1, <1>2, <1>6, <1>9 DEF Replica
<1>11. ASSUME NEW t \in Turns
       PROVE  /\ Len(q.text[t]) <= tab[t]
              /\ \A i \in DOMAIN q.text[t] : q.text[t][i] = i
  <2>1. CASE t = e.turn
    <3>1. q.text[t] = old \o new
      BY <1>2, <1>10, <2>1 DEF Replica
    <3>2. QED
      BY <1>1, <1>6, <1>7, <2>1, <3>1
  <2>2. CASE t # e.turn
    <3>1. q.text[t] = p.text[t]
      BY <1>2, <1>10, <2>2 DEF Replica
    <3>2. QED
      BY <3>1 DEF Shows
  <2>3. QED
    BY <2>1, <2>2
<1>12. QED
  BY <1>1, <1>8, <1>10, <1>11 DEF Shows

(* Whatever the event, the phone shows a beginning after it.               *)
LEMMA AppliedShows ==
  ASSUME FeedInv, NEW p, Shows(p), NEW e \in Told
  PROVE  Shows(Applied(p, e)) /\ AppliedEvent(p, e).recovery \in BOOLEAN
<1>1. /\ e.kind \in {"started", "terminal", "page", "final", "delta"}
      /\ e.revision \in Nat /\ e.revision <= revision
  BY EventFields DEF Told, Tells
<1>2. p \in Replica
  BY DEF Shows
<1>3. Shows(Recovers(p))
  <2>1. PICK q : q = Recovers(p)
    OBVIOUS
  <2>2. q \in Replica /\ q.text = p.text /\ q.revision = p.revision
    BY <1>2, <2>1 DEF Recovers, Replica
  <2>3. QED
    BY <2>1, <2>2 DEF Shows
<1>4. Shows(AppliedEvent(p, e))
  <2>1. CASE e.kind = "page"
    <3>1. PICK q : q = [p EXCEPT !.page = e.id]
      OBVIOUS
    <3>2. e.id \in Nat
      BY <2>1, EventFields DEF Told
    <3>3. q \in Replica /\ q.text = p.text /\ q.revision = p.revision
      BY <1>2, <3>1, <3>2 DEF Replica
    <3>4. Shows(q)
      BY <3>3 DEF Shows
    <3>5. QED
      BY <2>1, <3>1, <3>4 DEF AppliedEvent
  <2>2. CASE e.kind = "final"
    <3>1. /\ e.document \in Documents /\ e.document.revision <= revision
          /\ \A t \in Turns : e.document.text[t] <= tab[t]
      BY <2>2, EventFields DEF Told, Tells
    <3>2. Shows(Calibrated(p, e.document))
      BY <3>1, CalibratedShows
    <3>3. AppliedEvent(p, e) = IF p.page = e.id THEN Calibrated(p, e.document)
                               ELSE Recovers(p)
      BY <2>2 DEF AppliedEvent
    <3>4. QED
      BY <1>3, <3>2, <3>3
  <2>3. CASE e.kind = "delta"
    <3>1. CASE Continues(p, e)
      <4>1. AppliedEvent(p, e) = Extended(p, e)
        BY <2>3, <3>1 DEF AppliedEvent
      <4>2. QED
        BY <2>3, <3>1, <4>1, ExtendedShows
    <3>2. CASE ~Continues(p, e)
      <4>1. AppliedEvent(p, e) = Recovers(p)
        BY <2>3, <3>2 DEF AppliedEvent
      <4>2. QED
        BY <1>3, <4>1
    <3>3. QED
      BY <3>1, <3>2
  <2>4. CASE e.kind \in {"started", "terminal"}
    <3>1. PICK q : q = [p EXCEPT !.revision = e.revision, !.over = e.kind = "terminal"]
      OBVIOUS
    <3>2. AppliedEvent(p, e) = q
      BY <2>4, <3>1 DEF AppliedEvent
    <3>3. q \in Replica /\ q.text = p.text /\ q.revision = e.revision
      BY <1>1, <1>2, <3>1 DEF Replica
    <3>4. Shows(q)
      BY <1>1, <3>3 DEF Shows
    <3>5. QED
      BY <3>2, <3>4
  <2>5. QED
    BY <1>1, <2>1, <2>2, <2>3, <2>4
<1>5. Shows(Applied(p, e))
  BY <1>4 DEF Applied
<1>6. AppliedEvent(p, e).recovery \in BOOLEAN
  BY <1>4 DEF Shows, Replica
<1>7. QED
  BY <1>5, <1>6

(* A step of the relay and the phone keeps the invariant when the phone    *)
(* shows a beginning after it.                                             *)
LEMMA PhoneSuffices ==
  ASSUME FeedInv,
         UNCHANGED <<desktop, revision, keyframes, channel, bridge, companion, faults>>,
         outbound' \in Seq(Frames), gapPending' \in BOOLEAN, asks' \in Nat,
         NEW q, Shows(q), phone' = q
  PROVE  FeedInv'
<1>1. Told' = Told /\ Requests' = Requests /\ Frames' = Frames
  BY NothingNew DEF desktop
<1>2. outbound' \in Seq([generation : Nat, event : FeedEvents \cup {Gap}])
  BY TellsAreTyped, SeqWidens
<1>3. FeedTypeOK'
  BY <1>2 DEF FeedInv, FeedTypeOK, desktop, Shows, Replica
<1>4. ShownTextIsPrefix' /\ PhoneIsBehind'
  BY DEF Shows, ShownTextIsPrefix, PhoneIsBehind, desktop
<1>5. QED
  BY <1>1, <1>3, <1>4, Standing DEF FeedInv

LEMMA WriterSendsStep ==
  ASSUME FeedInv, WriterSends
  PROVE  FeedInv'
<1>1. UNCHANGED <<desktop, revision, keyframes, channel, bridge, companion, faults>>
  BY DEF WriterSends
<1>2. Grows /\ Told' = Told /\ Requests' = Requests /\ Frames' = Frames
  BY <1>1, NothingNew DEF desktop
<1>3. Shows(phone)
  BY DEF Shows, Replica, FeedInv, FeedTypeOK, ShownTextIsPrefix, PhoneIsBehind
<1>4. Shows(Recovers(phone))
  <2>1. PICK q : q = Recovers(phone)
    OBVIOUS
  <2>2. q \in Replica /\ q.text = phone.text /\ q.revision = phone.revision
    BY <1>3, <2>1 DEF Recovers, Replica, Shows
  <2>3. QED
    BY <1>3, <2>1, <2>2 DEF Shows
<1>5. CASE gapPending /\ gapPending' = FALSE /\ RelayTakesGap /\ UNCHANGED outbound
  <2>1. PICK q : q = Recovers(phone) /\ phone' = q /\ asks' = asks + 2
    BY <1>5 DEF RelayTakesGap
  <2>2. Shows(q) /\ asks' \in Nat
    BY <1>4, <2>1, Standing
  <2>3. QED
    BY <1>1, <1>2, <1>5, <2>1, <2>2, PhoneSuffices, Standing
<1>6. CASE /\ ~gapPending /\ outbound # <<>> /\ outbound' = Tail(outbound)
           /\ IF Head(outbound).event = Gap THEN RelayTakesGap
              ELSE RelayTakesEvent(Head(outbound))
           /\ UNCHANGED gapPending
  <2>1. PICK f \in Frames : f = Head(outbound)
    BY <1>6, Standing, HeadTailProperties
  <2>2. outbound' \in Seq(Frames)
    BY <1>6, Standing, HeadTailProperties
  <2>3. PICK q : Shows(q) /\ phone' = q /\ asks' \in Nat
    <3>1. CASE f.event = Gap
      BY <1>4, <1>6, <2>1, <3>1, Standing DEF RelayTakesGap
    <3>2. CASE f.event # Gap /\ f.generation # companion.generation
      BY <1>3, <1>6, <2>1, <3>2, Standing DEF RelayTakesEvent
    <3>3. CASE f.event # Gap /\ f.generation = companion.generation
      <4>1. f.event \in Told
        BY <3>3 DEF Frames
      <4>2. /\ phone' = Applied(phone, f.event)
            /\ asks' = IF Asks(phone, f.event) THEN asks + 1 ELSE asks
        BY <1>6, <2>1, <3>3 DEF RelayTakesEvent
      <4>3. asks' \in Nat
        BY <4>2, Standing
      <4>4. QED
        BY <1>3, <4>1, <4>2, <4>3, AppliedShows
    <3>4. QED
      BY <3>1, <3>2, <3>3
  <2>4. QED
    BY <1>1, <1>2, <1>6, <2>2, <2>3, PhoneSuffices, Standing
<1>7. QED
  BY <1>5, <1>6 DEF WriterSends

-----------------------------------------------------------------------------
(* The theorems.                                                           *)

LEMMA FeedInvInit == FeedInit => FeedInv
<1> SUFFICES ASSUME FeedInit PROVE FeedInv
  OBVIOUS
<1>1. Nothing \in [Turns -> Lengths] /\ Nothing \in [Turns -> Nat]
      /\ \A t \in Turns : Nothing[t] = 0
  BY TurnsAndLengths DEF Nothing
<1>2. /\ turns = 0 /\ running = FALSE
      /\ tab = Nothing /\ sent = Nothing /\ base = Nothing
      /\ revision = 2 /\ keyframes = <<>> /\ channel = TRUE /\ bridge = <<>>
      /\ outbound = <<>> /\ gapPending = FALSE /\ asks = 0 /\ faults = 0
  BY DEF FeedInit
<1>3. companion = [pc |-> "up", generation |-> 1, ended |-> FALSE,
                   pump |-> "run", reader |-> "run"]
  BY DEF FeedInit
<1>4. phone = [text |-> [t \in Turns |-> <<>>], over |-> TRUE, revision |-> 2,
               recovery |-> FALSE, page |-> 1]
  BY DEF FeedInit
<1>5. phone \in [text : [Turns -> Seq(Nat)], over : BOOLEAN, revision : Nat,
                 recovery : BOOLEAN, page : Nat]
  BY <1>4
<1>6. \A t \in Turns : phone.text[t] = <<>>
  BY <1>4
<1>7. companion \in [pc : {"down", "binding", "up"}, generation : Nat, ended : BOOLEAN,
                     pump : {"run", "owes", "asks"}, reader : {"run", "asks"}]
  BY <1>3
<1>8. 0 \in 0..MaxTurns /\ 0 \in 0..MaxFaults
  BY SourceFeedAssumption
<1>9. FeedTypeOK
  <2>1. /\ <<>> \in Seq([by : Requesters, document : Documents])
        /\ <<>> \in Seq(FeedEvents \cup {Resync})
        /\ <<>> \in Seq([generation : Nat, event : FeedEvents \cup {Gap}])
    OBVIOUS
  <2>2. \A t \in Turns : sent[t] <= tab[t]
    BY <1>1, <1>2
  <2>3. QED
    BY <1>1, <1>2, <1>5, <1>7, <1>8, <2>1, <2>2 DEF FeedTypeOK
<1>10. ShownTextIsPrefix
  BY <1>6 DEF ShownTextIsPrefix
<1>11. PhoneIsBehind
  BY <1>1, <1>2, <1>4, <1>6 DEF PhoneIsBehind
<1>12. QED
  BY <1>2, <1>9, <1>10, <1>11 DEF FeedInv

LEMMA FeedInvStep == FeedInv /\ [FeedNext]_feedVars => FeedInv'
<1> SUFFICES ASSUME FeedInv, [FeedNext]_feedVars PROVE FeedInv'
  OBVIOUS
<1>1. CASE Capture
  BY <1>1, TurnStartsStep, ChunkObservedStep, FlushTextStep, SendReturnsStep,
     KeyframeEndsStep DEF Capture
<1>2. CASE Feed
  BY <1>2, CutSteps, PumpSteps, WriterSendsStep, SocketSteps DEF Feed
<1>3. CASE ConnectionEnds
  BY <1>3, ConnectionEndsStep
<1>4. CASE ChannelDrops
  BY <1>4, SocketSteps
<1>5. CASE PhoneAsks
  BY <1>5, PhoneAsksStep
<1>6. CASE UNCHANGED feedVars
  <2>1. /\ UNCHANGED <<turns, running, tab, sent, base, revision, keyframes, channel,
                       bridge, companion, outbound, gapPending, asks, phone, faults>>
    BY <1>6 DEF feedVars, desktop, link
  <2>2. Grows /\ Told' = Told /\ Requests' = Requests /\ Frames' = Frames
    BY <2>1, NothingNew
  <2>3. Behind
    BY <2>1, Standing DEF Behind
  <2>4. QED
    BY <2>1, <2>2, <2>3, QueuesSuffice, Standing
<1>7. QED
  BY <1>1, <1>2, <1>3, <1>4, <1>5, <1>6 DEF FeedNext

(* Everything on its way to the phone tells the truth about the desktop.   *)
THEOREM FeedTellsTheTruth == FeedSpec => []FeedInv
<1>1. FeedInit => FeedInv
  BY FeedInvInit
<1>2. FeedInv /\ [FeedNext]_feedVars => FeedInv'
  BY FeedInvStep
<1>3. QED
  BY <1>1, <1>2, PTL DEF FeedSpec

(* The plugin, the bridge, the Companion and the phone keep the shape of   *)
(* their state.                                                            *)
THEOREM FeedIsTyped == FeedSpec => []FeedTypeOK
<1>1. FeedInv => FeedTypeOK
  BY DEF FeedInv
<1>2. QED
  BY <1>1, FeedTellsTheTruth, PTL

(* What the phone shows of a message is the beginning of it.               *)
THEOREM TextIsAPrefix == FeedSpec => []ShownTextIsPrefix
<1>1. FeedInv => ShownTextIsPrefix
  BY DEF FeedInv
<1>2. QED
  BY <1>1, FeedTellsTheTruth, PTL

(* The phone is never ahead of the desktop.                                *)
THEOREM PhoneStaysBehind == FeedSpec => []PhoneIsBehind
<1>1. FeedInv => PhoneIsBehind
  BY DEF FeedInv
<1>2. QED
  BY <1>1, FeedTellsTheTruth, PTL

==============================================================================
