--------------------------- MODULE BackfillProofs ----------------------------
(***************************************************************************)
(* Proofs about Backfill, for any spelling of any slots and any number of  *)
(* rows, runs, crashes and repairs.                                        *)
(*                                                                         *)
(* While a run of the migration reads, its chains are sorted and hold rows *)
(* of their own slot; what it writes follows from them row by row.  Once   *)
(* last_observed_at is NOT NULL no row was missed, so the table itself is  *)
(* numbered and linked (Linked below), and stays so until the column is    *)
(* dropped.                                                                *)
(***************************************************************************)
EXTENDS Backfill, FiniteSetTheorems, FunctionTheorems, TLAPS

Phases == {"idle", "adding", "grouping", "updating", "constraining", "stamping", "dropping"}

TypeInv ==
  /\ rows \in [Ids -> Row]
  /\ revision \in {"0006", "0007"}
  /\ columns \in 0..4
  /\ strict \in BOOLEAN
  /\ phase \in Phases
  /\ listed \in Seq(Ids)
  /\ chains \in [Keys -> Seq(Ids)]
  /\ DOMAIN written \subseteq Ids

\* A superseded row has a younger one in its slot.
SupersededHasYounger ==
  \A id \in Saved : rows[id].status = "superseded" =>
    \E j \in Saved : Before(id, j) /\ Norm[rows[j].key] = Norm[rows[id].key]

\* What is still to be grouped, in order.
ListSorted ==
  /\ \A i \in DOMAIN listed : listed[i] \in Saved
  /\ \A i, j \in DOMAIN listed : i < j => Before(listed[i], listed[j])

\* The chains so far.
ChainsSorted ==
  \A k \in Keys :
    /\ \A i \in DOMAIN chains[k] : chains[k][i] \in Saved /\ Norm[rows[chains[k][i]].key] = k
    /\ \A i, j \in DOMAIN chains[k] : i < j => Before(chains[k][i], chains[k][j])

ChainsBeforeList ==
  \A k \in Keys : \A i \in DOMAIN chains[k], j \in DOMAIN listed : Before(chains[k][i], listed[j])

\* What is written so far, row by row.
WritesFollowChains ==
  \A id \in DOMAIN written : \E s \in Keys, i \in Ids :
    i \in DOMAIN chains[s] /\ chains[s][i] = id /\ written[id] = UpdatedRow(s, i)

\* The new columns as ADD COLUMN leaves them.
Unfilled == \A id \in Ids : rows[id].lastObserved = 0 /\ rows[id].supersededBy = 0

\* A table in which every slot is numbered and linked by age.
Numbered ==
  /\ \A id \in Saved :
       /\ rows[id].key \in SlotKeys /\ Norm[rows[id].key] = rows[id].key
       /\ rows[id].lastObserved = rows[id].created
       /\ rows[id].version \in Ids
       /\ \A v \in 1..rows[id].version :
            \E j \in Saved : rows[j].key = rows[id].key /\ rows[j].version = v
  /\ \A i, j \in Saved :
       rows[i].key = rows[j].key => (Before(i, j) <=> rows[i].version < rows[j].version)

LinkedTo(id, j) ==
  /\ j \in Saved
  /\ rows[j].key = rows[id].key /\ rows[j].version = rows[id].version + 1
  /\ rows[id].supersededBy = j /\ rows[id].supersededAt = rows[j].created

Linked ==
  /\ Numbered
  /\ \A id \in Saved :
       \/ rows[id].status = "superseded" /\ \E j \in Ids : LinkedTo(id, j)
       \/ /\ rows[id].status # "superseded" /\ rows[id].supersededBy = 0
          /\ \A j \in Saved : rows[j].key = rows[id].key => rows[j].version <= rows[id].version

Control ==
  /\ phase \in {"adding", "grouping", "updating"} => ~strict
  /\ phase \in {"grouping", "updating"} => columns = 4
  /\ phase \in {"constraining", "stamping"} => strict
  /\ strict => columns > 0
  /\ revision = "0007" => phase \in {"idle", "dropping"}
  /\ phase = "dropping" => revision = "0007"
  /\ phase = "stamping" => columns = 4
  /\ phase = "constraining" => columns = 4
  /\ revision = "0007" /\ columns = 4 => strict

IInv ==
  /\ TypeInv
  /\ Control
  /\ SupersededHasYounger
  /\ phase \in {"grouping", "updating"} => ChainsSorted
  /\ phase = "grouping" => ListSorted /\ ChainsBeforeList /\ written = <<>>
  /\ phase = "updating" => WritesFollowChains
  /\ phase \in {"adding", "grouping", "updating"} /\ columns > 0 => Unfilled
  /\ strict => Linked

-----------------------------------------------------------------------------
(* Order, slots and types.                                                 *)

LEMMA NormalKeys == \A k \in SlotKeys : k \in Keys /\ Norm[k] = k
BY KeyAssumption DEF SlotKeys

LEMMA RowMade ==
  ASSUME NEW key \in Keys, NEW status \in {"candidate", "expired", "superseded"},
         NEW created \in 0..MaxTime, NEW version \in Nat, NEW at \in 0..MaxTime,
         NEW closed \in 0..MaxTime, NEW by \in 0..MaxId
  PROVE  AsRow(key, status, created, version, at, closed, by) \in Row
BY DEF AsRow, Row

LEMMA RowFields ==
  ASSUME NEW row \in Row
  PROVE  /\ row.key \in Keys /\ row.status \in {"candidate", "expired", "superseded"}
         /\ row.created \in 0..MaxTime /\ row.version \in Nat
         /\ row.lastObserved \in 0..MaxTime
         /\ row.supersededAt \in 0..MaxTime /\ row.supersededBy \in 0..MaxId
BY DEF Row

LEMMA PlainTyped ==
  ASSUME NEW key \in Keys, NEW status \in {"candidate", "expired", "superseded"},
         NEW created \in 0..MaxTime
  PROVE  Plain(key, status, created) \in Row
<1>1. 0 \in 0..MaxTime /\ 0 \in 0..MaxId /\ 1 \in Nat
  BY BoundAssumption
<1> QED
  BY <1>1, RowMade DEF Plain

LEMMA CreatedTyped ==
  ASSUME TypeInv, NEW id \in Ids
  PROVE  /\ rows[id] \in Row
         /\ rows[id].created \in 0..MaxTime
         /\ id \in Int
         /\ id \in Saved <=> rows[id].created > 0
<1>1. rows[id] \in Row
  BY DEF TypeInv
<1> QED
  BY <1>1, BoundAssumption DEF Row, Ids, Saved

LEMMA BeforeOrders ==
  ASSUME TypeInv
  PROVE  /\ \A i \in Ids : ~Before(i, i)
         /\ \A i, j \in Ids : i # j => Before(i, j) \/ Before(j, i)
         /\ \A i, j, k \in Ids : Before(i, j) /\ Before(j, k) => Before(i, k)
<1>1. \A i \in Ids : rows[i].created \in Int /\ i \in Int
  BY CreatedTyped
<1> QED
  BY <1>1 DEF Before

LEMMA ChainElement ==
  ASSUME TypeInv, NEW s \in Keys, NEW i \in DOMAIN chains[s]
  PROVE  /\ chains[s] \in Seq(Ids) /\ i \in 1..Len(chains[s])
         /\ chains[s][i] \in Ids
         /\ rows[chains[s][i]] \in Row
         /\ i < Len(chains[s]) =>
              /\ i + 1 \in DOMAIN chains[s]
              /\ chains[s][i + 1] \in Ids
              /\ rows[chains[s][i + 1]] \in Row
<1>1. chains[s] \in Seq(Ids)
  BY DEF TypeInv
<1>2. DOMAIN chains[s] = 1..Len(chains[s]) /\ Len(chains[s]) \in Nat
  BY <1>1
<1>3. chains[s][i] \in Ids
  BY <1>1, <1>2
<1>4. ASSUME i < Len(chains[s])
      PROVE  i + 1 \in DOMAIN chains[s] /\ chains[s][i + 1] \in Ids
  BY <1>1, <1>2, <1>4
<1> QED
  BY <1>1, <1>2, <1>3, <1>4 DEF TypeInv

LEMMA UpdatedRowTyped ==
  ASSUME TypeInv, NEW s \in Keys, NEW i \in Ids, i \in DOMAIN chains[s]
  PROVE  /\ UpdatedRow(s, i) \in Row
         /\ UpdatedRow(s, i).created = rows[chains[s][i]].created
         /\ UpdatedRow(s, i).lastObserved = rows[chains[s][i]].created
         /\ UpdatedRow(s, i).key = s
         /\ UpdatedRow(s, i).version = i
         /\ i < Len(chains[s]) =>
              /\ UpdatedRow(s, i).status = "superseded"
              /\ UpdatedRow(s, i).supersededBy = chains[s][i + 1]
              /\ UpdatedRow(s, i).supersededAt = rows[chains[s][i + 1]].created
         /\ ~(i < Len(chains[s])) =>
              /\ UpdatedRow(s, i).status = rows[chains[s][i]].status
              /\ UpdatedRow(s, i).supersededBy = rows[chains[s][i]].supersededBy
<1> DEFINE row == rows[chains[s][i]]
<1>1. row \in Row /\ i \in Nat
  BY ChainElement, BoundAssumption DEF Ids
<1>2. CASE i < Len(chains[s])
  <2> DEFINE next == chains[s][i + 1]
  <2>1. next \in Ids /\ rows[next].created \in 0..MaxTime
    BY <1>2, ChainElement, CreatedTyped
  <2>2. next \in 0..MaxId
    BY <2>1, BoundAssumption DEF Ids
  <2>3. UpdatedRow(s, i)
          = AsRow(s, "superseded", row.created, i, row.created, rows[next].created, next)
    BY <1>2 DEF UpdatedRow
  <2>4. row.created \in 0..MaxTime
    BY <1>1, RowFields
  <2>5. UpdatedRow(s, i) \in Row
    BY <1>1, <2>1, <2>2, <2>3, <2>4, RowMade
  <2> QED
    BY <1>2, <2>3, <2>5 DEF AsRow
<1>3. CASE ~(i < Len(chains[s]))
  <2>1. UpdatedRow(s, i) = AsRow(s, row.status, row.created, i, row.created,
                                 row.supersededAt, row.supersededBy)
    BY <1>3 DEF UpdatedRow
  <2>2. UpdatedRow(s, i) \in Row
    <3>1. /\ row.status \in {"candidate", "expired", "superseded"}
          /\ row.created \in 0..MaxTime /\ row.supersededAt \in 0..MaxTime
          /\ row.supersededBy \in 0..MaxId
      BY <1>1, RowFields
    <3> HIDE DEF row
    <3> QED
      BY <1>1, <2>1, <3>1, RowMade
  <2> QED
    BY <1>3, <2>1, <2>2 DEF AsRow
<1> QED
  BY <1>2, <1>3

-----------------------------------------------------------------------------
(* What the steps do to the rows.                                          *)

\* Rows stay what and where they are; only their status and columns may change.
Same(old, new) ==
  new.created = old.created /\ Norm[new.key] = Norm[old.key]

LEMMA OldSaveSaves ==
  ASSUME TypeInv, NEW id \in Ids, NEW key \in Keys, NEW at \in Times,
         NEW status \in {"candidate", "expired"}, OldSave(id, key, at, status)
  PROVE  /\ rows'[id] \in Row /\ rows' \in [Ids -> Row]
         /\ rows'[id].created = at /\ rows'[id].status = status
         /\ rows'[id].lastObserved = 0 /\ rows'[id].supersededBy = 0
         /\ \A j \in Ids \ {id} : rows'[j] = rows[j]
         /\ id \notin Saved
<1>1. Plain(key, status, at) \in Row
  BY PlainTyped, BoundAssumption DEF Times
<1> QED
  BY <1>1 DEF OldSave, TypeInv, Plain, AsRow

\* In every step a saved row stays in its slot, and is closed only for a
\* younger one.
RowKept(id) ==
  /\ Same(rows[id], rows'[id])
  /\ \/ rows'[id].status = rows[id].status
     \/ /\ rows'[id].status = "superseded"
        /\ \E j \in Saved : Before(id, j) /\ Norm[rows[j].key] = Norm[rows[id].key]

LEMMA UpdatesKeepRows ==
  ASSUME IInv, RequireObserved
  PROVE  /\ rows' \in [Ids -> Row]
         /\ \A id \in Ids : RowKept(id)
<1>1. TypeInv /\ ChainsSorted /\ WritesFollowChains
  BY DEF IInv, RequireObserved
<1>2. ASSUME NEW id \in Ids
      PROVE  rows'[id] \in Row /\ RowKept(id)
  <2>1. CASE id \notin DOMAIN written
    BY <1>1, <2>1, CreatedTyped DEF RequireObserved, RowKept, Same
  <2>2. CASE id \in DOMAIN written
    <3>1. PICK s \in Keys, i \in Ids :
            i \in DOMAIN chains[s] /\ chains[s][i] = id /\ written[id] = UpdatedRow(s, i)
      BY <1>1, <2>2 DEF WritesFollowChains
    <3>2. rows'[id] = UpdatedRow(s, i)
      BY <2>2, <3>1 DEF RequireObserved
    <3>3. Norm[rows[id].key] = s /\ Norm[s] = s
      BY <1>1, <3>1, KeyAssumption, CreatedTyped DEF ChainsSorted, Row
    <3>4. Same(rows[id], rows'[id])
      BY <1>1, <3>1, <3>2, <3>3, UpdatedRowTyped DEF Same
    <3>5. CASE i < Len(chains[s])
      <4>1. /\ i + 1 \in DOMAIN chains[s] /\ i < i + 1
        BY <1>1, <3>1, <3>5, ChainElement DEF Ids
      <4>2. chains[s][i + 1] \in Saved /\ Norm[rows[chains[s][i + 1]].key] = s
              /\ Before(id, chains[s][i + 1])
        BY <1>1, <3>1, <4>1 DEF ChainsSorted
      <4> QED
        BY <1>1, <3>1, <3>2, <3>3, <3>4, <3>5, <4>2, UpdatedRowTyped DEF RowKept
    <3>6. CASE ~(i < Len(chains[s]))
      BY <1>1, <3>1, <3>2, <3>4, <3>6, UpdatedRowTyped DEF RowKept
    <3> QED
      BY <1>1, <3>1, <3>2, <3>5, <3>6, UpdatedRowTyped
  <2> QED
    BY <2>1, <2>2
<1> QED
  BY <1>2 DEF RequireObserved

LEMMA StepsKeepRows ==
  ASSUME IInv, [Next]_vars
  PROVE  /\ rows' \in [Ids -> Row]
         /\ \A id \in Saved : RowKept(id)
         /\ \A id \in Saved' \ Saved : rows'[id].status # "superseded"
<1>1. TypeInv
  BY DEF IInv
<1>2. CASE UNCHANGED rows
  BY <1>1, <1>2 DEF TypeInv, RowKept, Same, Saved
<1>3. CASE AddColumn
  <2>1. \A id \in Ids : rows'[id] = Plain(rows[id].key, rows[id].status, rows[id].created)
    BY <1>3 DEF AddColumn
  <2>2. \A id \in Ids : rows'[id] \in Row
    BY <1>1, <2>1, PlainTyped, RowFields DEF TypeInv
  <2> QED
    BY <1>3, <2>1, <2>2 DEF AddColumn, RowKept, Same, Saved, Plain, AsRow
<1>4. CASE RequireObserved
  <2>1. Saved' = Saved
    BY <1>4, UpdatesKeepRows DEF Saved, RowKept, Same
  <2> QED
    BY <1>4, <2>1, UpdatesKeepRows DEF Saved
<1>5. ASSUME NEW id \in Ids, NEW key \in Keys, NEW at \in Times,
             NEW status \in {"candidate", "expired"}, OldSave(id, key, at, status)
      PROVE  /\ rows' \in [Ids -> Row]
             /\ \A j \in Saved : RowKept(j)
             /\ \A j \in Saved' \ Saved : rows'[j].status # "superseded"
  BY <1>1, <1>5, OldSaveSaves DEF RowKept, Same, Saved
<1> QED
  BY <1>2, <1>3, <1>4, <1>5 DEF Next, Migrate, vars, Upgrade, SelectRows, GroupRow, Grouped,
     UpdateRow, Constrain, Stamp, Downgrade, DropColumn, Dropped, Crash, RepairByHand

LEMMA OrderKept ==
  ASSUME IInv, [Next]_vars
  PROVE  /\ Saved \subseteq Saved'
         /\ \A i, j \in Saved : Before(i, j)' <=> Before(i, j)
         /\ \A i \in Saved : Norm[rows'[i].key] = Norm[rows[i].key]
<1>1. \A i \in Saved : /\ rows'[i].created = rows[i].created
                       /\ Norm[rows'[i].key] = Norm[rows[i].key]
  BY StepsKeepRows DEF RowKept, Same
<1>2. Saved \subseteq Saved'
  BY <1>1 DEF Saved
<1>3. ASSUME NEW i \in Saved, NEW j \in Saved
      PROVE  Before(i, j)' <=> Before(i, j)
  BY <1>1 DEF Before
<1> QED
  BY <1>1, <1>2, <1>3

LEMMA SupersededStep ==
  ASSUME IInv, [Next]_vars
  PROVE  SupersededHasYounger'
<1> SUFFICES ASSUME NEW id \in Saved', rows'[id].status = "superseded"
             PROVE  \E j \in Saved' : Before(id, j)' /\ Norm[rows'[j].key] = Norm[rows'[id].key]
  BY DEF SupersededHasYounger
<1>1. id \in Saved
  BY StepsKeepRows
<1>2. \E j \in Saved : Before(id, j) /\ Norm[rows[j].key] = Norm[rows[id].key]
  BY <1>1, StepsKeepRows DEF RowKept, IInv, SupersededHasYounger
<1> QED
  BY <1>1, <1>2, OrderKept

-----------------------------------------------------------------------------
(* Control and types.                                                      *)

LEMMA ControlStep ==
  ASSUME IInv, [Next]_vars
  PROVE  Control'
<1>1. Control /\ columns \in 0..4 /\ strict \in BOOLEAN
  BY DEF IInv, TypeInv
<1>2. CASE UNCHANGED vars
  BY <1>1, <1>2 DEF vars, Control
<1>3. CASE Upgrade
  BY <1>1, <1>3 DEF Control, Upgrade, Running
<1>4. CASE AddColumn
  BY <1>1, <1>4 DEF Control, AddColumn
<1>5. CASE SelectRows
  BY <1>1, <1>5 DEF Control, SelectRows
<1>6. CASE GroupRow
  BY <1>1, <1>6 DEF Control, GroupRow
<1>7. CASE Grouped
  BY <1>1, <1>7 DEF Control, Grouped
<1>8. CASE Constrain
  BY <1>1, <1>8 DEF Control, Constrain
<1>9. CASE Stamp
  BY <1>1, <1>9 DEF Control, Stamp
<1>10. CASE Downgrade
  BY <1>1, <1>10 DEF Control, Downgrade, Running
<1>11. CASE DropColumn
  BY <1>1, <1>11 DEF Control, DropColumn
<1>12. CASE Dropped
  BY <1>1, <1>12 DEF Control, Dropped
<1>13. CASE Crash
  BY <1>1, <1>13 DEF Control, Crash, Running
<1>14. CASE RepairByHand
  BY <1>1, <1>14 DEF Control, RepairByHand, Running
<1>15. CASE \E s \in Keys, i \in Ids : UpdateRow(s, i)
  BY <1>1, <1>15 DEF Control, UpdateRow
<1>16. CASE RequireObserved
  <2>1. /\ phase = "updating" /\ UNCHANGED <<revision, columns>>
        /\ phase' = IF strict' THEN "constraining" ELSE "idle"
    BY <1>16 DEF RequireObserved
  <2> QED
    BY <1>1, <2>1 DEF Control
<1>17. CASE \E id \in Ids, key \in Keys, at \in Times, status \in {"candidate", "expired"} :
             OldSave(id, key, at, status)
  BY <1>1, <1>17 DEF Control, OldSave
<1> QED
  BY <1>2, <1>3, <1>4, <1>5, <1>6, <1>7, <1>8, <1>9, <1>10, <1>11, <1>12, <1>13,
     <1>14, <1>15, <1>16, <1>17
     DEF Next, Migrate

LEMMA EmptyTyped == <<>> \in Seq(Ids) /\ NoChains \in [Keys -> Seq(Ids)]
BY DEF NoChains

LEMMA TypeStep ==
  ASSUME IInv, [Next]_vars
  PROVE  TypeInv'
<1>1. TypeInv
  BY DEF IInv
<1>2. rows' \in [Ids -> Row]
  BY StepsKeepRows
<1>3. CASE UNCHANGED vars
  BY <1>1, <1>3 DEF vars, TypeInv
<1>4. CASE Upgrade \/ AddColumn
  BY <1>1, <1>2, <1>4 DEF TypeInv, Phases, Upgrade, AddColumn
<1>5. CASE SelectRows
  <2>1. listed' \in Seq(Ids)
    <3>1. PICK n \in 0..MaxId : \E list \in [1..n -> Saved] : listed' = list
      BY <1>5 DEF SelectRows
    <3>2. listed' \in [1..n -> Ids] /\ n \in Nat
      BY <3>1, BoundAssumption DEF Saved
    <3> QED
      BY <3>2
  <2>2. DOMAIN written' \subseteq Ids
    BY <1>5 DEF SelectRows
  <2> QED
    BY <1>1, <1>2, <1>5, <2>1, <2>2, EmptyTyped DEF TypeInv, Phases, SelectRows
<1>6. CASE GroupRow
  <2>1. Head(listed) \in Ids /\ Tail(listed) \in Seq(Ids)
    BY <1>1, <1>6 DEF GroupRow, TypeInv
  <2>2. ASSUME NEW k \in Keys
        PROVE  chains[k] \in Seq(Ids) /\ Append(chains[k], Head(listed)) \in Seq(Ids)
    BY <1>1, <2>1 DEF TypeInv
  <2>3. chains' \in [Keys -> Seq(Ids)]
    BY <1>1, <1>6, <2>2 DEF GroupRow, TypeInv
  <2> QED
    BY <1>1, <1>2, <1>6, <2>1, <2>3 DEF GroupRow, TypeInv, Phases
<1>7. CASE Grouped \/ Constrain \/ Stamp \/ Downgrade \/ Dropped
  BY <1>1, <1>2, <1>7 DEF TypeInv, Phases, Grouped, Constrain, Stamp, Downgrade, Dropped
<1>12. CASE DropColumn
  <2>1. strict \in BOOLEAN
    BY <1>1, Zenon DEF TypeInv
  <2>2. strict' \in BOOLEAN
    BY <1>12, <2>1, Zenon DEF DropColumn
  <2>3. columns' \in 0..4 /\ UNCHANGED <<revision, phase, listed, chains, written>>
    BY <1>1, <1>12 DEF TypeInv, DropColumn
  <2> QED
    BY <1>1, <1>2, <2>2, <2>3, Zenon DEF TypeInv
<1>13. CASE RepairByHand
  <2>1. columns' = 0 /\ strict' \in BOOLEAN /\ revision' = "0006"
    BY <1>13, Zenon DEF RepairByHand
  <2>3. columns' \in 0..4 /\ revision' \in {"0006", "0007"}
    BY <2>1
  <2>2. UNCHANGED <<phase, listed, chains, written>>
    BY <1>13 DEF RepairByHand
  <2> QED
    BY <1>1, <1>2, <2>1, <2>2, <2>3, Zenon DEF TypeInv
<1>8. ASSUME NEW s \in Keys, NEW i \in Ids, UpdateRow(s, i)
      PROVE  TypeInv'
  <2>1. chains[s][i] \in Ids
    BY <1>1, <1>8, ChainElement DEF UpdateRow, ToUpdate
  <2>2. DOMAIN written' \subseteq Ids
    BY <1>1, <1>8, <2>1 DEF UpdateRow, TypeInv
  <2> QED
    BY <1>1, <1>2, <1>8, <2>2 DEF UpdateRow, TypeInv
<1>9. CASE RequireObserved
  <2>1. strict' \in BOOLEAN /\ phase' \in Phases
    BY <1>9 DEF RequireObserved, Phases
  <2> QED
    BY <1>1, <1>2, <1>9, <2>1, EmptyTyped DEF RequireObserved, TypeInv
<1>10. CASE Crash
  BY <1>1, <1>2, <1>10, EmptyTyped DEF Crash, TypeInv, Phases
<1>11. CASE \E id \in Ids, key \in Keys, at \in Times, status \in {"candidate", "expired"} :
             OldSave(id, key, at, status)
  BY <1>1, <1>2, <1>11 DEF OldSave, TypeInv
<1> QED
  BY <1>3, <1>4, <1>5, <1>6, <1>7, <1>8, <1>9, <1>10, <1>11, <1>12,
     <1>13 DEF Next, Migrate

-----------------------------------------------------------------------------
(* Reading and grouping.                                                   *)

OldSaves == \E id \in Ids, key \in Keys, at \in Times, status \in {"candidate", "expired"} :
              OldSave(id, key, at, status)

LEMMA HeadAndTail ==
  ASSUME TypeInv, listed # <<>>
  PROVE  /\ 1 \in DOMAIN listed /\ Head(listed) = listed[1] /\ Head(listed) \in Ids
         /\ \A j \in DOMAIN Tail(listed) :
              j + 1 \in DOMAIN listed /\ 1 < j + 1 /\ Tail(listed)[j] = listed[j + 1]
         /\ \A i, j \in DOMAIN Tail(listed) : i < j => i + 1 < j + 1
<1>1. listed \in Seq(Ids)
  BY DEF TypeInv
<1> QED
  BY <1>1

\* One turn of the loop that groups the rows.
LEMMA GroupedChain ==
  ASSUME TypeInv, ListSorted, GroupRow, NEW k \in Keys
  PROVE  \/ chains'[k] = chains[k]
         \/ /\ k = Norm[rows[Head(listed)].key]
            /\ DOMAIN chains'[k] = DOMAIN chains[k] \cup {Len(chains[k]) + 1}
            /\ \A i \in DOMAIN chains[k] : chains'[k][i] = chains[k][i] /\ i < Len(chains[k]) + 1
            /\ chains'[k][Len(chains[k]) + 1] = Head(listed)
            /\ Len(chains[k]) \in Nat /\ DOMAIN chains[k] = 1..Len(chains[k])
<1>1. chains[k] \in Seq(Ids) /\ Head(listed) \in Ids
  BY HeadAndTail DEF GroupRow, TypeInv
<1>2. CASE k # Norm[rows[Head(listed)].key]
  BY <1>2 DEF GroupRow, SlotKey, TypeInv
<1>3. CASE k = Norm[rows[Head(listed)].key]
  <2>1. chains'[k] = Append(chains[k], Head(listed))
    BY <1>3 DEF GroupRow, SlotKey, TypeInv
  <2>2. Len(chains[k]) \in Nat /\ DOMAIN chains[k] = 1..Len(chains[k])
    BY <1>1
  <2>3. DOMAIN Append(chains[k], Head(listed)) = 1..(Len(chains[k]) + 1)
    BY <1>1
  <2>4. Append(chains[k], Head(listed))[Len(chains[k]) + 1] = Head(listed)
    BY <1>1
  <2>5. \A i \in DOMAIN chains[k] : Append(chains[k], Head(listed))[i] = chains[k][i]
    BY <1>1
  <2>6. 1..(Len(chains[k]) + 1) = DOMAIN chains[k] \cup {Len(chains[k]) + 1}
    BY <2>2
  <2>7. \A i \in DOMAIN chains[k] : i < Len(chains[k]) + 1
    BY <2>2
  <2> QED
    BY <1>3, <2>1, <2>2, <2>3, <2>4, <2>5, <2>6, <2>7
<1> QED
  BY <1>2, <1>3

LEMMA GroupRowStep ==
  ASSUME IInv, GroupRow
  PROVE  ChainsSorted' /\ ListSorted' /\ ChainsBeforeList'
<1>1. TypeInv /\ ChainsSorted /\ ListSorted /\ ChainsBeforeList /\ listed # <<>>
  BY DEF IInv, GroupRow
<1>2. UNCHANGED rows /\ listed' = Tail(listed)
  BY DEF GroupRow
<1>3. /\ \A i, j \in Ids : Before(i, j)' <=> Before(i, j)
      /\ Saved' = Saved
  BY <1>2 DEF Before, Saved
<1>4. Head(listed) \in Saved /\ Head(listed) = listed[1]
  BY <1>1, HeadAndTail DEF ListSorted
<1>5. \A j \in DOMAIN Tail(listed) :
        Tail(listed)[j] \in Saved /\ Before(Head(listed), Tail(listed)[j])
  BY <1>1, <1>4, HeadAndTail DEF ListSorted
<1>6. ListSorted'
  <2>1. \A i, j \in DOMAIN Tail(listed) : i < j => Before(Tail(listed)[i], Tail(listed)[j])
    BY <1>1, HeadAndTail DEF ListSorted
  <2> QED
    BY <1>2, <1>3, <1>5, <2>1 DEF ListSorted, Saved
<1>7. ASSUME NEW k \in Keys
      PROVE  /\ \A i \in DOMAIN chains'[k] : /\ chains'[k][i] \in Saved
                                            /\ Norm[rows[chains'[k][i]].key] = k
             /\ \A i, j \in DOMAIN chains'[k] :
                  i < j => Before(chains'[k][i], chains'[k][j])
             /\ \A i \in DOMAIN chains'[k], j \in DOMAIN Tail(listed) :
                  Before(chains'[k][i], Tail(listed)[j])
  <2>1. /\ \A i \in DOMAIN chains[k] :
             chains[k][i] \in Saved /\ Norm[rows[chains[k][i]].key] = k
        /\ \A i, j \in DOMAIN chains[k] : i < j => Before(chains[k][i], chains[k][j])
        /\ \A i \in DOMAIN chains[k] : Before(chains[k][i], Head(listed))
        /\ \A i \in DOMAIN chains[k], j \in DOMAIN Tail(listed) :
             Before(chains[k][i], Tail(listed)[j])
    BY <1>1, <1>4, HeadAndTail DEF ChainsSorted, ChainsBeforeList
  <2>2. CASE chains'[k] = chains[k]
    BY <2>1, <2>2
  <2>3. CASE chains'[k] # chains[k]
    <3> DEFINE last == Len(chains[k]) + 1
    <3>1. /\ k = Norm[rows[Head(listed)].key]
          /\ DOMAIN chains'[k] = DOMAIN chains[k] \cup {last}
          /\ \A i \in DOMAIN chains[k] : chains'[k][i] = chains[k][i] /\ i < last
          /\ chains'[k][last] = Head(listed)
          /\ last \in Nat /\ DOMAIN chains[k] = 1..(last - 1)
      BY <1>1, <2>3, GroupedChain
    <3> HIDE DEF last
    <3>2. ASSUME NEW i \in DOMAIN chains'[k], NEW j \in DOMAIN chains'[k], i < j
          PROVE  i \in DOMAIN chains[k]
      BY <3>1, <3>2
    <3>3. \A i \in DOMAIN chains'[k] :
             chains'[k][i] \in Saved /\ Norm[rows[chains'[k][i]].key] = k
      BY <1>4, <2>1, <3>1
    <3>4. ASSUME NEW i \in DOMAIN chains'[k], NEW j \in DOMAIN chains'[k], i < j
          PROVE  Before(chains'[k][i], chains'[k][j])
      <4>1. i \in DOMAIN chains[k]
        BY <3>2, <3>4
      <4>2. CASE j \in DOMAIN chains[k]
        BY <2>1, <3>1, <3>4, <4>1, <4>2
      <4>3. CASE j = last
        BY <2>1, <3>1, <4>1, <4>3
      <4> QED
        BY <3>1, <4>2, <4>3
    <3>5. \A i \in DOMAIN chains'[k], j \in DOMAIN Tail(listed) :
             Before(chains'[k][i], Tail(listed)[j])
      BY <1>5, <2>1, <3>1
    <3> QED
      BY <3>3, <3>4, <3>5
  <2> QED
    BY <2>2, <2>3
<1>8. ChainsSorted'
  BY <1>2, <1>3, <1>7 DEF ChainsSorted, Saved
<1>9. ChainsBeforeList'
  BY <1>2, <1>3, <1>5, <1>7 DEF ChainsBeforeList, Saved
<1> QED
  BY <1>6, <1>8, <1>9

LEMMA ChainsStep ==
  ASSUME IInv, [Next]_vars, phase' \in {"grouping", "updating"}
  PROVE  ChainsSorted'
<1>1. ASSUME phase \in {"grouping", "updating"}, UNCHANGED chains
      PROVE  ChainsSorted'
  <2>1. ChainsSorted
    BY <1>1 DEF IInv
  <2> QED
    BY <1>1, <2>1, OrderKept DEF ChainsSorted
<1>2. CASE SelectRows
  BY <1>2 DEF SelectRows, NoChains, ChainsSorted
<1>3. CASE GroupRow
  BY <1>3, GroupRowStep
<1> QED
  BY <1>1, <1>2, <1>3 DEF Next, Migrate, vars, Upgrade, AddColumn, Grouped, UpdateRow,
     RequireObserved, Constrain, Stamp, Downgrade, DropColumn, Dropped, Crash, RepairByHand, OldSave

LEMMA ListStep ==
  ASSUME IInv, [Next]_vars, phase' = "grouping"
  PROVE  ListSorted' /\ ChainsBeforeList' /\ written' = <<>>
<1>1. ASSUME phase = "grouping", UNCHANGED <<chains, listed, written>>
      PROVE  ListSorted' /\ ChainsBeforeList' /\ written' = <<>>
  <2>1. ListSorted /\ ChainsBeforeList /\ ChainsSorted /\ written = <<>>
    BY <1>1 DEF IInv
  <2>2. ListSorted'
    BY <1>1, <2>1, OrderKept DEF ListSorted
  <2>3. ChainsBeforeList'
    BY <1>1, <2>1, OrderKept DEF ChainsBeforeList, ChainsSorted, ListSorted
  <2> QED
    BY <1>1, <2>1, <2>2, <2>3
<1>2. CASE SelectRows
  <2>1. PICK n \in 0..MaxId : \E list \in [1..n -> Saved] :
          /\ \A i, j \in 1..n : i < j => Before(list[i], list[j])
          /\ listed' = list
    BY <1>2 DEF SelectRows
  <2>2. DOMAIN listed' = 1..n /\ \A i \in 1..n : listed'[i] \in Saved
    BY <2>1
  <2>3. \A i, j \in 1..n : i < j => Before(listed'[i], listed'[j])
    BY <2>1
  <2>4. ListSorted'
    BY <2>2, <2>3, OrderKept DEF ListSorted
  <2> QED
    BY <1>2, <2>4 DEF SelectRows, ChainsBeforeList, NoChains
<1>3. CASE GroupRow
  BY <1>3, GroupRowStep DEF GroupRow, IInv
<1> QED
  BY <1>1, <1>2, <1>3 DEF Next, Migrate, vars, Upgrade, AddColumn, Grouped, UpdateRow,
     RequireObserved, Constrain, Stamp, Downgrade, DropColumn, Dropped, Crash, RepairByHand, OldSave

-----------------------------------------------------------------------------
(* Updating.                                                               *)

LEMMA PhaseAfter ==
  /\ Upgrade => phase' = "adding" /\ columns' = 0
  /\ AddColumn => phase' = "adding"
  /\ SelectRows => phase' = "grouping"
  /\ GroupRow => phase = "grouping" /\ phase' = "grouping" /\ UNCHANGED rows
  /\ Grouped => phase = "grouping" /\ UNCHANGED rows
  /\ RequireObserved => phase' \in {"constraining", "idle"}
  /\ Constrain => phase' \in {"stamping", "idle"}
  /\ Stamp => phase' = "idle"
  /\ Downgrade => phase' = "dropping"
  /\ DropColumn => phase' = "dropping"
  /\ Dropped => phase' = "idle"
  /\ Crash => phase' = "idle"
  /\ RepairByHand => phase' = "idle"
<1>1. Upgrade => phase' = "adding" /\ columns' = 0
  BY DEF Upgrade
<1>2. AddColumn => phase' = "adding"
  BY DEF AddColumn
<1>3. SelectRows => phase' = "grouping"
  BY DEF SelectRows
<1>4. /\ GroupRow => phase = "grouping" /\ phase' = "grouping" /\ UNCHANGED rows
      /\ Grouped => phase = "grouping" /\ UNCHANGED rows
  BY DEF GroupRow, Grouped
<1>5. RequireObserved => phase' \in {"constraining", "idle"}
  BY DEF RequireObserved
<1>6. Constrain => phase' \in {"stamping", "idle"}
  BY DEF Constrain
<1>7. /\ Stamp => phase' = "idle"
      /\ Downgrade => phase' = "dropping"
      /\ DropColumn => phase' = "dropping"
  BY DEF Stamp, Downgrade, DropColumn
<1>8. (Dropped => phase' = "idle") /\ (Crash => phase' = "idle")
  BY DEF Dropped, Crash
<1>9. RepairByHand => phase' = "idle"
  BY DEF RepairByHand, Running
<1> QED
  BY <1>1, <1>2, <1>3, <1>4, <1>5, <1>6, <1>7, <1>8, <1>9

LEMMA UpdatedRowKept ==
  ASSUME TypeInv, ChainsSorted, UNCHANGED chains, \A j \in Saved : rows'[j] = rows[j],
         NEW s \in Keys, NEW i \in DOMAIN chains[s]
  PROVE  UpdatedRow(s, i)' = UpdatedRow(s, i)
<1>1. rows'[chains[s][i]] = rows[chains[s][i]]
  BY DEF ChainsSorted
<1>2. CASE i < Len(chains[s])
  <2>1. rows'[chains[s][i + 1]] = rows[chains[s][i + 1]]
    BY <1>2, ChainElement DEF ChainsSorted
  <2> QED
    BY <1>1, <1>2, <2>1 DEF UpdatedRow
<1>3. CASE ~(i < Len(chains[s]))
  BY <1>1, <1>3 DEF UpdatedRow
<1> QED
  BY <1>2, <1>3

LEMMA WritesStep ==
  ASSUME IInv, [Next]_vars, phase' = "updating"
  PROVE  WritesFollowChains'
<1>1. ASSUME phase = "updating", UNCHANGED <<chains, written>>,
             \A j \in Saved : rows'[j] = rows[j]
      PROVE  WritesFollowChains'
  <2>1. TypeInv /\ ChainsSorted /\ WritesFollowChains
    BY <1>1 DEF IInv
  <2>2. ASSUME NEW id \in DOMAIN written
        PROVE  \E s \in Keys, i \in Ids :
                 i \in DOMAIN chains[s] /\ chains[s][i] = id /\ written[id] = UpdatedRow(s, i)'
    <3>1. PICK s \in Keys, i \in Ids :
            i \in DOMAIN chains[s] /\ chains[s][i] = id /\ written[id] = UpdatedRow(s, i)
      BY <2>1 DEF WritesFollowChains
    <3>2. UpdatedRow(s, i)' = UpdatedRow(s, i)
      BY <1>1, <2>1, <3>1, UpdatedRowKept
    <3> QED
      BY <3>1, <3>2
  <2> QED
    BY <1>1, <2>2 DEF WritesFollowChains
<1>2. CASE Grouped
  BY <1>2 DEF Grouped, WritesFollowChains, IInv
<1>3. ASSUME NEW s \in Keys, NEW i \in Ids, UpdateRow(s, i)
      PROVE  WritesFollowChains'
  <2>1. TypeInv /\ ChainsSorted /\ WritesFollowChains
    BY <1>3 DEF IInv, UpdateRow
  <2>2. UNCHANGED chains /\ UNCHANGED rows /\ i \in DOMAIN chains[s]
    BY <1>3 DEF UpdateRow, ToUpdate
  <2>3. \A t \in Keys : \A j \in DOMAIN chains[t] : UpdatedRow(t, j)' = UpdatedRow(t, j)
    BY <2>1, <2>2, UpdatedRowKept
  <2>4. ASSUME NEW id \in DOMAIN written'
        PROVE  \E t \in Keys, j \in Ids :
                 j \in DOMAIN chains[t] /\ chains[t][j] = id /\ written'[id] = UpdatedRow(t, j)
    <3>1. CASE id = chains[s][i]
      BY <1>3, <2>2, <3>1 DEF UpdateRow
    <3>2. CASE id # chains[s][i]
      <4>1. id \in DOMAIN written /\ written'[id] = written[id]
        BY <1>3, <3>2 DEF UpdateRow
      <4> QED
        BY <2>1, <4>1 DEF WritesFollowChains
    <3> QED
      BY <3>1, <3>2
  <2> QED
    BY <2>2, <2>3, <2>4 DEF WritesFollowChains
<1>4. CASE OldSaves
  <2>1. PICK id \in Ids, key \in Keys, at \in Times, status \in {"candidate", "expired"} :
          OldSave(id, key, at, status)
    BY <1>4 DEF OldSaves
  <2>2. \A j \in Saved : rows'[j] = rows[j]
    BY <2>1, OldSaveSaves DEF Saved, IInv
  <2> QED
    BY <1>1, <2>1, <2>2 DEF OldSave
<1>5. CASE UNCHANGED vars
  BY <1>1, <1>5 DEF vars
<1> QED
  BY <1>2, <1>3, <1>4, <1>5, PhaseAfter DEF Next, Migrate, OldSaves

LEMMA UnfilledStep ==
  ASSUME IInv, [Next]_vars, phase' \in {"adding", "grouping", "updating"}, columns' > 0
  PROVE  Unfilled'
<1>1. ASSUME phase \in {"adding", "grouping", "updating"}, columns > 0, UNCHANGED rows
      PROVE  Unfilled'
  BY <1>1 DEF IInv, Unfilled
<1>2. CASE AddColumn
  BY <1>2 DEF AddColumn, Unfilled, Plain, AsRow
<1>3. CASE OldSaves
  <2>1. PICK id \in Ids, key \in Keys, at \in Times, status \in {"candidate", "expired"} :
          OldSave(id, key, at, status)
    BY <1>3 DEF OldSaves
  <2>2. Unfilled
    BY <2>1 DEF OldSave, IInv
  <2> QED
    BY <2>1, <2>2, OldSaveSaves DEF Unfilled, IInv
<1>4. CASE Upgrade
  BY <1>4, PhaseAfter
<1>5. columns \in 0..4
  BY DEF IInv, TypeInv
<1>6. CASE SelectRows
  BY <1>1, <1>6 DEF SelectRows
<1>7. CASE GroupRow \/ Grouped
  BY <1>1, <1>5, <1>7, PhaseAfter DEF IInv, Control
<1>8. ASSUME NEW s \in Keys, NEW i \in Ids, UpdateRow(s, i)
      PROVE  Unfilled'
  BY <1>1, <1>8 DEF UpdateRow, IInv, Control
<1>9. CASE UNCHANGED vars
  BY <1>1, <1>9 DEF vars
<1> QED
  BY <1>2, <1>3, <1>4, <1>6, <1>7, <1>8, <1>9, PhaseAfter DEF Next, Migrate, OldSaves

-----------------------------------------------------------------------------
(* A table no row of which was missed.                                     *)

\* Row id is the i-th of slot s, and was written so.
Placed(id, s, i) ==
  i \in DOMAIN chains[s] /\ chains[s][i] = id /\ rows'[id] = UpdatedRow(s, i)

LEMMA ChainPositions ==
  ASSUME TypeInv, ChainsSorted, NEW s \in Keys, NEW i \in DOMAIN chains[s],
         NEW j \in DOMAIN chains[s]
  PROVE  /\ i \in Int /\ j \in Int
         /\ Before(chains[s][i], chains[s][j]) <=> i < j
         /\ chains[s][i] = chains[s][j] => i = j
<1>1. i \in Int /\ j \in Int /\ chains[s][i] \in Ids /\ chains[s][j] \in Ids
  BY ChainElement
<1>2. /\ i < j => Before(chains[s][i], chains[s][j])
      /\ j < i => Before(chains[s][j], chains[s][i])
  BY DEF ChainsSorted
<1>3. /\ ~Before(chains[s][i], chains[s][i]) /\ ~Before(chains[s][j], chains[s][j])
      /\ Before(chains[s][i], chains[s][j]) /\ Before(chains[s][j], chains[s][i])
           => Before(chains[s][i], chains[s][i])
  BY <1>1, BeforeOrders
<1>4. i < j \/ j < i \/ i = j
  BY <1>1
<1> QED
  BY <1>1, <1>2, <1>3, <1>4

LEMMA EveryRowPlaced ==
  ASSUME IInv, RequireObserved, strict'
  PROVE  /\ Saved' = Saved
         /\ \A id \in Saved : \E s \in Keys, i \in Ids : Placed(id, s, i)
<1>1. /\ TypeInv /\ WritesFollowChains /\ Unfilled
      /\ rows' = [id \in Ids |-> IF id \in DOMAIN written THEN written[id] ELSE rows[id]]
      /\ \A id \in Ids : rows'[id].created # 0 => rows'[id].lastObserved # 0
  <2>1. phase = "updating" /\ columns > 0
    BY DEF RequireObserved, IInv, Control
  <2> QED
    BY <2>1 DEF RequireObserved, IInv
<1>2. Saved' = Saved
  BY UpdatesKeepRows DEF Saved, RowKept, Same
<1>3. ASSUME NEW id \in Saved
      PROVE  \E s \in Keys, i \in Ids : Placed(id, s, i)
  <2>1. id \in Ids /\ rows'[id].created # 0
    BY <1>2 DEF Saved
  <2>2. id \in DOMAIN written
    BY <1>1, <2>1 DEF Unfilled
  <2>3. rows'[id] = written[id]
    BY <1>1, <2>1, <2>2
  <2>4. PICK s \in Keys, i \in Ids :
          i \in DOMAIN chains[s] /\ chains[s][i] = id /\ written[id] = UpdatedRow(s, i)
    BY <1>1, <2>2 DEF WritesFollowChains
  <2>5. Placed(id, s, i)
    BY <2>3, <2>4 DEF Placed
  <2> QED
    BY <2>5
<1> QED
  BY <1>2, <1>3

LEMMA EveryElementPlaced ==
  ASSUME IInv, RequireObserved, strict', NEW s \in Keys, NEW i \in DOMAIN chains[s]
  PROVE  /\ chains[s][i] \in Saved /\ i \in Ids
         /\ Placed(chains[s][i], s, i)
         /\ rows'[chains[s][i]].key = s /\ rows'[chains[s][i]].version = i
<1>1. TypeInv /\ ChainsSorted
  BY DEF IInv, RequireObserved
<1>2. chains[s][i] \in Saved /\ Norm[rows[chains[s][i]].key] = s
  BY <1>1 DEF ChainsSorted
<1>3. PICK t \in Keys, j \in Ids : Placed(chains[s][i], t, j)
  BY <1>2, EveryRowPlaced
<1>4. t = s
  BY <1>1, <1>2, <1>3 DEF ChainsSorted, Placed
<1>5. j = i
  BY <1>1, <1>3, <1>4, ChainPositions DEF Placed
<1> QED
  BY <1>1, <1>2, <1>3, <1>4, <1>5, UpdatedRowTyped DEF Placed

LEMMA MigratedNumbered ==
  ASSUME IInv, RequireObserved, strict'
  PROVE  Numbered'
<1>1. TypeInv /\ ChainsSorted
  BY DEF IInv, RequireObserved
<1>2. Saved' = Saved
  BY EveryRowPlaced
<1>3. ASSUME NEW id \in Saved
      PROVE  /\ rows'[id].key \in SlotKeys /\ Norm[rows'[id].key] = rows'[id].key
             /\ rows'[id].lastObserved = rows'[id].created
             /\ rows'[id].version \in Ids
             /\ \A v \in 1..rows'[id].version :
                  \E j \in Saved : rows'[j].key = rows'[id].key /\ rows'[j].version = v
  <2>1. PICK s \in Keys, i \in Ids : Placed(id, s, i)
    BY <1>3, EveryRowPlaced
  <2>2. /\ rows'[id].key = s /\ rows'[id].version = i
        /\ rows'[id].lastObserved = rows'[id].created
    BY <1>1, <2>1, UpdatedRowTyped DEF Placed
  <2>3. s = Norm[rows[id].key] /\ rows[id].key \in Keys
    BY <1>1, <2>1, CreatedTyped, RowFields DEF ChainsSorted, Placed, Saved
  <2>4. s \in SlotKeys /\ Norm[s] = s
    BY <2>3, KeyAssumption DEF SlotKeys
  <2>5. ASSUME NEW v \in 1..i
        PROVE  \E j \in Saved : rows'[j].key = s /\ rows'[j].version = v
    <3>1. v \in DOMAIN chains[s]
      BY <1>1, <2>1, ChainElement DEF Placed, Ids
    <3> QED
      BY <3>1, EveryElementPlaced
  <2> QED
    BY <2>2, <2>4, <2>5
<1>4. ASSUME NEW a \in Saved, NEW b \in Saved, rows'[a].key = rows'[b].key
      PROVE  Before(a, b)' <=> rows'[a].version < rows'[b].version
  <2>1. PICK s \in Keys, i \in Ids : Placed(a, s, i)
    BY EveryRowPlaced
  <2>2. PICK t \in Keys, j \in Ids : Placed(b, t, j)
    BY EveryRowPlaced
  <2>3. /\ rows'[a].key = s /\ rows'[a].version = i
        /\ rows'[b].key = t /\ rows'[b].version = j
    BY <1>1, <2>1, <2>2, UpdatedRowTyped DEF Placed
  <2>4. Before(a, b) <=> i < j
    BY <1>1, <1>4, <2>1, <2>2, <2>3, ChainPositions DEF Placed
  <2>5. Before(a, b)' <=> Before(a, b)
    BY OrderKept DEF Next, Migrate
  <2> QED
    BY <2>3, <2>4, <2>5
<1> QED
  BY <1>2, <1>3, <1>4 DEF Numbered, SlotKeys

LEMMA MigratedLinked ==
  ASSUME IInv, RequireObserved, strict'
  PROVE  Linked'
<1>1. TypeInv /\ ChainsSorted /\ SupersededHasYounger /\ Unfilled
  <2>1. phase = "updating" /\ columns > 0
    BY DEF RequireObserved, IInv, Control
  <2> QED
    BY <2>1 DEF IInv
<1>2. Saved' = Saved
  BY EveryRowPlaced
<1>3. ASSUME NEW id \in Saved
      PROVE  \/ rows'[id].status = "superseded" /\ \E j \in Ids : LinkedTo(id, j)'
             \/ /\ rows'[id].status # "superseded" /\ rows'[id].supersededBy = 0
                /\ \A j \in Saved : rows'[j].key = rows'[id].key
                                      => rows'[j].version <= rows'[id].version
  <2>1. PICK s \in Keys, i \in Ids : Placed(id, s, i)
    BY EveryRowPlaced
  <2>2. i \in DOMAIN chains[s] /\ rows'[id] = UpdatedRow(s, i) /\ chains[s][i] = id
    BY <2>1 DEF Placed
  <2>3. rows'[id].key = s /\ rows'[id].version = i
    BY <1>1, <2>2, UpdatedRowTyped
  <2>4. CASE i < Len(chains[s])
    <3>0. i + 1 \in DOMAIN chains[s] /\ chains[s][i + 1] \in Ids
      BY <1>1, <2>2, <2>4, ChainElement
    <3>1. PICK j \in Ids : j = chains[s][i + 1]
      BY <3>0
    <3>2. j \in Saved /\ rows'[j].key = s /\ rows'[j].version = i + 1
      BY <3>0, <3>1, EveryElementPlaced
    <3>3. /\ rows'[id].status = "superseded" /\ rows'[id].supersededBy = j
          /\ rows'[id].supersededAt = rows[j].created
      BY <1>1, <2>2, <2>4, <3>1, UpdatedRowTyped
    <3>4. rows'[j].created = rows[j].created
      BY <3>1, UpdatesKeepRows DEF RowKept, Same
    <3>5. LinkedTo(id, j)'
      BY <1>2, <2>3, <3>2, <3>3, <3>4 DEF LinkedTo
    <3> QED
      BY <3>1, <3>3, <3>5
  <2>5. CASE ~(i < Len(chains[s]))
    <3>1. rows'[id].status = rows[id].status /\ rows'[id].supersededBy = 0
      <4>1. rows[id].supersededBy = 0
        BY <1>1 DEF Unfilled, Saved
      <4> QED
        BY <1>1, <2>2, <2>5, <4>1, UpdatedRowTyped
    <3>2. ASSUME NEW j \in Saved, Norm[rows[j].key] = s
          PROVE  ~Before(id, j)
      <4>1. PICK t \in Keys, k \in Ids : Placed(j, t, k)
        BY EveryRowPlaced
      <4>2. k \in DOMAIN chains[s] /\ chains[s][k] = j
        BY <1>1, <3>2, <4>1 DEF ChainsSorted, Placed
      <4>3. ~(i < k)
        BY <1>1, <2>2, <2>5, <4>2, ChainElement
      <4> QED
        BY <1>1, <2>2, <4>2, <4>3, ChainPositions
    <3>3. rows[id].status # "superseded"
      <4>1. Norm[rows[id].key] = s
        BY <1>1, <2>2 DEF ChainsSorted
      <4> QED
        BY <1>1, <3>2, <4>1 DEF SupersededHasYounger
    <3>4. ASSUME NEW j \in Saved, rows'[j].key = s
          PROVE  rows'[j].version <= i
      <4>1. PICK t \in Keys, k \in Ids : Placed(j, t, k)
        BY EveryRowPlaced
      <4>2. t = s /\ rows'[j].version = k
        BY <1>1, <3>4, <4>1, UpdatedRowTyped DEF Placed
      <4>3. k \in 1..Len(chains[s]) /\ i \in 1..Len(chains[s]) /\ Len(chains[s]) \in Nat
        BY <1>1, <2>2, <4>1, <4>2, ChainElement DEF Placed
      <4> QED
        BY <2>5, <4>2, <4>3
    <3> QED
      BY <2>3, <3>1, <3>3, <3>4
  <2> QED
    BY <2>4, <2>5
<1> QED
  BY <1>2, <1>3, MigratedNumbered DEF Linked

LEMMA LinkedStep ==
  ASSUME IInv, [Next]_vars, strict'
  PROVE  Linked'
<1>1. ASSUME strict, UNCHANGED rows
      PROVE  Linked'
  BY <1>1 DEF IInv, Linked, Numbered, LinkedTo, Saved, Before
<1>2. CASE RequireObserved
  BY <1>2, MigratedLinked
<1>3. CASE AddColumn \/ OldSaves
  BY <1>3 DEF AddColumn, OldSaves, OldSave, IInv, Control
<1>4. CASE Upgrade \/ SelectRows \/ GroupRow \/ Grouped
  BY <1>1, <1>4 DEF Upgrade, SelectRows, GroupRow, Grouped
<1>5. CASE \E s \in Keys, i \in Ids : UpdateRow(s, i)
  BY <1>1, <1>5 DEF UpdateRow
<1>6. CASE Constrain \/ Stamp \/ Downgrade \/ Dropped \/ Crash
  BY <1>1, <1>6 DEF Constrain, Stamp, Downgrade, Dropped, Crash
<1>7. CASE DropColumn
  <2>1. strict
    BY <1>7, Zenon DEF DropColumn
  <2> QED
    BY <1>1, <1>7, <2>1 DEF DropColumn
<1>8. CASE RepairByHand
  <2>1. ~strict'
    BY <1>8, Zenon DEF RepairByHand
  <2> QED
    BY <2>1
<1>9. CASE UNCHANGED vars
  BY <1>1, <1>9 DEF vars
<1> QED
  BY <1>2, <1>3, <1>4, <1>5, <1>6, <1>7, <1>8, <1>9 DEF Next, Migrate, OldSaves

LEMMA InitHolds == Init => IInv
<1> SUFFICES ASSUME Init PROVE IInv
  OBVIOUS
<1>1. \E k \in Keys : NoRow = Plain(k, "candidate", 0)
  BY KeyAssumption DEF NoRow
<1>2. NoRow \in Row /\ NoRow.created = 0
  BY <1>1, PlainTyped, BoundAssumption DEF Plain, AsRow
<1>3. TypeInv
  <2>1. rows \in [Ids -> Row] /\ listed \in Seq(Ids) /\ chains \in [Keys -> Seq(Ids)]
    BY <1>2, EmptyTyped DEF Init
  <2>2. DOMAIN written \subseteq Ids /\ columns \in 0..4
    BY DEF Init
  <2>3. revision \in {"0006", "0007"} /\ phase \in Phases
    BY DEF Init, Phases
  <2>4. strict \in BOOLEAN
    BY Zenon DEF Init
  <2> QED
    BY <2>1, <2>2, <2>3, <2>4, Zenon DEF TypeInv
<1>4. Saved = {}
  BY <1>2 DEF Init, Saved
<1>5. Control
  BY DEF Init, Control
<1> QED
  BY <1>3, <1>4, <1>5 DEF Init, IInv, SupersededHasYounger

\* The inductive invariant: what a run has read and grouped is sorted by age and
\* true to the rows, and a table that missed no row is linked.
THEOREM BackfillInvariant == Spec => []IInv
<1>1. Init => IInv
  BY InitHolds
<1>2. IInv /\ [Next]_vars => IInv'
  BY TypeStep, ControlStep, SupersededStep, ChainsStep, ListStep, WritesStep, UnfilledStep,
     LinkedStep DEF IInv
<1> QED
  BY <1>1, <1>2, PTL DEF Spec

-----------------------------------------------------------------------------
(* The properties.                                                         *)

\* HistoryIsKept holds for every number of rows, runs, crashes and repairs: no row
\* is lost or moved, and one is closed only for a younger one of its slot.
THEOREM HistoryKept == Spec => HistoryIsKept
<1>1. IInv /\ [Next]_vars =>
        [\A id \in Saved :
           /\ rows'[id].created = rows[id].created
           /\ Norm[rows'[id].key] = Norm[rows[id].key]
           /\ \/ rows'[id].status = rows[id].status
              \/ /\ rows'[id].status = "superseded"
                 /\ \E j \in Saved :
                      Before(id, j) /\ Norm[rows[j].key] = Norm[rows[id].key]]_vars
  BY StepsKeepRows DEF RowKept, Same
<1> QED
  BY <1>1, BackfillInvariant, PTL DEF Spec, HistoryIsKept

\* A chain holds no row twice, so none is longer than the table.
LEMMA ChainFits ==
  ASSUME TypeInv, ChainsSorted, NEW k \in Keys
  PROVE  DOMAIN chains[k] \subseteq Ids
<1>1. chains[k] \in Seq(Ids) /\ Len(chains[k]) \in Nat /\ DOMAIN chains[k] = 1..Len(chains[k])
  BY DEF TypeInv
<1>2. chains[k] \in [1..Len(chains[k]) -> Ids]
  BY <1>1
<1>3. \A i, j \in 1..Len(chains[k]) : chains[k][i] = chains[k][j] => i = j
  BY <1>1, ChainPositions
<1>4. chains[k] \in Injection(1..Len(chains[k]), Ids)
  BY <1>2, <1>3, Fun_IsInj
<1>5. IsFiniteSet(Ids) /\ Cardinality(Ids) = MaxId
  BY BoundAssumption, FS_Interval DEF Ids
<1>6. Cardinality(1..Len(chains[k])) <= Cardinality(Ids)
  BY <1>4, <1>5, FS_Injection
<1>7. Cardinality(1..Len(chains[k])) = Len(chains[k])
  BY <1>1, FS_Interval
<1> QED
  BY <1>1, <1>5, <1>6, <1>7, BoundAssumption DEF Ids

LEMMA OnlyUnseenRowsRefused ==
  ASSUME IInv, RequireObserved, phase' = "idle"
  PROVE  \E id \in Saved : \A k \in Keys : \A i \in DOMAIN chains[k] : chains[k][i] # id
<1>1. TypeInv /\ ChainsSorted /\ WritesFollowChains
  BY DEF IInv, RequireObserved
<1>2. PICK id \in Ids : rows'[id].created # 0 /\ rows'[id].lastObserved = 0
  BY DEF RequireObserved
<1>3. id \in Saved
  BY <1>2, UpdatesKeepRows DEF RowKept, Same, Saved
<1>4. ASSUME NEW k \in Keys, NEW i \in DOMAIN chains[k], chains[k][i] = id
      PROVE  FALSE
  <2>1. <<k, i>> \in ToUpdate
    BY <1>1, <1>4, ChainFits DEF ToUpdate
  <2>2. id \in DOMAIN written
    BY <1>4, <2>1 DEF RequireObserved, AllUpdated
  <2>3. PICK s \in Keys, j \in Ids :
          j \in DOMAIN chains[s] /\ chains[s][j] = id /\ written[id] = UpdatedRow(s, j)
    BY <1>1, <2>2 DEF WritesFollowChains
  <2>4. rows'[id] = written[id]
    BY <2>2 DEF RequireObserved
  <2>5. rows'[id].lastObserved = rows'[id].created
    BY <1>1, <2>3, <2>4, UpdatedRowTyped
  <2> QED
    BY <1>2, <2>5
<1> QED
  BY <1>3, <1>4

LEMMA LinkedIsUnique ==
  ASSUME TypeInv, Linked
  PROVE  /\ \A i, j \in Saved : rows[i].key = rows[j].key /\ rows[i].version = rows[j].version
                                  => i = j
         /\ SuccessorsExist /\ SlotVersionsUnique
<1>1. ASSUME NEW i \in Saved, NEW j \in Saved,
             rows[i].key = rows[j].key, rows[i].version = rows[j].version
      PROVE  i = j
  <2>1. i \in Ids /\ j \in Ids /\ rows[i].version \in Nat
    BY CreatedTyped, RowFields DEF Saved
  <2>2. ~Before(i, j) /\ ~Before(j, i)
    BY <1>1, <2>1 DEF Linked, Numbered
  <2> QED
    BY <2>1, <2>2, BeforeOrders
<1>2. SuccessorsExist
  BY DEF SuccessorsExist, Linked, LinkedTo
<1>3. SlotVersionsUnique
  BY <1>1 DEF SlotVersionsUnique
<1> QED
  BY <1>1, <1>2, <1>3

\* OnlyUnseenRowsStopIt holds in general: NOT NULL refuses only rows saved after
\* the run had read the table, the foreign key and UNIQUE refuse nothing.
THEOREM ConstraintsHold == Spec => OnlyUnseenRowsStopIt
<1>1. ASSUME IInv, Constrain
      PROVE  phase' = "stamping"
  <2>1. TypeInv /\ Linked
    BY <1>1 DEF Constrain, IInv, Control
  <2> QED
    BY <1>1, <2>1, LinkedIsUnique DEF Constrain
<1>2. IInv /\ [Next]_vars =>
        [/\ RequireObserved /\ phase' = "idle" =>
              \E id \in Saved : \A k \in Keys : \A i \in DOMAIN chains[k] : chains[k][i] # id
         /\ Constrain => phase' = "stamping"]_vars
  BY <1>1, OnlyUnseenRowsRefused
<1> QED
  BY <1>2, BackfillInvariant, PTL DEF Spec, OnlyUnseenRowsStopIt

\* The version as the life cycle reads it.
LEMMA TableRows ==
  ASSUME TypeInv, Linked, NEW s \in SlotKeys, NEW v \in 1..(MaxTime + MaxId)
  PROVE  \/ At(s, v) = {} /\ Table[s][v] = NoVersion
         \/ \E id \in Saved : /\ rows[id].key = s /\ rows[id].version = v
                              /\ Table[s][v] = AsVersion(rows[id])
<1>1. CASE At(s, v) = {}
  BY <1>1 DEF Table
<1>2. CASE At(s, v) # {}
  <2>1. PICK id \in At(s, v) : id = CHOOSE i \in At(s, v) : TRUE
    BY <1>2
  <2>2. Table[s][v] = AsVersion(rows[id])
    BY <1>2, <2>1 DEF Table
  <2> QED
    BY <2>1, <2>2 DEF At
<1> QED
  BY <1>1, <1>2

LEMMA RowsInTable ==
  ASSUME TypeInv, Linked, NEW id \in Saved
  PROVE  /\ rows[id].version \in 1..(MaxTime + MaxId)
         /\ rows[id].key \in SlotKeys
         /\ Table[rows[id].key][rows[id].version] = AsVersion(rows[id])
<1>1. rows[id].version \in Ids /\ rows[id].key \in SlotKeys
  BY DEF Linked, Numbered
<1>2. rows[id].version \in 1..(MaxTime + MaxId)
  BY <1>1, BoundAssumption DEF Ids
<1>3. id \in At(rows[id].key, rows[id].version)
  BY DEF At
<1>4. PICK j \in Saved : /\ rows[j].key = rows[id].key /\ rows[j].version = rows[id].version
                         /\ Table[rows[id].key][rows[id].version] = AsVersion(rows[j])
  BY <1>1, <1>2, <1>3, TableRows
<1>5. j = id
  BY <1>4, LinkedIsUnique
<1> QED
  BY <1>1, <1>2, <1>4, <1>5

LEMMA VersionFields ==
  ASSUME NEW row
  PROVE  /\ AsVersion(row).status = row.status
         /\ AsVersion(row).lastObserved = row.lastObserved
         /\ AsVersion(row).supersededAt = row.supersededAt
         /\ AsVersion(row).supersededBy =
              IF row.supersededBy = 0 THEN 0 ELSE rows[row.supersededBy].version
         /\ NoVersion.status = "none" /\ NoVersion.supersededBy = 0
BY DEF AsVersion, NoVersion

\* A saved row and the version the life cycle sees are the same, both ways.
LEMMA ExistingRows ==
  ASSUME TypeInv, Linked, NEW s \in SlotKeys, NEW v \in 1..(MaxTime + MaxId),
         Table[s][v].status # "none"
  PROVE  \E id \in Saved : /\ rows[id].key = s /\ rows[id].version = v
                           /\ Table[s][v] = AsVersion(rows[id])
BY TableRows, VersionFields

LEMMA SavedExists ==
  ASSUME TypeInv, Linked, NEW id \in Saved
  PROVE  Table[rows[id].key][rows[id].version].status # "none"
<1>1. rows[id].status # "none"
  BY CreatedTyped, RowFields DEF Saved
<1> QED
  BY <1>1, RowsInTable, VersionFields

LEMMA LinkedIsContiguous ==
  ASSUME TypeInv, Linked
  PROVE  Life!Contiguous
<1> SUFFICES ASSUME NEW s \in SlotKeys, NEW v \in 1..(MaxTime + MaxId),
                    NEW w \in 1..(MaxTime + MaxId), Table[s][v].status # "none", w < v
             PROVE  Table[s][w].status # "none"
  BY DEF Life!Contiguous, Life!Versions, Life!Exists
<1>1. PICK id \in Saved : rows[id].key = s /\ rows[id].version = v
  BY ExistingRows
<1>2. w \in 1..v
  BY BoundAssumption
<1>3. PICK j \in Saved : rows[j].key = s /\ rows[j].version = w
  BY <1>1, <1>2 DEF Linked, Numbered
<1> QED
  BY <1>3, SavedExists

LEMMA LinkedHasOneCandidate ==
  ASSUME TypeInv, Linked
  PROVE  Life!OnlyLatestCandidate
<1> SUFFICES ASSUME NEW s \in SlotKeys, NEW v \in 1..(MaxTime + MaxId),
                    NEW w \in 1..(MaxTime + MaxId), Table[s][v].status = "candidate",
                    w > v, Table[s][w].status # "none"
             PROVE  FALSE
  BY DEF Life!OnlyLatestCandidate, Life!Versions, Life!Exists
<1>1. PICK id \in Saved : /\ rows[id].key = s /\ rows[id].version = v
                          /\ Table[s][v] = AsVersion(rows[id])
  BY ExistingRows
<1>2. rows[id].status # "superseded"
  BY <1>1, VersionFields
<1>3. PICK j \in Saved : rows[j].key = s /\ rows[j].version = w
  BY ExistingRows
<1>4. w <= v
  BY <1>1, <1>2, <1>3 DEF Linked
<1> QED
  BY <1>4

LEMMA LinkedIsChained ==
  ASSUME TypeInv, Linked
  PROVE  Life!ChainLinked
<1> DEFINE Span == 1..(MaxTime + MaxId)
<1> SUFFICES ASSUME NEW s \in SlotKeys, NEW v \in Span
             PROVE  /\ Table[s][v].status = "superseded" =>
                         /\ v + 1 \in Span /\ Table[s][v + 1].status # "none"
                         /\ Table[s][v].supersededBy = v + 1
                         /\ Table[s][v].supersededAt <= Table[s][v + 1].lastObserved
                    /\ Table[s][v].status # "superseded" => Table[s][v].supersededBy = 0
                    /\ Table[s][v].status = "expired" /\ v + 1 \in Span
                         /\ Table[s][v + 1].status # "none" =>
                         Table[s][v].lastObserved < Table[s][v + 1].lastObserved
  BY DEF Life!ChainLinked, Life!Versions, Life!Exists
<1>1. CASE At(s, v) = {}
  <2>1. Table[s][v] = NoVersion
    BY <1>1 DEF Table
  <2> QED
    BY <2>1, VersionFields
<1>2. ASSUME NEW id \in Saved, rows[id].key = s, rows[id].version = v
      PROVE  /\ rows[id].status = "superseded" =>
                  /\ v + 1 \in Span /\ Table[s][v + 1].status # "none"
                  /\ AsVersion(rows[id]).supersededBy = v + 1
                  /\ rows[id].supersededAt <= Table[s][v + 1].lastObserved
             /\ rows[id].status # "superseded" =>
                  /\ AsVersion(rows[id]).supersededBy = 0
                  /\ v + 1 \in Span => Table[s][v + 1].status = "none"
  <2>1. CASE rows[id].status = "superseded"
    <3>1. PICK j \in Ids : LinkedTo(id, j)
      BY <2>1 DEF Linked
    <3>2. /\ j \in Saved /\ rows[j].key = s /\ rows[j].version = v + 1
          /\ rows[id].supersededBy = j /\ rows[id].supersededAt = rows[j].created
      BY <1>2, <3>1 DEF LinkedTo
    <3>3. v + 1 \in Span /\ Table[s][v + 1] = AsVersion(rows[j])
      BY <3>2, RowsInTable
    <3>4. rows[j].lastObserved = rows[j].created /\ rows[j].created \in Int
      BY <3>2, CreatedTyped DEF Linked, Numbered, Saved
    <3>5. rows[id].supersededAt <= Table[s][v + 1].lastObserved
      BY <3>2, <3>3, <3>4, VersionFields
    <3>6. j # 0
      BY DEF Ids
    <3>7. AsVersion(rows[id]).supersededBy = v + 1
      BY <3>2, <3>6, VersionFields
    <3> QED
      BY <2>1, <3>2, <3>3, <3>5, <3>7, SavedExists
  <2>2. CASE rows[id].status # "superseded"
    <3>1. /\ rows[id].supersededBy = 0
          /\ \A j \in Saved : rows[j].key = s => rows[j].version <= v
      BY <1>2, <2>2 DEF Linked
    <3>2. ASSUME v + 1 \in Span, Table[s][v + 1].status # "none"
          PROVE  FALSE
      <4>1. PICK j \in Saved : rows[j].key = s /\ rows[j].version = v + 1
        BY <3>2, ExistingRows
      <4>2. v + 1 <= v
        BY <3>1, <4>1
      <4> QED
        BY <4>2
    <3> QED
      BY <2>2, <3>1, <3>2, VersionFields
  <2> QED
    BY <2>1, <2>2
<1>3. CASE At(s, v) # {}
  <2>1. PICK id \in Saved : /\ rows[id].key = s /\ rows[id].version = v
                            /\ Table[s][v] = AsVersion(rows[id])
    BY <1>3, TableRows
  <2> QED
    BY <1>2, <2>1, VersionFields
<1> QED
  BY <1>1, <1>3

LEMMA LinkedGivesALifecycle ==
  ASSUME IInv, Migrated
  PROVE  /\ Life!LifecycleInv
         /\ SlotVersionsUnique
         /\ \A id \in Saved : rows[id].key \in SlotKeys /\ rows[id].lastObserved = rows[id].created
         /\ \A i, j \in Saved :
              rows[i].key = rows[j].key /\ rows[i].version < rows[j].version =>
                \/ rows[i].created < rows[j].created
                \/ rows[i].created = rows[j].created /\ i < j
<1>1. TypeInv /\ Linked
  BY DEF IInv, Control, Migrated
<1>2. Life!LifecycleInv
  BY <1>1, LinkedIsContiguous, LinkedHasOneCandidate, LinkedIsChained DEF Life!LifecycleInv
<1>3. \A id \in Saved : rows[id].key \in SlotKeys /\ rows[id].lastObserved = rows[id].created
  BY <1>1 DEF Linked, Numbered
<1>4. \A i, j \in Saved :
         rows[i].key = rows[j].key /\ rows[i].version < rows[j].version => Before(i, j)
  BY <1>1 DEF Linked, Numbered
<1> QED
  BY <1>1, <1>2, <1>3, <1>4, LinkedIsUnique DEF Before

\* BackfillGivesALifecycle holds for any number of rows however they are spelled
\* and dated, and whatever was saved, lost or repaired before: the life cycle's
\* invariant, which its passes keep, holds of the table it starts from.
THEOREM MigrationGivesALifecycle == Spec => []BackfillGivesALifecycle
<1>1. IInv => BackfillGivesALifecycle
  BY LinkedGivesALifecycle DEF BackfillGivesALifecycle
<1> QED
  BY <1>1, BackfillInvariant, PTL

=============================================================================
