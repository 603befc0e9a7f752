------------------------------ MODULE Backfill -------------------------------
(***************************************************************************)
(* Migration 0007_opportunity_lifecycle: from a table of opportunities     *)
(* that was only ever appended to, to the versioned slots the life cycle   *)
(* starts from, while the program of before may still be saving.  MySQL    *)
(* commits at every DDL statement, so only the UPDATEs are rolled back     *)
(* when a run of the migration is cut short; its columns stay.             *)
(***************************************************************************)
EXTENDS Integers, Sequences

CONSTANTS
  MaxId,      \* bound of the ids, which count up
  MaxTime,    \* created_at instants are 1..MaxTime
  Keys,       \* (event, market, selection, bookmaker) as saved
  Norm        \* the same with _norm applied: the slot of a key

ASSUME KeyAssumption == /\ Keys # {}
                        /\ Norm \in [Keys -> Keys]
                        /\ \A k \in Keys : Norm[Norm[k]] = Norm[k]

ASSUME BoundAssumption == MaxId \in Nat /\ MaxTime \in Nat

VARIABLES
  rows,       \* the opportunities table as committed: id -> row
  revision,   \* alembic_version
  columns,    \* how many of the four new columns the table has
  strict,     \* a new column is NOT NULL without default: last_observed_at or version
  phase,      \* of the run of alembic, "idle" when there is none
  listed,     \* rows of _backfill, by created_at and id
  chains,     \* slots of _backfill: slot -> ids
  written     \* the UPDATEs of the open transaction: id -> row

vars == <<rows, revision, columns, strict, phase, listed, chains, written>>

Ids == 1..MaxId
Times == 1..MaxTime
SlotKeys == {Norm[k] : k \in Keys}

\* A row under either schema; 0 stands for NULL, created = 0 for no row.
Row == [key: Keys, status: {"candidate", "expired", "superseded"}, created: 0..MaxTime,
        version: Nat, lastObserved: 0..MaxTime, supersededAt: 0..MaxTime,
        supersededBy: 0..MaxId]

AsRow(key, status, created, version, lastObserved, supersededAt, supersededBy) ==
  [key |-> key, status |-> status, created |-> created, version |-> version,
   lastObserved |-> lastObserved, supersededAt |-> supersededAt, supersededBy |-> supersededBy]

\* A row that does not know the new columns, with what ADD COLUMN gives it.
Plain(key, status, created) == AsRow(key, status, created, 1, 0, 0, 0)

NoRow == Plain(CHOOSE k \in Keys : TRUE, "candidate", 0)

Saved == {id \in Ids : rows[id].created # 0}

NoChains == [s \in Keys |-> <<>>]

-----------------------------------------------------------------------------
(* upgrade.                                                                *)

Running == phase # "idle"

Upgrade ==
  /\ ~Running /\ revision = "0006"
  /\ columns = 0      \* else the first ADD COLUMN fails, and nothing happens
  /\ phase' = "adding"
  /\ UNCHANGED <<rows, revision, columns, strict, listed, chains, written>>

AddColumn ==
  /\ phase = "adding" /\ columns < 4
  /\ columns' = columns + 1
  /\ rows' = [id \in Ids |-> Plain(rows[id].key, rows[id].status, rows[id].created)]
  /\ UNCHANGED <<revision, strict, phase, listed, chains, written>>

\* Mutant of Before: ORDER BY id alone.
MutById(i, j) == i < j

\* ORDER BY created_at, id.
Before(i, j) == \/ rows[i].created < rows[j].created
                \/ rows[i].created = rows[j].created /\ i < j

SelectRows ==
  /\ phase = "adding" /\ columns = 4
  /\ \E n \in 0..MaxId : \E list \in [1..n -> Saved] :
       /\ Saved = {list[i] : i \in 1..n}
       /\ \A i, j \in 1..n : i < j => Before(list[i], list[j])
       /\ listed' = list
  /\ chains' = NoChains
  /\ written' = <<>>
  /\ phase' = "grouping"
  /\ UNCHANGED <<rows, revision, columns, strict>>

\* Mutant of SlotKey: no normalization.
MutRawKey(k) == k

\* _norm of a row's key.
SlotKey(k) == Norm[k]

GroupRow ==
  /\ phase = "grouping" /\ listed # <<>>
  /\ LET s == SlotKey(rows[Head(listed)].key)
     IN chains' = [chains EXCEPT ![s] = Append(@, Head(listed))]
  /\ listed' = Tail(listed)
  /\ UNCHANGED <<rows, revision, columns, strict, phase, written>>

Grouped ==
  /\ phase = "grouping" /\ listed = <<>>
  /\ phase' = "updating"
  /\ UNCHANGED <<rows, revision, columns, strict, listed, chains, written>>

\* Mutant of ToUpdate: a slot with a single row keeps the defaults.
MutLongChains == {u \in Keys \X Ids : u[2] \in DOMAIN chains[u[1]] /\ Len(chains[u[1]]) > 1}

ToUpdate == {u \in Keys \X Ids : u[2] \in DOMAIN chains[u[1]]}

\* Mutant of UpdatedRow: the newest version is closed too.
MutCloseAll(s, i) ==
  LET row == rows[chains[s][i]]
      next == IF i < Len(chains[s]) THEN chains[s][i + 1] ELSE chains[s][i]
  IN AsRow(s, "superseded", row.created, i, row.created, rows[next].created, next)

\* The i-th row of slot s; only one with a successor is superseded, by it.
UpdatedRow(s, i) ==
  LET row == rows[chains[s][i]]
      next == chains[s][i + 1]
  IN IF i < Len(chains[s])
       THEN AsRow(s, "superseded", row.created, i, row.created, rows[next].created, next)
       ELSE AsRow(s, row.status, row.created, i, row.created, row.supersededAt, row.supersededBy)

\* The UPDATE of one row.  Their order is not observable: all are of one
\* transaction.
UpdateRow(s, i) ==
  /\ phase = "updating"
  /\ <<s, i>> \in ToUpdate
  /\ chains[s][i] \notin DOMAIN written
  /\ written' = [id \in DOMAIN written \cup {chains[s][i]} |->
                    IF id = chains[s][i] THEN UpdatedRow(s, i) ELSE written[id]]
  /\ UNCHANGED <<rows, revision, columns, strict, phase, listed, chains>>

AllUpdated == \A u \in ToUpdate : chains[u[1]][u[2]] \in DOMAIN written

\* The first ALTER COLUMN commits the UPDATEs, then fails if it finds a NULL.
RequireObserved ==
  /\ phase = "updating" /\ AllUpdated
  /\ rows' = [id \in Ids |-> IF id \in DOMAIN written THEN written[id] ELSE rows[id]]
  /\ written' = <<>>
  /\ strict' = \A id \in Ids : rows'[id].created # 0 => rows'[id].lastObserved # 0
  /\ phase' = IF strict' THEN "constraining" ELSE "idle"
  /\ chains' = NoChains
  /\ UNCHANGED <<revision, columns, listed>>

SuccessorsExist == \A id \in Saved : rows[id].supersededBy # 0 => rows[id].supersededBy \in Saved

SlotVersionsUnique ==
  \A i, j \in Saved : i # j => <<rows[i].key, rows[i].version>> # <<rows[j].key, rows[j].version>>

\* CREATE FOREIGN KEY and UNIQUE.
Constrain ==
  /\ phase = "constraining"
  /\ phase' = IF SuccessorsExist /\ SlotVersionsUnique THEN "stamping" ELSE "idle"
  /\ UNCHANGED <<rows, revision, columns, strict, listed, chains, written>>

Stamp ==
  /\ phase = "stamping"
  /\ revision' = "0007"
  /\ phase' = "idle"
  /\ UNCHANGED <<rows, columns, strict, listed, chains, written>>

-----------------------------------------------------------------------------
(* downgrade, and what happens around a migration.                         *)

Downgrade ==
  /\ ~Running /\ revision = "0007" /\ columns = 4
  /\ phase' = "dropping"
  /\ UNCHANGED <<rows, revision, columns, strict, listed, chains, written>>

DropColumn ==
  /\ phase = "dropping" /\ columns > 0
  /\ columns' = columns - 1
  /\ strict' = IF columns = 1 THEN FALSE ELSE strict
  /\ UNCHANGED <<rows, revision, phase, listed, chains, written>>

Dropped ==
  /\ phase = "dropping" /\ columns = 0
  /\ revision' = "0006"
  /\ phase' = "idle"
  /\ UNCHANGED <<rows, columns, strict, listed, chains, written>>

\* The process or its connection is lost.
Crash ==
  /\ Running
  /\ phase' = "idle"
  /\ listed' = <<>> /\ chains' = NoChains /\ written' = <<>>
  /\ UNCHANGED <<rows, revision, columns, strict>>

\* What is left of a run that failed is dropped by hand.
RepairByHand ==
  /\ ~Running
  /\ columns # IF revision = "0006" THEN 0 ELSE 4
  /\ columns' = 0 /\ strict' = FALSE /\ revision' = "0006"
  /\ UNCHANGED <<rows, phase, listed, chains, written>>

\* The program of before saves an opportunity; it does not know the new columns.
OldSave(id, key, at, status) ==
  /\ ~strict
  /\ id \notin Saved /\ 1..(id - 1) \subseteq Saved
  /\ rows' = [rows EXCEPT ![id] = Plain(key, status, at)]
  /\ UNCHANGED <<revision, columns, strict, phase, listed, chains, written>>

Init ==
  /\ rows = [id \in Ids |-> NoRow]
  /\ revision = "0006" /\ columns = 0 /\ strict = FALSE
  /\ phase = "idle" /\ listed = <<>> /\ written = <<>>
  /\ chains = NoChains

Migrate ==
  \/ Upgrade \/ AddColumn \/ SelectRows \/ GroupRow \/ Grouped
  \/ \E s \in Keys, i \in Ids : UpdateRow(s, i)
  \/ RequireObserved \/ Constrain \/ Stamp
  \/ Downgrade \/ DropColumn \/ Dropped

Next ==
  \/ Migrate \/ Crash \/ RepairByHand
  \/ \E id \in Ids, key \in Keys, at \in Times, status \in {"candidate", "expired"} :
       OldSave(id, key, at, status)

Spec == Init /\ [][Next]_vars

-----------------------------------------------------------------------------
(* Properties.                                                             *)

Migrated == ~Running /\ revision = "0007" /\ columns = 4

\* The rows that are version v of slot s, and as the life cycle sees the one.
At(s, v) == {id \in Saved : rows[id].key = s /\ rows[id].version = v}

AsVersion(row) ==
  [status |-> row.status, decision |-> "none", lastObserved |-> row.lastObserved,
   supersededBy |-> IF row.supersededBy = 0 THEN 0 ELSE rows[row.supersededBy].version,
   supersededAt |-> row.supersededAt]

NoVersion == [status |-> "none", decision |-> "none", lastObserved |-> 0,
              supersededBy |-> 0, supersededAt |-> 0]

Table ==
  [s \in SlotKeys |-> [v \in 1..(MaxTime + MaxId) |->
     IF At(s, v) = {} THEN NoVersion
                      ELSE AsVersion(rows[CHOOSE id \in At(s, v) : TRUE])]]

Life == INSTANCE OpportunityLifecycle WITH
          Slots <- SlotKeys, Events <- SlotKeys, EventOf <- [s \in SlotKeys |-> s],
          StoredEvents <- SlotKeys, Procs <- {}, Decisions <- {}, NoDecision <- "none",
          NoSlot <- 0, MaxTime <- MaxTime + MaxId, MaxAttempts <- 1,
          opp <- Table, pass <- <<>>, txn <- <<>>, outcomes <- <<>>

\* 0007:11-17: a table that was migrated is one the life cycle may go on from:
\* every row is a version of its normalized slot, versions follow created_at and
\* id, and each slot is one chain with at most one candidate, at its end.
BackfillGivesALifecycle ==
  Migrated =>
    /\ Life!LifecycleInv
    /\ SlotVersionsUnique
    /\ \A id \in Saved : rows[id].key \in SlotKeys /\ rows[id].lastObserved = rows[id].created
    /\ \A i, j \in Saved :
         rows[i].key = rows[j].key /\ rows[i].version < rows[j].version =>
           \/ rows[i].created < rows[j].created
           \/ rows[i].created = rows[j].created /\ i < j

\* 0007:18-20: migrating, failing, repairing and going back lose no row and move
\* none to another slot or instant, and close a row only for a newer one of its
\* slot: what a slot last offered stays as it was.
HistoryIsKept ==
  [][\A id \in Saved :
       /\ rows'[id].created = rows[id].created
       /\ Norm[rows'[id].key] = Norm[rows[id].key]
       /\ \/ rows'[id].status = rows[id].status
          \/ /\ rows'[id].status = "superseded"
             /\ \E j \in Saved : Before(id, j) /\ Norm[rows[j].key] = Norm[rows[id].key]]_vars

\* 0007:11, "antes de crear el UNIQUE": what the backfill wrote satisfies the
\* constraints, which refuse only a row that was saved after it had listed them.
OnlyUnseenRowsStopIt ==
  [][/\ RequireObserved /\ phase' = "idle" =>
          \E id \in Saved : \A k \in Keys : \A i \in DOMAIN chains[k] : chains[k][i] # id
     /\ Constrain => phase' = "stamping"]_vars

=============================================================================
