--------------------- MODULE OpportunityLifecycleProofs ---------------------
(***************************************************************************)
(* Proofs about OpportunityLifecycle, for any slots, processes, decisions, *)
(* instants and number of attempts.                                        *)
(*                                                                         *)
(* The table changes in four ways only (Insert, Beat, Replace, Shut below, *)
(* each with what the decision on a possibly old snapshot still guarantees *)
(* about the table it is applied to).  The invariants of the table are     *)
(* preserved by each of the four; that every step is one of the four, or   *)
(* leaves the table alone, rests on SnapshotsSound: what a process read    *)
(* may be out of date, but only in the ways a version can change.          *)
(***************************************************************************)
EXTENDS OpportunityLifecycle, TLAPS

\* A slot with versions has a last one.
HasLatest ==
  \A s \in Slots : (\E v \in Versions : Exists(s, v))
                     => \E v \in Versions : IsLatest(s, v)

\* Each version was observed later than the one before it was created, so
\* version v is at least v instants old: there is room for every version.
VersionsFitInTime ==
  \A s \in Slots : \A v \in Versions : Exists(s, v) => v <= opp[s][v].lastObserved

\* Every row carries a decision.
DecisionsKnown ==
  \A s \in Slots : \A v \in Versions : Exists(s, v) => opp[s][v].decision \in Decisions

\* What a transaction read of a slot, against the table as it is now: a closed
\* version is still the same row, an open one kept its decision and its
\* freshness only advanced.
SnapshotSound(t) ==
  /\ t.slot \in Slots
  /\ t.version # 0 =>
       /\ t.version \in Versions
       /\ Exists(t.slot, t.version)
       /\ t.row.status # "none"
       /\ t.row.decision = opp[t.slot][t.version].decision
       /\ t.row.lastObserved <= opp[t.slot][t.version].lastObserved
       /\ t.version <= t.row.lastObserved
       /\ t.row.status # "candidate" => t.row = opp[t.slot][t.version]
       /\ t.row.status # "superseded"
  /\ t.version = 0 => t.row = NoRow

SnapshotsSound == \A p \in Procs : txn[p].slot # NoSlot => SnapshotSound(txn[p])

TableType == opp \in [Slots -> [Versions -> Row]]

TableInv == TableType /\ LifecycleInv /\ HasLatest /\ VersionsFitInTime /\ DecisionsKnown

IInv == TypeOK /\ TableInv /\ SnapshotsSound

-----------------------------------------------------------------------------
(* The four ways the table changes.                                        *)

Insert(s, v, d, at) ==
  /\ s \in Slots /\ v \in Versions /\ d \in Decisions /\ at \in Times
  /\ ~Exists(s, v)
  /\ v <= at
  /\ v # 1 => opp[s][v - 1].status = "expired" /\ opp[s][v - 1].lastObserved < at
  /\ opp' = [opp EXCEPT ![s][v] = NewRow(d, at)]

Beat(s, v, at) ==
  /\ s \in Slots /\ v \in Versions /\ at \in Times
  /\ opp[s][v].status = "candidate"
  /\ opp[s][v].lastObserved < at
  /\ opp' = [opp EXCEPT ![s][v].lastObserved = at]

Replace(s, v, d, at) ==
  /\ s \in Slots /\ v \in Versions /\ v + 1 \in Versions
  /\ d \in Decisions /\ at \in Times
  /\ opp[s][v].status = "candidate"
  /\ opp[s][v].decision # d
  /\ ~Exists(s, v + 1)
  /\ v + 1 <= at
  /\ opp' = [opp EXCEPT ![s] = [@ EXCEPT ![v + 1] = NewRow(d, at),
                                         ![v] = Superseded(opp[s][v], v + 1, at)]]

Shut(s, v, at) ==
  /\ s \in Slots /\ v \in Versions /\ at \in 0..MaxTime
  /\ opp[s][v].status = "candidate"
  /\ opp' = [opp EXCEPT ![s][v] = Expired(opp[s][v], at)]

TableStep ==
  \/ UNCHANGED opp
  \/ \E s \in Slots, v \in Versions, d \in Decisions, at \in Times :
       Insert(s, v, d, at) \/ Replace(s, v, d, at)
  \/ \E s \in Slots, v \in Versions, at \in Times : Beat(s, v, at)
  \/ \E s \in Slots, v \in Versions, at \in 0..MaxTime : Shut(s, v, at)

-----------------------------------------------------------------------------
(* The new table, row by row.                                              *)

LEMMA RowTypes ==
  /\ NoRow \in Row
  /\ \A d \in Decisions, at \in Times : NewRow(d, at) \in Row
  /\ \A row \in Row, at \in 0..MaxTime : Expired(row, at) \in Row
  /\ \A row \in Row, v \in Versions, at \in Times :
       v + 1 \in Versions => Superseded(row, v + 1, at) \in Row
  <1> USE BoundAssumption DEF Row, Times, Versions
  <1>1. NoRow \in Row
    BY DEF NoRow
  <1>2. ASSUME NEW d \in Decisions, NEW at \in Times
        PROVE  NewRow(d, at) \in Row
    BY DEF NewRow
  <1>3. ASSUME NEW row \in Row, NEW at \in 0..MaxTime
        PROVE  Expired(row, at) \in Row
    BY DEF Expired
  <1>4. ASSUME NEW row \in Row, NEW v \in Versions, NEW at \in Times, v + 1 \in Versions
        PROVE  Superseded(row, v + 1, at) \in Row
    <2>1. v + 1 \in 0..MaxTime /\ at \in 0..MaxTime
      BY <1>4
    <2> QED
      BY <2>1 DEF Superseded
  <1> QED
    BY <1>1, <1>2, <1>3, <1>4

LEMMA InsertRows ==
  ASSUME TableType, NEW s, NEW v, NEW d, NEW at, Insert(s, v, d, at)
  PROVE  /\ TableType'
         /\ \A r \in Slots, w \in Versions :
              opp'[r][w] = IF r = s /\ w = v THEN NewRow(d, at) ELSE opp[r][w]
  BY RowTypes DEF TableType, Insert

LEMMA BeatRows ==
  ASSUME TableType, NEW s, NEW v, NEW at, Beat(s, v, at)
  PROVE  /\ TableType'
         /\ \A r \in Slots, w \in Versions :
              opp'[r][w] = IF r = s /\ w = v
                             THEN [opp[s][v] EXCEPT !.lastObserved = at] ELSE opp[r][w]
  <1>1. opp[s][v] \in Row
    BY DEF TableType, Beat
  <1>2. [opp[s][v] EXCEPT !.lastObserved = at] \in Row
    BY <1>1 DEF Row, Beat, Times
  <1> QED
    BY <1>2 DEF TableType, Beat

LEMMA ReplaceRows ==
  ASSUME TableType, NEW s, NEW v, NEW d, NEW at, Replace(s, v, d, at)
  PROVE  /\ TableType'
         /\ \A r \in Slots, w \in Versions :
              opp'[r][w] = IF r = s /\ w = v + 1 THEN NewRow(d, at)
                           ELSE IF r = s /\ w = v THEN Superseded(opp[s][v], v + 1, at)
                           ELSE opp[r][w]
  <1>0. s \in Slots /\ v \in Versions /\ v + 1 \in Versions /\ at \in Times /\ d \in Decisions
    BY DEF Replace
  <1>1. opp[s][v] \in Row
    BY <1>0 DEF TableType
  <1>2. Superseded(opp[s][v], v + 1, at) \in Row /\ NewRow(d, at) \in Row
    BY <1>0, <1>1, RowTypes
  <1>3. v + 1 # v
    BY <1>0, BoundAssumption DEF Versions
  <1> QED
    BY <1>2, <1>3 DEF TableType, Replace

LEMMA ShutRows ==
  ASSUME TableType, NEW s, NEW v, NEW at, Shut(s, v, at)
  PROVE  /\ TableType'
         /\ \A r \in Slots, w \in Versions :
              opp'[r][w] = IF r = s /\ w = v THEN Expired(opp[s][v], at) ELSE opp[r][w]
  <1>1. opp[s][v] \in Row
    BY DEF TableType, Shut
  <1>2. Expired(opp[s][v], at) \in Row
    BY <1>1, RowTypes DEF Shut
  <1> QED
    BY <1>2 DEF TableType, Shut

-----------------------------------------------------------------------------
(* The invariants of the table are preserved.                              *)

LEMMA InsertPreserves ==
  ASSUME TableInv, NEW s, NEW v, NEW d, NEW at, Insert(s, v, d, at)
  PROVE  TableInv'
  <1> USE BoundAssumption DEF TableInv, LifecycleInv
  <1>1. /\ TableType'
        /\ \A r \in Slots, w \in Versions :
             opp'[r][w] = IF r = s /\ w = v THEN NewRow(d, at) ELSE opp[r][w]
    BY InsertRows
  <1>2. /\ s \in Slots /\ v \in Versions /\ at \in Times /\ v <= at /\ ~Exists(s, v)
        /\ v # 1 => opp[s][v - 1].status = "expired" /\ opp[s][v - 1].lastObserved < at
    BY DEF Insert
  <1>3. /\ NewRow(d, at).status = "candidate" /\ NewRow(d, at).supersededBy = 0
        /\ NewRow(d, at).lastObserved = at
    BY DEF NewRow
  <1>4. \A w \in Versions : w > v => ~Exists(s, w)
    BY <1>2 DEF Contiguous
  <1>5. \A r \in Slots, w \in Versions :
          Exists(r, w)' <=> Exists(r, w) \/ (r = s /\ w = v)
    BY <1>1, <1>2, <1>3 DEF Exists
  <1>6. v # 1 => v - 1 \in Versions /\ Exists(s, v - 1)
    BY <1>2 DEF Versions, Exists
  <1>7. OnlyLatestCandidate'
    <2> SUFFICES ASSUME NEW r \in Slots, NEW w \in Versions, NEW x \in Versions,
                        opp'[r][w].status = "candidate", x > w
                 PROVE  ~Exists(r, x)'
      BY DEF OnlyLatestCandidate
    <2>1. CASE r = s /\ w = v
      BY <2>1, <1>4, <1>5 DEF Versions
    <2>2. CASE ~(r = s /\ w = v)
      <3>1. opp[r][w].status = "candidate"
        BY <2>2, <1>1
      <3>2. ~Exists(r, x)
        BY <3>1 DEF OnlyLatestCandidate
      <3>3. ~(r = s /\ x = v)
        <4> SUFFICES ASSUME r = s, x = v PROVE FALSE
          OBVIOUS
        <4>1. v # 1 /\ v - 1 \in Versions /\ Exists(s, v - 1) /\ w <= v - 1
          BY <1>2, <1>6 DEF Versions
        <4>2. w = v - 1
          BY <4>1, <3>1 DEF OnlyLatestCandidate, Versions
        <4> QED
          BY <4>1, <4>2, <3>1, <1>2
      <3> QED
        BY <3>2, <3>3, <1>5
    <2> QED
      BY <2>1, <2>2
  <1>8. Contiguous'
    <2> SUFFICES ASSUME NEW r \in Slots, NEW w \in Versions, NEW x \in Versions,
                        Exists(r, w)', x < w
                 PROVE  Exists(r, x)'
      BY DEF Contiguous
    <2>1. CASE Exists(r, w)
      BY <2>1, <1>5 DEF Contiguous
    <2>2. CASE r = s /\ w = v
      <3>1. v # 1 /\ v - 1 \in Versions /\ Exists(s, v - 1) /\ x <= v - 1
        BY <2>2, <1>2, <1>6 DEF Versions
      <3> QED
        BY <3>1, <2>2, <1>5 DEF Contiguous, Versions
    <2> QED
      BY <2>1, <2>2, <1>5
  <1>9. ChainLinked'
    <2> SUFFICES ASSUME NEW r \in Slots, NEW w \in Versions
                 PROVE
                   /\ opp'[r][w].status = "superseded" =>
                        /\ w + 1 \in Versions /\ Exists(r, w + 1)'
                        /\ opp'[r][w].supersededBy = w + 1
                        /\ opp'[r][w].supersededAt <= opp'[r][w + 1].lastObserved
                   /\ opp'[r][w].status # "superseded" => opp'[r][w].supersededBy = 0
                   /\ opp'[r][w].status = "expired" /\ w + 1 \in Versions
                        /\ Exists(r, w + 1)' =>
                        opp'[r][w].lastObserved < opp'[r][w + 1].lastObserved
      BY DEF ChainLinked
    <2>1. CASE r = s /\ w = v
      BY <2>1, <1>1, <1>3
    <2>2. CASE ~(r = s /\ w = v)
      <3>1. opp'[r][w] = opp[r][w]
        BY <2>2, <1>1
      <3>2. CASE r = s /\ w + 1 = v
        BY <3>1, <3>2, <1>1, <1>2, <1>3 DEF ChainLinked, Exists, Versions
      <3>3. CASE ~(r = s /\ w + 1 = v)
        BY <3>1, <3>3, <1>1, <1>5 DEF ChainLinked
      <3> QED
        BY <3>2, <3>3
    <2> QED
      BY <2>1, <2>2
  <1>10. HasLatest'
    <2> SUFFICES ASSUME NEW r \in Slots, NEW w \in Versions, Exists(r, w)'
                 PROVE  \E x \in Versions : IsLatest(r, x)'
      BY DEF HasLatest
    <2>1. CASE r = s
      <3>1. IsLatest(s, v)'
        BY <1>2, <1>4, <1>5 DEF IsLatest, Versions
      <3> QED
        BY <2>1, <3>1, <1>2
    <2>2. CASE r # s
      BY <2>2, <1>5 DEF HasLatest, IsLatest
    <2> QED
      BY <2>1, <2>2
  <1>11. VersionsFitInTime'
    BY <1>1, <1>2, <1>3, <1>5 DEF VersionsFitInTime
  <1>12. DecisionsKnown'
    BY <1>1, <1>5 DEF DecisionsKnown, Insert, NewRow
  <1> QED
    BY <1>1, <1>7, <1>8, <1>9, <1>10, <1>11, <1>12

\* Beat and Shut change one candidate row in place.
LEMMA UpdatePreserves ==
  ASSUME TableInv, TableType', NEW s \in Slots, NEW v \in Versions, NEW row \in Row,
         opp[s][v].status = "candidate",
         row.status \in {"candidate", "expired"},
         row.supersededBy = opp[s][v].supersededBy, row.decision = opp[s][v].decision,
         row.lastObserved >= opp[s][v].lastObserved,
         \A r \in Slots, w \in Versions :
           opp'[r][w] = IF r = s /\ w = v THEN row ELSE opp[r][w]
  PROVE  TableInv'
  <1> USE BoundAssumption DEF TableInv, LifecycleInv
  <1>1. \A r \in Slots, w \in Versions : Exists(r, w)' <=> Exists(r, w)
    BY DEF Exists
  <1>2. \A r \in Slots, w \in Versions :
          /\ opp[r][w] \in Row /\ opp'[r][w] \in Row
          /\ opp'[r][w].status = "candidate" => opp[r][w].status = "candidate"
          /\ opp'[r][w].lastObserved >= opp[r][w].lastObserved
    <2> SUFFICES ASSUME NEW r \in Slots, NEW w \in Versions
                 PROVE  /\ opp[r][w] \in Row /\ opp'[r][w] \in Row
                        /\ opp'[r][w].status = "candidate" => opp[r][w].status = "candidate"
                        /\ opp'[r][w].lastObserved >= opp[r][w].lastObserved
      OBVIOUS
    <2>1. opp[r][w] \in Row /\ opp'[r][w] \in Row
      BY DEF TableType
    <2>2. opp[r][w].lastObserved \in Nat
      BY <2>1 DEF Row
    <2>3. CASE r = s /\ w = v
      BY <2>1, <2>3
    <2>4. CASE ~(r = s /\ w = v)
      BY <2>1, <2>2, <2>4
    <2> QED
      BY <2>3, <2>4
  <1>3. OnlyLatestCandidate'
    BY <1>1, <1>2 DEF OnlyLatestCandidate
  <1>4. Contiguous'
    BY <1>1 DEF Contiguous
  <1>5. ChainLinked'
    <2> SUFFICES ASSUME NEW r \in Slots, NEW w \in Versions
                 PROVE
                   /\ opp'[r][w].status = "superseded" =>
                        /\ w + 1 \in Versions /\ Exists(r, w + 1)'
                        /\ opp'[r][w].supersededBy = w + 1
                        /\ opp'[r][w].supersededAt <= opp'[r][w + 1].lastObserved
                   /\ opp'[r][w].status # "superseded" => opp'[r][w].supersededBy = 0
                   /\ opp'[r][w].status = "expired" /\ w + 1 \in Versions
                        /\ Exists(r, w + 1)' =>
                        opp'[r][w].lastObserved < opp'[r][w + 1].lastObserved
      BY DEF ChainLinked
    <2>1. CASE r = s /\ w = v
      <3>1. w + 1 \in Versions => ~Exists(r, w + 1)
        BY <2>1 DEF OnlyLatestCandidate, Versions
      <3> QED
        BY <2>1, <3>1, <1>1 DEF ChainLinked
    <2>2. CASE ~(r = s /\ w = v)
      <3>1. opp'[r][w] = opp[r][w]
        BY <2>2
      <3>2. w + 1 \in Versions =>
              /\ opp'[r][w + 1].lastObserved >= opp[r][w + 1].lastObserved
              /\ opp'[r][w + 1].lastObserved \in Nat /\ opp[r][w + 1].lastObserved \in Nat
              /\ Exists(r, w + 1)' <=> Exists(r, w + 1)
        BY <1>1, <1>2 DEF TableType, Row
      <3>3. opp[r][w].supersededAt \in Nat /\ opp[r][w].lastObserved \in Nat
        BY <1>2 DEF Row
      <3> QED
        BY <3>1, <3>2, <3>3 DEF ChainLinked
    <2> QED
      BY <2>1, <2>2
  <1>6. HasLatest'
    BY <1>1 DEF HasLatest, IsLatest
  <1>7. VersionsFitInTime'
    <2> SUFFICES ASSUME NEW r \in Slots, NEW w \in Versions, Exists(r, w)'
                 PROVE  w <= opp'[r][w].lastObserved
      BY DEF VersionsFitInTime
    <2>1. opp[r][w].lastObserved \in Nat /\ opp'[r][w].lastObserved \in Nat
      BY <1>2 DEF Row
    <2>2. w <= opp[r][w].lastObserved
      BY <1>1 DEF VersionsFitInTime
    <2> QED
      BY <2>1, <2>2, <1>2 DEF Versions
  <1>8. DecisionsKnown'
    BY <1>1 DEF DecisionsKnown
  <1> QED
    BY <1>3, <1>4, <1>5, <1>6, <1>7, <1>8

LEMMA BeatPreserves ==
  ASSUME TableInv, NEW s, NEW v, NEW at, Beat(s, v, at)
  PROVE  TableInv'
  <1> DEFINE row == [opp[s][v] EXCEPT !.lastObserved = at]
  <1>1. /\ s \in Slots /\ v \in Versions /\ at \in Times
        /\ opp[s][v] \in Row /\ opp[s][v].status = "candidate"
        /\ opp[s][v].lastObserved < at
    BY DEF Beat, TableInv, TableType
  <1>2. /\ row \in Row /\ row.status = "candidate"
        /\ row.supersededBy = opp[s][v].supersededBy
        /\ row.decision = opp[s][v].decision
        /\ row.lastObserved >= opp[s][v].lastObserved
    BY <1>1, BoundAssumption DEF Row, Times
  <1>3. /\ TableType'
        /\ \A r \in Slots, w \in Versions :
             opp'[r][w] = IF r = s /\ w = v THEN row ELSE opp[r][w]
    BY BeatRows DEF TableInv
  <1> HIDE DEF row
  <1> QED
    BY <1>1, <1>2, <1>3, UpdatePreserves

LEMMA ShutPreserves ==
  ASSUME TableInv, NEW s, NEW v, NEW at, Shut(s, v, at)
  PROVE  TableInv'
  <1> DEFINE row == Expired(opp[s][v], at)
  <1>1. /\ s \in Slots /\ v \in Versions /\ at \in 0..MaxTime
        /\ opp[s][v] \in Row /\ opp[s][v].status = "candidate"
    BY DEF Shut, TableInv, TableType
  <1>2. /\ row \in Row /\ row.status = "expired"
        /\ row.supersededBy = opp[s][v].supersededBy
        /\ row.decision = opp[s][v].decision
        /\ row.lastObserved >= opp[s][v].lastObserved
    <2>1. opp[s][v].lastObserved \in Nat
      BY <1>1 DEF Row
    <2>2. row \in Row
      BY <1>1, RowTypes
    <2> QED
      BY <1>1, <2>1, <2>2, BoundAssumption DEF Row, Expired
  <1>3. /\ TableType'
        /\ \A r \in Slots, w \in Versions :
             opp'[r][w] = IF r = s /\ w = v THEN row ELSE opp[r][w]
    BY ShutRows DEF TableInv
  <1> HIDE DEF row
  <1> QED
    BY <1>1, <1>2, <1>3, UpdatePreserves

LEMMA ReplacePreserves ==
  ASSUME TableInv, NEW s, NEW v, NEW d, NEW at, Replace(s, v, d, at)
  PROVE  TableInv'
  <1> USE BoundAssumption DEF TableInv, LifecycleInv
  <1>1. /\ TableType'
        /\ \A r \in Slots, w \in Versions :
             opp'[r][w] = IF r = s /\ w = v + 1 THEN NewRow(d, at)
                          ELSE IF r = s /\ w = v THEN Superseded(opp[s][v], v + 1, at)
                          ELSE opp[r][w]
    BY ReplaceRows
  <1>2. /\ s \in Slots /\ v \in Versions /\ v + 1 \in Versions /\ at \in Times
        /\ opp[s][v].status = "candidate" /\ ~Exists(s, v + 1) /\ v + 1 <= at
        /\ v # v + 1 /\ v \in Nat
    BY DEF Replace, Versions
  <1>3. /\ NewRow(d, at).status = "candidate" /\ NewRow(d, at).supersededBy = 0
        /\ NewRow(d, at).lastObserved = at
        /\ Superseded(opp[s][v], v + 1, at).status = "superseded"
        /\ Superseded(opp[s][v], v + 1, at).supersededBy = v + 1
        /\ Superseded(opp[s][v], v + 1, at).supersededAt = at
        /\ Superseded(opp[s][v], v + 1, at).lastObserved = opp[s][v].lastObserved
    BY DEF NewRow, Superseded
  <1>4. \A w \in Versions : w > v => ~Exists(s, w)
    BY <1>2 DEF OnlyLatestCandidate
  <1>5. \A r \in Slots, w \in Versions :
          Exists(r, w)' <=> Exists(r, w) \/ (r = s /\ w = v + 1)
    <2>1. Exists(s, v)
      BY <1>2 DEF Exists
    <2> QED
      BY <2>1, <1>1, <1>2, <1>3 DEF Exists
  <1>6. OnlyLatestCandidate'
    <2> SUFFICES ASSUME NEW r \in Slots, NEW w \in Versions, NEW x \in Versions,
                        opp'[r][w].status = "candidate", x > w
                 PROVE  ~Exists(r, x)'
      BY DEF OnlyLatestCandidate
    <2>1. CASE r = s /\ w = v + 1
      BY <2>1, <1>2, <1>4, <1>5 DEF Versions
    <2>2. CASE ~(r = s /\ w = v + 1)
      <3>1. opp[r][w].status = "candidate" /\ ~(r = s /\ w = v)
        BY <2>2, <1>1, <1>2, <1>3
      <3>2. ~Exists(r, x)
        BY <3>1 DEF OnlyLatestCandidate
      <3>3. r # s
        <4> SUFFICES ASSUME r = s PROVE FALSE
          OBVIOUS
        <4>1. w < v
          BY <3>1, <1>2, <1>4 DEF Exists, Versions
        <4>2. ~Exists(s, v)
          BY <4>1, <3>1, <1>2 DEF OnlyLatestCandidate, Versions
        <4> QED
          BY <4>2, <1>2 DEF Exists
      <3> QED
        BY <3>2, <3>3, <1>5
    <2> QED
      BY <2>1, <2>2
  <1>7. Contiguous'
    <2> SUFFICES ASSUME NEW r \in Slots, NEW w \in Versions, NEW x \in Versions,
                        Exists(r, w)', x < w
                 PROVE  Exists(r, x)'
      BY DEF Contiguous
    <2>1. CASE Exists(r, w)
      BY <2>1, <1>5 DEF Contiguous
    <2>2. CASE r = s /\ w = v + 1
      <3>1. Exists(s, v) /\ x <= v
        BY <2>2, <1>2 DEF Versions, Exists
      <3> QED
        BY <3>1, <2>2, <1>2, <1>5 DEF Contiguous, Versions
    <2> QED
      BY <2>1, <2>2, <1>5
  <1>8. ChainLinked'
    <2> SUFFICES ASSUME NEW r \in Slots, NEW w \in Versions
                 PROVE
                   /\ opp'[r][w].status = "superseded" =>
                        /\ w + 1 \in Versions /\ Exists(r, w + 1)'
                        /\ opp'[r][w].supersededBy = w + 1
                        /\ opp'[r][w].supersededAt <= opp'[r][w + 1].lastObserved
                   /\ opp'[r][w].status # "superseded" => opp'[r][w].supersededBy = 0
                   /\ opp'[r][w].status = "expired" /\ w + 1 \in Versions
                        /\ Exists(r, w + 1)' =>
                        opp'[r][w].lastObserved < opp'[r][w + 1].lastObserved
      BY DEF ChainLinked
    <2>1. CASE r = s /\ w = v + 1
      BY <2>1, <1>1, <1>2, <1>3
    <2>2. CASE r = s /\ w = v
      <3>1. opp'[r][w + 1] = NewRow(d, at) /\ opp'[r][w] = Superseded(opp[s][v], v + 1, at)
        BY <2>2, <1>1, <1>2
      <3> QED
        BY <2>2, <3>1, <1>2, <1>3, <1>5 DEF Times
    <2>3. CASE ~(r = s /\ w = v + 1) /\ ~(r = s /\ w = v)
      <3>1. opp'[r][w] = opp[r][w]
        BY <2>3, <1>1
      <3>2. CASE r = s /\ w + 1 = v
        <4>1. opp'[r][w + 1].lastObserved = opp[r][w + 1].lastObserved
                /\ Exists(r, w + 1) /\ Exists(r, w + 1)'
          BY <3>2, <1>1, <1>2, <1>3, <1>5 DEF Exists
        <4> QED
          BY <3>1, <4>1 DEF ChainLinked
      <3>3. CASE ~(r = s /\ w + 1 = v)
        <4>1. w + 1 \in Versions => opp'[r][w + 1] = opp[r][w + 1]
          BY <2>3, <3>3, <1>1, <1>2 DEF Versions
        <4> QED
          BY <3>1, <4>1 DEF ChainLinked, Exists
      <3> QED
        BY <3>2, <3>3
    <2> QED
      BY <2>1, <2>2, <2>3
  <1>9. HasLatest'
    <2> SUFFICES ASSUME NEW r \in Slots, NEW w \in Versions, Exists(r, w)'
                 PROVE  \E x \in Versions : IsLatest(r, x)'
      BY DEF HasLatest
    <2>1. CASE r = s
      <3>1. IsLatest(s, v + 1)'
        BY <1>2, <1>4, <1>5 DEF IsLatest, Versions
      <3> QED
        BY <2>1, <3>1, <1>2
    <2>2. CASE r # s
      BY <2>2, <1>5 DEF HasLatest, IsLatest
    <2> QED
      BY <2>1, <2>2
  <1>10. VersionsFitInTime'
    BY <1>1, <1>2, <1>3, <1>5 DEF VersionsFitInTime, Exists
  <1>11. DecisionsKnown'
    BY <1>1, <1>2, <1>5 DEF DecisionsKnown, Replace, NewRow, Superseded, Exists
  <1> QED
    BY <1>1, <1>6, <1>7, <1>8, <1>9, <1>10, <1>11

LEMMA TableStepPreserves ==
  ASSUME TableInv, TableStep
  PROVE  TableInv'
  <1>1. CASE UNCHANGED opp
    BY <1>1 DEF TableInv, TableType, LifecycleInv, OnlyLatestCandidate, Contiguous,
                ChainLinked, HasLatest, VersionsFitInTime, DecisionsKnown, IsLatest,
                Exists
  <1> QED
    BY <1>1, InsertPreserves, BeatPreserves, ReplacePreserves, ShutPreserves DEF TableStep

-----------------------------------------------------------------------------
(* Reading the latest version, and what the read stays good for.           *)

LEMMA LatestFacts ==
  ASSUME TableInv, NEW s \in Slots
  PROVE  /\ LatestVersion(s) = 0 => \A v \in Versions : ~Exists(s, v)
         /\ LatestVersion(s) # 0 => LatestVersion(s) \in Versions
                                     /\ IsLatest(s, LatestVersion(s))
         /\ \A v \in Versions : IsLatest(s, v) => LatestVersion(s) = v
         /\ LatestVersion(s) \in 0..MaxTime
  <1> USE BoundAssumption DEF Versions
  <1>1. CASE \A v \in Versions : ~Exists(s, v)
    BY <1>1 DEF LatestVersion, IsLatest
  <1>2. CASE \E v \in Versions : Exists(s, v)
    <2>1. \E v \in Versions : IsLatest(s, v)
      BY <1>2 DEF TableInv, HasLatest
    <2>2. LatestVersion(s) = CHOOSE v \in Versions : IsLatest(s, v)
      BY <1>2 DEF LatestVersion
    <2>3. LatestVersion(s) \in Versions /\ IsLatest(s, LatestVersion(s))
      BY <2>1, <2>2
    <2>4. ASSUME NEW v \in Versions, IsLatest(s, v)
          PROVE  LatestVersion(s) = v
      BY <2>3, <2>4 DEF IsLatest
    <2> QED
      BY <2>3, <2>4
  <1> QED
    BY <1>1, <1>2

LEMMA SnapshotFacts ==
  ASSUME TableInv, NEW s \in Slots, NEW n \in 0..MaxAttempts
  PROVE  Snapshot(s, n) \in Txn /\ SnapshotSound(Snapshot(s, n))
  <1> DEFINE v == LatestVersion(s)
  <1>1. CASE v = 0
    BY <1>1, RowTypes, BoundAssumption DEF Snapshot, SnapshotSound, LatestRow, Txn
  <1>2. CASE v # 0
    <2>1. v \in Versions /\ v \in 0..MaxTime /\ IsLatest(s, v)
      BY <1>2, LatestFacts
    <2>2. LatestRow(s) = opp[s][v] /\ opp[s][v] \in Row
      BY <1>2, <2>1 DEF LatestRow, TableInv, TableType
    <2>3. opp[s][v].status # "superseded"
      <3> SUFFICES ASSUME opp[s][v].status = "superseded" PROVE FALSE
        OBVIOUS
      <3>1. v + 1 \in Versions /\ Exists(s, v + 1)
        BY <2>1 DEF TableInv, LifecycleInv, ChainLinked
      <3> QED
        BY <2>1, <3>1 DEF IsLatest, Versions
    <2>4. Exists(s, v) /\ opp[s][v].status # "none"
      BY <2>1 DEF IsLatest, Exists
    <2>5. v <= opp[s][v].lastObserved
      BY <2>1, <2>4 DEF TableInv, VersionsFitInTime
    <2>6. opp[s][v].lastObserved <= opp[s][v].lastObserved
      BY <2>2 DEF Row
    <2> HIDE DEF v
    <2> QED
      BY <1>2, <2>1, <2>2, <2>3, <2>4, <2>5, <2>6 DEF Snapshot, SnapshotSound, Txn, v
  <1> QED
    BY <1>1, <1>2

LEMMA TableStepAdvances ==
  ASSUME TableInv, TableStep, NEW s \in Slots, NEW v \in Versions
  PROVE  RowAdvances(opp[s][v], opp'[s][v])
  <1> USE DEF RowAdvances
  <1>0. opp[s][v] \in Row /\ TableType
    BY DEF TableInv, TableType
  <1>1. CASE UNCHANGED opp
    BY <1>1
  <1>2. ASSUME NEW r \in Slots, NEW w \in Versions, NEW d \in Decisions, NEW at \in Times,
               Insert(r, w, d, at)
        PROVE  RowAdvances(opp[s][v], opp'[s][v])
    BY <1>0, <1>2, InsertRows DEF Insert, Exists, NewRow
  <1>3. ASSUME NEW r \in Slots, NEW w \in Versions, NEW d \in Decisions, NEW at \in Times,
               Replace(r, w, d, at)
        PROVE  RowAdvances(opp[s][v], opp'[s][v])
    <2>1. opp[s][v].lastObserved >= opp[s][v].lastObserved
      BY <1>0 DEF Row
    <2>2. opp'[s][v] = IF s = r /\ v = w + 1 THEN NewRow(d, at)
                       ELSE IF s = r /\ v = w THEN Superseded(opp[r][w], w + 1, at)
                       ELSE opp[s][v]
      BY <1>0, <1>3, ReplaceRows
    <2>3. opp[r][w].status = "candidate" /\ ~Exists(r, w + 1)
      BY <1>3 DEF Replace
    <2> QED
      BY <2>1, <2>2, <2>3 DEF Exists, NewRow, Superseded
  <1>4. ASSUME NEW r \in Slots, NEW w \in Versions, NEW at \in Times, Beat(r, w, at)
        PROVE  RowAdvances(opp[s][v], opp'[s][v])
    <2>1. opp'[s][v] = IF s = r /\ v = w THEN [opp[r][w] EXCEPT !.lastObserved = at] ELSE opp[s][v]
      BY <1>0, <1>4, BeatRows
    <2>2. opp[r][w].status = "candidate" /\ opp[r][w] \in Row /\ opp[r][w].lastObserved < at
      BY <1>4, <1>0 DEF Beat, TableType
    <2>3. CASE s = r /\ v = w
      BY <2>1, <2>2, <2>3, BoundAssumption DEF Row, Times
    <2> QED
      BY <2>1, <2>3
  <1>5. ASSUME NEW r \in Slots, NEW w \in Versions, NEW at \in 0..MaxTime, Shut(r, w, at)
        PROVE  RowAdvances(opp[s][v], opp'[s][v])
    <2>1. opp'[s][v] = IF s = r /\ v = w THEN Expired(opp[r][w], at) ELSE opp[s][v]
      BY <1>0, <1>5, ShutRows
    <2>2. opp[r][w].status = "candidate" /\ opp[r][w] \in Row
      BY <1>5, <1>0 DEF Shut, TableType
    <2>3. CASE s = r /\ v = w
      BY <2>1, <2>2, <2>3, BoundAssumption DEF Row, Expired
    <2> QED
      BY <2>1, <2>3
  <1> QED
    BY <1>1, <1>2, <1>3, <1>4, <1>5 DEF TableStep

\* A snapshot taken before a step of anybody is still sound after it.
LEMMA SnapshotStaysSound ==
  ASSUME TableInv, TableStep, TableInv', NEW p \in Procs,
         SnapshotSound(txn[p]), txn[p] \in Txn, txn'[p] = txn[p]
  PROVE  SnapshotSound(txn[p])'
  <1> DEFINE t == txn[p]
  <1>1. CASE t.version = 0
    BY <1>1 DEF SnapshotSound
  <1>2. CASE t.version # 0
    <2>1. /\ t.slot \in Slots /\ t.version \in Versions
          /\ RowAdvances(opp[t.slot][t.version], opp'[t.slot][t.version])
      BY <1>2, TableStepAdvances DEF SnapshotSound
    <2>2. /\ opp[t.slot][t.version] \in Row /\ opp'[t.slot][t.version] \in Row
          /\ t.row \in Row
      BY <2>1 DEF TableInv, TableType, Txn
    <2>3. /\ t.row.lastObserved \in Nat /\ opp[t.slot][t.version].lastObserved \in Nat
          /\ opp'[t.slot][t.version].lastObserved \in Nat
      BY <2>2 DEF Row
    <2> QED
      BY <1>2, <2>1, <2>2, <2>3 DEF SnapshotSound, RowAdvances, Exists
  <1> QED
    BY <1>1, <1>2

-----------------------------------------------------------------------------
(* Every step of the passes is a step of the table.                        *)

\* An observation without the events that are not stored is an observation.
LEMMA IdentifiedIsObservation ==
  ASSUME NEW o \in Observation
  PROVE  Identified(o) \in Observation
  <1>1. AbsentItem \in Item
    BY DEF Item
  <1>2. \A s \in Slots : Identified(o).items[s] = IF s \in StoredSlots THEN o.items[s] ELSE AbsentItem
    BY DEF Identified
  <1>3. \A e \in Events :
          Identified(o).evaluated[e] = IF e \in StoredEvents THEN o.evaluated[e] ELSE 0
    BY DEF Identified
  <1>4. /\ \A s \in Slots : o.items[s] \in Item /\ o.items[s].at <= o.evaluated[EventOf[s]]
        /\ \A e \in Events : o.evaluated[e] \in 0..MaxTime
    BY DEF Observation
  <1>5. Identified(o) \in [items: [Slots -> Item], evaluated: [Events -> 0..MaxTime]]
    BY <1>1, <1>4, BoundAssumption DEF Identified
  <1>6. ASSUME NEW s \in Slots
        PROVE  Identified(o).items[s].at <= Identified(o).evaluated[EventOf[s]]
    <2>1. EventOf[s] \in Events
      BY SlotAssumption
    <2>2. CASE s \in StoredSlots
      BY <1>2, <1>3, <1>4, <2>1, <2>2 DEF StoredSlots
    <2>3. CASE s \notin StoredSlots
      <3>1. EventOf[s] \notin StoredEvents /\ Identified(o).items[s].at = 0
        BY <1>2, <2>3 DEF StoredSlots, AbsentItem
      <3> QED
        BY <1>3, <2>1, <3>1
    <2> QED
      BY <2>2, <2>3
  <1> QED
    BY <1>5, <1>6 DEF Observation

\* What a process inside a slot transaction knows of its observation.
LEMMA TxnFacts ==
  ASSUME IInv, NEW p \in Procs, InTxn(p)
  PROVE  /\ txn[p] \in Txn /\ txn[p].slot \in Slots
         /\ SnapshotSound(txn[p])
         /\ At(p) \in 0..MaxTime
         /\ Proposes(p) => ItemOf(p).decision \in Decisions /\ At(p) \in Times
  <1>1. txn[p] \in Txn /\ txn[p].slot \in Slots /\ SnapshotSound(txn[p])
    BY DEF IInv, TypeOK, InTxn, SnapshotsSound, SnapshotSound
  <1>2. pass[p].obs \in Observation
    BY DEF IInv, TypeOK
  <1>3. ItemOf(p) \in Item /\ pass[p].obs.evaluated[EventOf[txn[p].slot]] \in 0..MaxTime
    BY <1>1, <1>2, SlotAssumption DEF Observation, ItemOf
  <1>4. ItemOf(p).at \in 0..MaxTime
    BY <1>3, BoundAssumption DEF Item, AbsentItem, Times
  <1>5. At(p) \in 0..MaxTime
    BY <1>3, <1>4 DEF At, ObservedAt, ItemOf
  <1>6. Proposes(p) => ItemOf(p).decision \in Decisions /\ ItemOf(p).at \in Times
    BY <1>3 DEF Proposes, Item, AbsentItem
  <1>7. Proposes(p) => At(p) = ItemOf(p).at
    BY DEF Proposes, At, ObservedAt, ItemOf
  <1> QED
    BY <1>1, <1>5, <1>6, <1>7

\* Which of the four changes each write is.
LEMMA WriteKinds ==
  ASSUME IInv, NEW p \in Procs, Write(p)
  PROVE  /\ InTxn(p) /\ txn[p].slot \in Slots /\ At(p) \in 0..MaxTime
         /\ Proposes(p) => ItemOf(p).decision \in Decisions /\ At(p) \in Times
         /\ CreateFirst(p) =>
              1 \in Versions /\ Insert(txn[p].slot, 1, ItemOf(p).decision, At(p))
         /\ Reopen(p) =>
              /\ txn[p].version + 1 \in Versions
              /\ Insert(txn[p].slot, txn[p].version + 1, ItemOf(p).decision, At(p))
         /\ Heartbeat(p) =>
              \/ UNCHANGED opp /\ ~(StillOpen(p) /\ Current(p).lastObserved < At(p))
              \/ txn[p].version \in Versions /\ Beat(txn[p].slot, txn[p].version, At(p))
         /\ Supersede(p) =>
              /\ txn[p].version \in Versions
              /\ Replace(txn[p].slot, txn[p].version, ItemOf(p).decision, At(p))
         /\ Expire(p) => txn[p].version \in Versions /\ Shut(txn[p].slot, txn[p].version, At(p))
         /\ IgnoreStale(p) \/ NothingToClose(p) \/ CloseOvertaken(p) => UNCHANGED opp
  <1> DEFINE t == txn[p]
             at == At(p)
             d == ItemOf(p).decision
  <1>1. InTxn(p)
    BY DEF Write, CreateFirst, IgnoreStale, Reopen, Heartbeat, Supersede,
           NothingToClose, Expire, CloseOvertaken
  <1>2. /\ t \in Txn /\ t.slot \in Slots /\ SnapshotSound(t) /\ at \in 0..MaxTime
        /\ Proposes(p) => d \in Decisions /\ at \in Times
    BY <1>1, TxnFacts
  <1>3. t.row \in Row /\ t.version \in 0..MaxTime /\ t.row.lastObserved \in Nat
    BY <1>2 DEF Txn, Row
  <1>4. ASSUME t.version # 0, at > t.row.lastObserved
        PROVE  /\ t.version \in Versions /\ t.version \in Nat
               /\ t.version + 1 \in Versions /\ t.version + 1 <= at
               /\ t.version + 1 # 1 /\ (t.version + 1) - 1 = t.version
    BY <1>2, <1>3, <1>4, BoundAssumption DEF SnapshotSound, Versions
  <1>5. ASSUME CreateFirst(p)
        PROVE  1 \in Versions /\ Insert(t.slot, 1, d, at)
    <2>1. /\ Proposes(p) /\ t.version + 1 = 1 /\ ~Exists(t.slot, 1)
          /\ opp' = [opp EXCEPT ![t.slot][1] = NewRow(d, at)]
      BY <1>5 DEF CreateFirst, NeverSeen, VersionFree, InsertNext
    <2>2. 1 \in Versions /\ d \in Decisions /\ at \in Times /\ 1 <= at
      BY <1>2, <2>1, BoundAssumption DEF Versions, Times
    <2>3. Insert(t.slot, 1, d, at)
      BY <1>2, <2>1, <2>2 DEF Insert
    <2> QED
      BY <2>2, <2>3
  <1>6. ASSUME Reopen(p)
        PROVE  t.version + 1 \in Versions /\ Insert(t.slot, t.version + 1, d, at)
    <2>1. /\ Proposes(p) /\ t.version # 0 /\ ~(at <= t.row.lastObserved)
          /\ t.row.status # "candidate" /\ ~Exists(t.slot, t.version + 1)
          /\ opp' = [opp EXCEPT ![t.slot][t.version + 1] = NewRow(d, at)]
      BY <1>6 DEF Reopen, NeverSeen, Stale, SnapshotOpen, VersionFree, InsertNext
    <2>2. at > t.row.lastObserved
      BY <1>2, <1>3, <2>1
    <2>3. t.row = opp[t.slot][t.version] /\ t.row.status = "expired"
      BY <1>2, <1>3, <2>1 DEF SnapshotSound, Row
    <2>4. Insert(t.slot, t.version + 1, d, at)
      BY <1>2, <1>4, <2>1, <2>2, <2>3 DEF Insert
    <2> QED
      BY <1>4, <2>1, <2>2, <2>4
  <1>7. ASSUME Heartbeat(p)
        PROVE  \/ UNCHANGED opp /\ ~(StillOpen(p) /\ Current(p).lastObserved < at)
               \/ t.version \in Versions /\ Beat(t.slot, t.version, at)
    <2>1. Proposes(p) /\ t.row.status = "candidate" /\ t.version # 0
      BY <1>2, <1>7 DEF Heartbeat, SnapshotOpen, SnapshotSound, NoRow
    <2>2. t.version \in Versions
      BY <1>2, <2>1 DEF SnapshotSound
    <2>3. CASE StillOpen(p) /\ Current(p).lastObserved < at
      <3>1. Beat(t.slot, t.version, at)
        BY <1>2, <1>7, <2>1, <2>2, <2>3 DEF Heartbeat, StillOpen, Current, Beat
      <3> QED
        BY <2>2, <3>1
    <2>4. CASE ~(StillOpen(p) /\ Current(p).lastObserved < at)
      BY <1>7, <2>4 DEF Heartbeat
    <2> QED
      BY <2>3, <2>4
  <1>8. ASSUME Supersede(p)
        PROVE  t.version \in Versions /\ Replace(t.slot, t.version, d, at)
    <2>1. /\ Proposes(p) /\ t.row.status = "candidate" /\ t.version # 0
          /\ ~(at <= t.row.lastObserved) /\ d # t.row.decision
          /\ ~Exists(t.slot, t.version + 1)
          /\ opp[t.slot][t.version].status = "candidate"
      BY <1>2, <1>8 DEF Supersede, SnapshotOpen, SnapshotSound, NoRow, Stale, NeverSeen,
                        SameDecision, VersionFree, StillOpen, Current
    <2>2. at > t.row.lastObserved
      BY <1>2, <1>3, <2>1
    <2>3. t.row.decision = opp[t.slot][t.version].decision
      BY <1>2, <2>1 DEF SnapshotSound
    <2>4. opp' = [opp EXCEPT ![t.slot] =
                    [@ EXCEPT ![t.version + 1] = NewRow(d, at),
                              ![t.version] = Superseded(opp[t.slot][t.version],
                                                        t.version + 1, at)]]
      BY <1>8 DEF Supersede, Current
    <2>5. Replace(t.slot, t.version, d, at)
      BY <1>2, <1>4, <2>1, <2>2, <2>3, <2>4 DEF Replace
    <2> QED
      BY <1>4, <2>1, <2>2, <2>5
  <1>9. ASSUME Expire(p)
        PROVE  t.version \in Versions /\ Shut(t.slot, t.version, at)
    <2>1. t.version # 0 /\ opp[t.slot][t.version].status = "candidate"
      BY <1>2, <1>9 DEF Expire, SnapshotOpen, SnapshotSound, NoRow, StillOpen, Current
    <2>2. t.version \in Versions
      BY <1>2, <2>1 DEF SnapshotSound
    <2>3. Shut(t.slot, t.version, at)
      BY <1>2, <1>9, <2>1, <2>2 DEF Expire, Shut
    <2> QED
      BY <2>2, <2>3
  <1>10. ASSUME IgnoreStale(p) \/ NothingToClose(p) \/ CloseOvertaken(p)
         PROVE  UNCHANGED opp
    BY <1>10 DEF IgnoreStale, NothingToClose, CloseOvertaken
  <1> QED
    BY <1>1, <1>2, <1>5, <1>6, <1>7, <1>8, <1>9, <1>10

LEMMA WriteIsTableStep ==
  ASSUME IInv, NEW p \in Procs, Write(p)
  PROVE  TableStep
  <1>1. txn[p].slot \in Slots /\ At(p) \in 0..MaxTime
    BY WriteKinds
  <1>2. CASE CreateFirst(p) \/ Reopen(p)
    <2>1. ItemOf(p).decision \in Decisions /\ At(p) \in Times
      BY <1>2, WriteKinds DEF CreateFirst, Reopen
    <2> QED
      BY <1>1, <1>2, <2>1, WriteKinds DEF TableStep
  <1>3. CASE Supersede(p) \/ Heartbeat(p)
    <2>1. ItemOf(p).decision \in Decisions /\ At(p) \in Times
      BY <1>3, WriteKinds DEF Supersede, Heartbeat
    <2> QED
      BY <1>1, <1>3, <2>1, WriteKinds DEF TableStep
  <1>4. CASE Expire(p)
    BY <1>1, <1>4, WriteKinds DEF TableStep
  <1>5. CASE IgnoreStale(p) \/ NothingToClose(p) \/ CloseOvertaken(p)
    BY <1>5, WriteKinds DEF TableStep
  <1> QED
    BY <1>2, <1>3, <1>4, <1>5 DEF Write

LEMMA NextIsTableStep ==
  ASSUME IInv, [Next]_vars
  PROVE  TableStep
  <1>1. CASE UNCHANGED vars
    BY <1>1 DEF vars, TableStep
  <1>2. ASSUME NEW p \in Procs, Write(p)
        PROVE  TableStep
    BY <1>2, WriteIsTableStep
  <1>3. ASSUME NEW p \in Procs,
               \/ Begin(p) \/ RejectUnknownEvent(p) \/ ReadSlot(p) \/ Retry(p)
               \/ GiveUp(p) \/ ListAbsent(p) \/ Finish(p) \/ Abort(p)
        PROVE  TableStep
    BY <1>3 DEF Begin, RejectUnknownEvent, ReadSlot, Retry, GiveUp, ListAbsent, Finish,
                Abort, EndPass, TableStep
  <1> QED
    BY <1>1, <1>2, <1>3 DEF Next, PassStep

-----------------------------------------------------------------------------
(* The inductive invariant.                                                *)

LEMMA InitIInv == Init => IInv
  <1> SUFFICES ASSUME Init PROVE IInv
    OBVIOUS
  <1> USE BoundAssumption DEF Init
  <1>1. NoObservation \in Observation
    BY SlotAssumption DEF NoObservation, Observation, AbsentItem, Item
  <1>2. NoTxn \in Txn
    BY RowTypes DEF NoTxn, Txn
  <1>3. TypeOK
    BY <1>1, <1>2, RowTypes DEF TypeOK, Phases, NoOutcomes, SlotActions
  <1>4. \A s \in Slots : \A v \in Versions : opp[s][v] = NoRow
    OBVIOUS
  <1>5. \A s \in Slots : \A v \in Versions : ~Exists(s, v)
    BY <1>4 DEF Exists, NoRow
  <1>6. LifecycleInv
    BY <1>4, <1>5 DEF LifecycleInv, OnlyLatestCandidate, Contiguous, ChainLinked, NoRow
  <1>7. TableInv
    BY <1>3, <1>5, <1>6
    DEF TableInv, TableType, TypeOK, HasLatest, VersionsFitInTime, DecisionsKnown
  <1>8. SnapshotsSound
    BY DEF SnapshotsSound, NoTxn
  <1> QED
    BY <1>3, <1>7, <1>8 DEF IInv

\* How a step changes the transaction of any process.
LEMMA TxnSteps ==
  ASSUME IInv, [Next]_vars, NEW q \in Procs
  PROVE  \/ txn'[q] = txn[q]
         \/ txn'[q] = NoTxn
         \/ /\ opp' = opp
            /\ \E s \in Slots, n \in 0..MaxAttempts : txn'[q] = Snapshot(s, n)
  <1> USE DEF IInv, TypeOK
  <1>1. CASE UNCHANGED vars
    BY <1>1 DEF vars
  <1>2. ASSUME NEW p \in Procs, Write(p)
        PROVE  txn' = [txn EXCEPT ![p] = NoTxn]
    BY <1>2 DEF Write, CreateFirst, IgnoreStale, Reopen, Heartbeat, Supersede,
                NothingToClose, Expire, CloseOvertaken, Record
  <1>3. ASSUME NEW p \in Procs, GiveUp(p) \/ Finish(p) \/ Abort(p)
        PROVE  txn' = [txn EXCEPT ![p] = NoTxn]
    BY <1>3 DEF GiveUp, Finish, Abort, EndPass
  <1>4. ASSUME NEW p \in Procs, Begin(p) \/ RejectUnknownEvent(p) \/ ListAbsent(p)
        PROVE  txn' = txn
    BY <1>4 DEF Begin, RejectUnknownEvent, ListAbsent
  <1>5. ASSUME NEW p \in Procs, ReadSlot(p)
        PROVE  /\ opp' = opp
               /\ \E s \in Slots, n \in 0..MaxAttempts :
                    txn' = [txn EXCEPT ![p] = Snapshot(s, n)]
    <2>1. NextSlots(p) \subseteq Slots
      BY DEF NextSlots
    <2>2. 1 \in 0..MaxAttempts
      BY BoundAssumption
    <2> QED
      BY <1>5, <2>1, <2>2 DEF ReadSlot
  <1>6. ASSUME NEW p \in Procs, Retry(p)
        PROVE  /\ opp' = opp
               /\ \E s \in Slots, n \in 0..MaxAttempts :
                    txn' = [txn EXCEPT ![p] = Snapshot(s, n)]
    <2>1. InTxn(p) /\ txn[p].attempt < MaxAttempts
      BY <1>6 DEF Retry, Conflict
    <2>2. txn[p].slot \in Slots /\ txn[p].attempt + 1 \in 0..MaxAttempts
      BY <2>1, TxnFacts, BoundAssumption DEF Txn
    <2> QED
      BY <1>6, <2>2 DEF Retry
  <1> QED
    BY <1>1, <1>2, <1>3, <1>4, <1>5, <1>6 DEF Next, PassStep

LEMMA NextSnapshotsSound ==
  ASSUME IInv, [Next]_vars, TableInv', NEW q \in Procs, txn'[q].slot # NoSlot
  PROVE  SnapshotSound(txn[q])'
  <1>1. CASE txn'[q] = txn[q]
    <2>1. txn[q] \in Txn /\ SnapshotSound(txn[q]) /\ TableInv
      BY <1>1 DEF IInv, TypeOK, SnapshotsSound
    <2> QED
      BY <1>1, <2>1, NextIsTableStep, SnapshotStaysSound
  <1>2. CASE txn'[q] # txn[q]
    <2>1. /\ opp' = opp
          /\ \E s \in Slots, n \in 0..MaxAttempts : txn'[q] = Snapshot(s, n)
      BY <1>2, TxnSteps DEF NoTxn
    <2>2. PICK s \in Slots, n \in 0..MaxAttempts : txn'[q] = Snapshot(s, n)
      BY <2>1
    <2>3. SnapshotSound(Snapshot(s, n))
      BY SnapshotFacts DEF IInv
    <2> QED
      BY <2>1, <2>2, <2>3 DEF SnapshotSound, Exists
  <1> QED
    BY <1>1, <1>2

LEMMA NextTypes ==
  ASSUME IInv, [Next]_vars, TableInv'
  PROVE  TypeOK'
  <1> USE DEF IInv, TypeOK
  <1>1. opp' \in [Slots -> [Versions -> Row]]
    BY DEF TableInv, TableType
  <1>2. NoTxn \in Txn /\ NoObservation \in Observation /\ NoOutcomes \in [Slots -> SlotActions]
    BY RowTypes, SlotAssumption, BoundAssumption
    DEF NoTxn, Txn, NoObservation, Observation, AbsentItem, Item, NoOutcomes, SlotActions
  <1>3. ASSUME NEW p \in Procs, Write(p)
        PROVE  TypeOK'
    <2>1. PICK action \in SlotActions : Record(p, action)
      BY <1>3 DEF Write, CreateFirst, IgnoreStale, Reopen, Heartbeat, Supersede,
                  NothingToClose, Expire, CloseOvertaken, SlotActions
    <2>2. InTxn(p)
      BY <1>3 DEF Write, CreateFirst, IgnoreStale, Reopen, Heartbeat, Supersede,
                  NothingToClose, Expire, CloseOvertaken
    <2>3. txn[p].slot \in Slots
      BY <2>2, TxnFacts
    <2> QED
      BY <1>1, <1>2, <2>1, <2>3 DEF Record
  <1>4. ASSUME NEW p \in Procs, GiveUp(p) \/ Finish(p) \/ Abort(p)
        PROVE  TypeOK'
    <2>1. PICK phase \in Phases : EndPass(p, phase)
      BY <1>4 DEF GiveUp, Finish, Abort, Phases
    <2> QED
      BY <1>1, <1>2, <2>1 DEF EndPass
  <1>5. ASSUME NEW p \in Procs, ReadSlot(p) \/ Retry(p)
        PROVE  TypeOK'
    <2>1. txn' \in [Procs -> Txn]
      <3>1. CASE ReadSlot(p)
        <4>1. NextSlots(p) \subseteq Slots /\ 1 \in 0..MaxAttempts
          BY BoundAssumption DEF NextSlots
        <4> QED
          BY <3>1, <4>1, SnapshotFacts DEF ReadSlot
      <3>2. CASE Retry(p)
        <4>1. InTxn(p) /\ txn[p].attempt < MaxAttempts
          BY <3>2 DEF Retry, Conflict
        <4>2. txn[p].slot \in Slots /\ txn[p].attempt + 1 \in 0..MaxAttempts
          BY <4>1, TxnFacts, BoundAssumption DEF Txn
        <4>3. Snapshot(txn[p].slot, txn[p].attempt + 1) \in Txn
          BY <4>2, SnapshotFacts
        <4> QED
          BY <3>2, <4>3 DEF Retry
      <3> QED
        BY <1>5, <3>1, <3>2
    <2> QED
      BY <1>1, <1>5, <2>1 DEF ReadSlot, Retry
  <1>6. ASSUME NEW p \in Procs, Begin(p) \/ RejectUnknownEvent(p) \/ ListAbsent(p)
        PROVE  TypeOK'
    <2>1. CASE Begin(p)
      BY <1>1, <2>1, IdentifiedIsObservation DEF Begin, SeenSlots, Phases
    <2>2. CASE RejectUnknownEvent(p)
      BY <1>1, <1>2, <2>2 DEF RejectUnknownEvent, Phases
    <2>3. CASE ListAbsent(p)
      <3>1. AbsentSlots(pass[p].obs) \subseteq Slots
        BY DEF AbsentSlots, StoredSlots
      <3> QED
        BY <1>1, <2>3, <3>1 DEF ListAbsent, Phases
    <2> QED
      BY <1>6, <2>1, <2>2, <2>3
  <1>7. CASE UNCHANGED vars
    BY <1>1, <1>7 DEF vars
  <1> QED
    BY <1>3, <1>4, <1>5, <1>6, <1>7 DEF Next, PassStep

LEMMA NextIInv == IInv /\ [Next]_vars => IInv'
  <1> SUFFICES ASSUME IInv, [Next]_vars PROVE IInv'
    OBVIOUS
  <1>1. TableInv'
    BY NextIsTableStep, TableStepPreserves DEF IInv
  <1>2. TypeOK'
    BY <1>1, NextTypes
  <1>3. SnapshotsSound'
    BY <1>1, NextSnapshotsSound DEF SnapshotsSound
  <1> QED
    BY <1>1, <1>2, <1>3 DEF IInv

-----------------------------------------------------------------------------
(* Refinement of SlotBook.                                                 *)

\* LatestVersion(s) is the latest version of s and the only one.
LatestOK(s) ==
  /\ LatestVersion(s) = 0 => \A v \in Versions : ~Exists(s, v)
  /\ LatestVersion(s) # 0 => LatestVersion(s) \in Versions /\ IsLatest(s, LatestVersion(s))
  /\ \A v \in Versions : IsLatest(s, v) => LatestVersion(s) = v

LEMMA LatestIsOK == TableInv => \A s \in Slots : LatestOK(s)
  BY LatestFacts DEF LatestOK

LEMMA LatestStaysOK == TableInv' => (\A s \in Slots : LatestOK(s))'
  BY LatestIsOK, PTL

\* A slot where no version appeared keeps its latest version.
LEMMA SameLatest ==
  ASSUME TableInv, TableInv', NEW s \in Slots,
         \A v \in Versions : Exists(s, v)' <=> Exists(s, v)
  PROVE  LatestVersion(s)' = LatestVersion(s)
  <1>1. LatestOK(s) /\ LatestOK(s)'
    BY LatestIsOK, LatestStaysOK
  <1>2. \A v \in Versions : IsLatest(s, v)' <=> IsLatest(s, v)
    BY DEF IsLatest
  <1>3. CASE LatestVersion(s) = 0
    BY <1>1, <1>3 DEF LatestOK, IsLatest
  <1>4. CASE LatestVersion(s) # 0
    BY <1>1, <1>2, <1>4 DEF LatestOK
  <1> QED
    BY <1>3, <1>4

\* A slot whose rows did not change has the latest row it had.
LEMMA SameSlot ==
  ASSUME TableInv, TableInv', NEW s \in Slots, \A v \in Versions : opp'[s][v] = opp[s][v]
  PROVE  LatestVersion(s)' = LatestVersion(s) /\ LatestRow(s)' = LatestRow(s)
  <1>1. LatestVersion(s)' = LatestVersion(s)
    BY SameLatest DEF Exists
  <1>2. LatestVersion(s) # 0 => LatestVersion(s) \in Versions
    BY LatestFacts
  <1> QED
    BY <1>1, <1>2 DEF LatestRow

\* The row a change of the table leaves as the latest one of its slot; the other
\* slots keep theirs.
LEMMA InsertLatest ==
  ASSUME TableInv, TableInv', NEW s \in Slots, NEW v \in Versions, NEW d \in Decisions,
         NEW at \in Times, Insert(s, v, d, at)
  PROVE  /\ LatestVersion(s)' = v /\ LatestRow(s)' = NewRow(d, at)
         /\ \A r \in Slots \ {s} :
              LatestVersion(r)' = LatestVersion(r) /\ LatestRow(r)' = LatestRow(r)
  <1> USE BoundAssumption DEF Versions
  <1>1. \A r \in Slots, w \in Versions :
          opp'[r][w] = IF r = s /\ w = v THEN NewRow(d, at) ELSE opp[r][w]
    BY InsertRows DEF TableInv
  <1>2. \A w \in Versions : w > v => ~Exists(s, w)'
    <2>1. \A w \in Versions : w >= v => ~Exists(s, w)
      BY DEF Insert, TableInv, LifecycleInv, Contiguous
    <2> QED
      BY <1>1, <2>1 DEF Exists
  <1>3. opp'[s][v] = NewRow(d, at)
    BY <1>1
  <1>4. IsLatest(s, v)'
    BY <1>2, <1>3 DEF IsLatest, Exists, NewRow
  <1>5. LatestVersion(s)' = v
    BY <1>4, LatestStaysOK DEF LatestOK
  <1>6. LatestRow(s)' = NewRow(d, at)
    BY <1>3, <1>5 DEF LatestRow
  <1>7. \A r \in Slots \ {s} :
          LatestVersion(r)' = LatestVersion(r) /\ LatestRow(r)' = LatestRow(r)
    BY <1>1, SameSlot
  <1> QED
    BY <1>5, <1>6, <1>7

LEMMA ReplaceLatest ==
  ASSUME TableInv, TableInv', NEW s \in Slots, NEW v \in Versions, NEW d \in Decisions,
         NEW at \in Times, Replace(s, v, d, at)
  PROVE  /\ LatestVersion(s)' = v + 1 /\ LatestRow(s)' = NewRow(d, at)
         /\ \A r \in Slots \ {s} :
              LatestVersion(r)' = LatestVersion(r) /\ LatestRow(r)' = LatestRow(r)
  <1> USE BoundAssumption DEF Versions
  <1>1. \A r \in Slots, w \in Versions :
          opp'[r][w] = IF r = s /\ w = v + 1 THEN NewRow(d, at)
                       ELSE IF r = s /\ w = v THEN Superseded(opp[s][v], v + 1, at)
                       ELSE opp[r][w]
    BY ReplaceRows DEF TableInv
  <1>2. v + 1 \in Versions /\ opp[s][v].status = "candidate"
    BY DEF Replace
  <1>3. \A w \in Versions : w > v + 1 => ~Exists(s, w)'
    <2>1. \A w \in Versions : w > v => ~Exists(s, w)
      BY <1>2 DEF TableInv, LifecycleInv, OnlyLatestCandidate
    <2> QED
      BY <1>1, <2>1 DEF Exists
  <1>4. opp'[s][v + 1] = NewRow(d, at)
    BY <1>1, <1>2
  <1>5. IsLatest(s, v + 1)'
    BY <1>3, <1>4 DEF IsLatest, Exists, NewRow
  <1>6. LatestVersion(s)' = v + 1
    BY <1>2, <1>5, LatestStaysOK DEF LatestOK
  <1>7. LatestRow(s)' = NewRow(d, at)
    BY <1>4, <1>6 DEF LatestRow
  <1>8. \A r \in Slots \ {s} :
          LatestVersion(r)' = LatestVersion(r) /\ LatestRow(r)' = LatestRow(r)
    BY <1>1, SameSlot
  <1> QED
    BY <1>6, <1>7, <1>8

\* Beat and Shut: the row changed in place is the latest one, and stays it.
LEMMA UpdateLatest ==
  ASSUME TableInv, TableInv', NEW s \in Slots, NEW v \in Versions, NEW row \in Row,
         opp[s][v].status = "candidate", row.status # "none",
         \A r \in Slots, w \in Versions :
           opp'[r][w] = IF r = s /\ w = v THEN row ELSE opp[r][w]
  PROVE  /\ LatestVersion(s) = v /\ LatestVersion(s)' = v /\ v # 0
         /\ LatestRow(s) = opp[s][v] /\ LatestRow(s)' = row
         /\ \A r \in Slots \ {s} :
              LatestVersion(r)' = LatestVersion(r) /\ LatestRow(r)' = LatestRow(r)
  <1>1. \A w \in Versions : Exists(s, w)' <=> Exists(s, w)
    BY DEF Exists
  <1>2. IsLatest(s, v)
    BY DEF TableInv, LifecycleInv, OnlyLatestCandidate, IsLatest, Exists
  <1>3. LatestVersion(s) = v /\ LatestVersion(s)' = v /\ v # 0
    BY <1>1, <1>2, LatestFacts, SameLatest, BoundAssumption DEF Versions
  <1>4. LatestRow(s) = opp[s][v] /\ LatestRow(s)' = row
    BY <1>3 DEF LatestRow
  <1>5. \A r \in Slots \ {s} :
          LatestVersion(r)' = LatestVersion(r) /\ LatestRow(r)' = LatestRow(r)
    BY SameSlot
  <1> QED
    BY <1>3, <1>4, <1>5

LEMMA InsertRefines ==
  ASSUME TableInv, TableInv', NEW s \in Slots, NEW v \in Versions, NEW d \in Decisions,
         NEW at \in Times, Insert(s, v, d, at)
  PROVE  Book!Next
  <1> USE BoundAssumption DEF Versions
  <1>1. \A w \in Versions : w >= v => ~Exists(s, w)
    BY DEF Insert, TableInv, LifecycleInv, Contiguous
  <1>2. LatestVersion(s) = v - 1 /\ Offer(s) = NoDecision
    <2>1. CASE v = 1
      <3>1. \A w \in Versions : ~Exists(s, w)
        BY <2>1, <1>1
      <3>2. LatestVersion(s) = 0
        BY <3>1 DEF LatestVersion
      <3> QED
        BY <2>1, <3>2 DEF Offer, LatestRow, NoRow
    <2>2. CASE v # 1
      <3>1. v - 1 \in Versions /\ opp[s][v - 1].status = "expired"
        BY <2>2 DEF Insert
      <3>2. IsLatest(s, v - 1)
        BY <3>1, <1>1 DEF IsLatest, Exists
      <3>3. LatestVersion(s) = v - 1
        BY <3>1, <3>2, LatestFacts
      <3> QED
        BY <3>1, <3>3 DEF Offer, LatestRow
    <2> QED
      BY <2>1, <2>2
  <1>3. LatestVersion(s)' = v /\ Offer(s)' = d
    BY InsertLatest DEF Offer, NewRow
  <1>4. \A r \in Slots \ {s} : LatestVersion(r)' = LatestVersion(r) /\ Offer(r)' = Offer(r)
    BY InsertLatest DEF Offer
  <1>5. Book!Open(s, d)
    <2>1. \A r \in Slots :
            LatestVersion(r)' = IF r = s THEN LatestVersion(s) + 1 ELSE LatestVersion(r)
      BY <1>2, <1>3, <1>4
    <2>2. \A r \in Slots : Offer(r)' = IF r = s THEN d ELSE Offer(r)
      BY <1>2, <1>3, <1>4
    <2>3. [r \in Slots |-> LatestVersion(r)]' =
            [[r \in Slots |-> LatestVersion(r)] EXCEPT ![s] = @ + 1]
      BY <2>1
    <2>4. [r \in Slots |-> Offer(r)]' = [[r \in Slots |-> Offer(r)] EXCEPT ![s] = d]
      BY <2>2
    <2> QED
      BY <1>2, <2>3, <2>4 DEF Book!Open, Book!NextVersion
  <1> QED
    BY <1>5 DEF Book!Next

LEMMA ReplaceRefines ==
  ASSUME TableInv, TableInv', NEW s \in Slots, NEW v \in Versions, NEW d \in Decisions,
         NEW at \in Times, Replace(s, v, d, at)
  PROVE  Book!Next
  <1> USE BoundAssumption DEF Versions
  <1>1. /\ v + 1 \in Versions /\ opp[s][v].status = "candidate" /\ opp[s][v].decision # d
    BY DEF Replace
  <1>2. \A w \in Versions : w > v => ~Exists(s, w)
    BY <1>1 DEF TableInv, LifecycleInv, OnlyLatestCandidate
  <1>3. LatestVersion(s) = v /\ Offer(s) = opp[s][v].decision /\ opp[s][v].decision # NoDecision
    <2>1. IsLatest(s, v)
      BY <1>1, <1>2 DEF IsLatest, Exists
    <2>2. LatestVersion(s) = v
      BY <2>1, LatestFacts
    <2>3. opp[s][v].decision \in Decisions
      BY <1>1 DEF TableInv, DecisionsKnown, Exists
    <2> QED
      BY <1>1, <2>2, <2>3, SlotAssumption DEF Offer, LatestRow
  <1>4. LatestVersion(s)' = v + 1 /\ Offer(s)' = d
    BY ReplaceLatest DEF Offer, NewRow
  <1>5. \A r \in Slots \ {s} : LatestVersion(r)' = LatestVersion(r) /\ Offer(r)' = Offer(r)
    BY ReplaceLatest DEF Offer
  <1>6. Book!Reprice(s, d)
    <2>1. \A r \in Slots :
            LatestVersion(r)' = IF r = s THEN LatestVersion(s) + 1 ELSE LatestVersion(r)
      BY <1>3, <1>4, <1>5
    <2>2. \A r \in Slots : Offer(r)' = IF r = s THEN d ELSE Offer(r)
      BY <1>3, <1>4, <1>5
    <2>3. [r \in Slots |-> LatestVersion(r)]' =
            [[r \in Slots |-> LatestVersion(r)] EXCEPT ![s] = @ + 1]
      BY <2>1
    <2>4. [r \in Slots |-> Offer(r)]' = [[r \in Slots |-> Offer(r)] EXCEPT ![s] = d]
      BY <2>2
    <2> QED
      BY <1>1, <1>3, <2>3, <2>4 DEF Book!Reprice, Book!NextVersion
  <1> QED
    BY <1>6 DEF Book!Next

LEMMA BeatRefines ==
  ASSUME TableInv, TableInv', NEW s \in Slots, NEW v \in Versions, NEW at \in Times,
         Beat(s, v, at)
  PROVE  UNCHANGED <<[r \in Slots |-> LatestVersion(r)], [r \in Slots |-> Offer(r)]>>
  <1>1. \A r \in Slots, w \in Versions :
          opp'[r][w] = IF r = s /\ w = v
                         THEN [opp[s][v] EXCEPT !.lastObserved = at] ELSE opp[r][w]
    BY BeatRows DEF TableInv
  <1>2. \A r \in Slots, w \in Versions : opp[r][w] \in Row
    BY DEF TableInv, TableType
  <1>3. \A r \in Slots, w \in Versions :
          opp'[r][w].status = opp[r][w].status /\ opp'[r][w].decision = opp[r][w].decision
    BY <1>1, <1>2 DEF Row
  <1>4. \A r \in Slots : LatestVersion(r)' = LatestVersion(r)
    BY <1>3, SameLatest DEF Exists
  <1>5. \A r \in Slots : Offer(r)' = Offer(r)
    BY <1>3, <1>4, LatestFacts DEF Offer, LatestRow
  <1> QED
    BY <1>4, <1>5

LEMMA ShutRefines ==
  ASSUME TableInv, TableInv', NEW s \in Slots, NEW v \in Versions, NEW at \in 0..MaxTime,
         Shut(s, v, at)
  PROVE  Book!Next
  <1>1. \A r \in Slots, w \in Versions :
          opp'[r][w] = IF r = s /\ w = v THEN Expired(opp[s][v], at) ELSE opp[r][w]
    BY ShutRows DEF TableInv
  <1>2. opp[s][v] \in Row /\ opp[s][v].status = "candidate"
    BY DEF Shut, TableInv, TableType
  <1>3. Expired(opp[s][v], at) \in Row /\ Expired(opp[s][v], at).status = "expired"
    BY <1>2, RowTypes DEF Expired, Row
  <1>4. /\ LatestVersion(s) = v /\ LatestVersion(s)' = v /\ v # 0
        /\ LatestRow(s) = opp[s][v] /\ LatestRow(s)' = Expired(opp[s][v], at)
        /\ \A r \in Slots \ {s} :
             LatestVersion(r)' = LatestVersion(r) /\ LatestRow(r)' = LatestRow(r)
    BY <1>1, <1>2, <1>3, UpdateLatest
  <1>5. Offer(s) # NoDecision /\ Offer(s)' = NoDecision
    <2>1. opp[s][v].decision \in Decisions
      BY <1>2 DEF TableInv, DecisionsKnown, Exists
    <2> QED
      BY <1>2, <1>3, <1>4, <2>1, SlotAssumption DEF Offer
  <1>6. \A r \in Slots \ {s} : LatestVersion(r)' = LatestVersion(r) /\ Offer(r)' = Offer(r)
    BY <1>4 DEF Offer
  <1>7. Book!Close(s)
    BY <1>4, <1>5, <1>6 DEF Book!Close
  <1> QED
    BY <1>7 DEF Book!Next

-----------------------------------------------------------------------------
(* A pass that runs alone.                                                 *)

\* What a slot's latest row owes to what a pass saw of it and did about it.
Reflects(row, item, at, action) ==
  /\ item.kind = "candidate" => row.lastObserved >= item.at
  /\ action \in {"created", "new_version", "heartbeat"} =>
       row.status = "candidate" /\ row.decision = item.decision /\ row.lastObserved = item.at
  /\ item.kind # "candidate" /\ row.status = "candidate" => row.lastObserved >= at

\* What a transaction read is what is there.
SnapshotCurrent(p) ==
  \A s \in Slots : txn[p].slot = s =>
    txn[p].version = LatestVersion(s) /\ txn[p].row = LatestRow(s)

\* The slots left to process, and what is already true of the others.
PassOnCourse(p) ==
  LET todo == pass[p].todo
      seen == SeenSlots(pass[p].obs)
  IN /\ InTxn(p) => Active(p) /\ txn[p].slot \in todo
     /\ ~Active(p) => outcomes[p] = NoOutcomes
     /\ Active(p) => todo \subseteq StoredSlots /\ seen \subseteq StoredSlots
     /\ pass[p].phase = "observed" =>
          todo \subseteq seen /\ \A s \in Slots \ seen : outcomes[p][s] = "none"
     /\ pass[p].phase = "absent" => todo \cap seen = {}
     /\ \A s \in Slots \ todo :
          Active(p) /\ (s \in seen \/ (pass[p].phase = "absent" /\ s \in StoredSlots
                                         /\ pass[p].obs.evaluated[EventOf[s]] # 0))
            => Settled(p, s)

LoneInv == IInv /\ \A p \in Procs : SnapshotCurrent(p) /\ PassOnCourse(p)

LEMMA LatestRowFacts ==
  ASSUME TableInv, NEW s \in Slots
  PROVE  /\ LatestRow(s) \in Row /\ LatestRow(s).lastObserved \in Nat
         /\ LatestVersion(s) = 0 => LatestRow(s) = NoRow
         /\ LatestVersion(s) # 0 => /\ LatestVersion(s) \in Versions
                                    /\ LatestRow(s) = opp[s][LatestVersion(s)]
  <1>1. LatestVersion(s) # 0 => LatestVersion(s) \in Versions
    BY LatestFacts
  <1>2. /\ LatestVersion(s) = 0 => LatestRow(s) = NoRow
        /\ LatestVersion(s) # 0 => LatestRow(s) = opp[s][LatestVersion(s)]
    BY DEF LatestRow
  <1>3. LatestRow(s) \in Row
    BY <1>1, <1>2, RowTypes DEF TableInv, TableType
  <1>4. LatestRow(s).lastObserved \in Nat
    BY <1>3, BoundAssumption DEF Row
  <1> QED
    BY <1>1, <1>2, <1>3, <1>4

\* What a write of a pass that runs alone makes of its slot, and of no other.
LEMMA LoneWrite ==
  ASSUME IInv, IInv', NEW p \in Procs, Write(p), SnapshotCurrent(p),
         NEW s \in Slots, txn[p].slot = s
  PROVE  /\ \E action \in SlotActions \ {"none"} :
              Record(p, action) /\ Reflects(LatestRow(s)', ItemOf(p), At(p), action)
         /\ \A r \in Slots \ {s} : LatestRow(r)' = LatestRow(r)
         /\ At(p) <= LatestRow(s).lastObserved => opp' = opp
  <1> DEFINE t == txn[p]
             at == At(p)
             d == ItemOf(p).decision
             Goal == /\ \E action \in SlotActions \ {"none"} :
                          Record(p, action) /\ Reflects(LatestRow(s)', ItemOf(p), at, action)
                     /\ \A r \in Slots \ {s} : LatestRow(r)' = LatestRow(r)
                     /\ at <= LatestRow(s).lastObserved => opp' = opp
  <1>1. /\ t.version = LatestVersion(s) /\ t.row = LatestRow(s)
        /\ LatestRow(s) \in Row /\ LatestRow(s).lastObserved \in Nat
        /\ LatestVersion(s) = 0 => LatestRow(s) = NoRow
        /\ LatestVersion(s) # 0 => /\ LatestVersion(s) \in Versions
                                   /\ LatestRow(s) = opp[s][LatestVersion(s)]
    BY WriteKinds, LatestRowFacts DEF SnapshotCurrent, IInv
  <1>2. /\ at \in 0..MaxTime /\ at \in Nat
        /\ Proposes(p) => d \in Decisions /\ at \in Times /\ ItemOf(p).at = at
        /\ Proposes(p) <=> ItemOf(p).kind = "candidate"
    <2>1. at \in 0..MaxTime /\ (Proposes(p) => d \in Decisions /\ at \in Times)
      BY WriteKinds
    <2>2. Proposes(p) <=> ItemOf(p).kind = "candidate"
      BY DEF Proposes
    <2>3. Proposes(p) => ItemOf(p).at = at
      BY DEF Proposes, At, ObservedAt, ItemOf
    <2> QED
      BY <2>1, <2>2, <2>3, BoundAssumption
  <1>3. TableInv /\ TableInv'
    BY DEF IInv
  <1>4. NewRow(d, at).status = "candidate" /\ NewRow(d, at).decision = d
          /\ NewRow(d, at).lastObserved = at /\ at >= at
    BY <1>2 DEF NewRow
  <1>5. opp' = opp => \A r \in Slots : LatestRow(r)' = LatestRow(r)
    BY <1>3, SameSlot
  <1>6. CASE CreateFirst(p)
    <2>1. Proposes(p) /\ Record(p, "created") /\ LatestVersion(s) = 0
      BY <1>1, <1>6 DEF CreateFirst, NeverSeen
    <2>2. 1 \in Versions /\ Insert(s, 1, d, at)
      BY <1>6, WriteKinds
    <2>3. LatestRow(s)' = NewRow(d, at) /\ \A r \in Slots \ {s} : LatestRow(r)' = LatestRow(r)
      BY <1>2, <1>3, <2>1, <2>2, InsertLatest
    <2>4. Reflects(LatestRow(s)', ItemOf(p), at, "created")
      BY <1>2, <1>4, <2>1, <2>3 DEF Reflects
    <2>5. ~(at <= LatestRow(s).lastObserved)
      BY <1>1, <1>2, <2>1 DEF NoRow, Times
    <2> QED
      BY <2>1, <2>3, <2>4, <2>5 DEF SlotActions
  <1>7. CASE Reopen(p)
    <2>1. Proposes(p) /\ Record(p, "new_version") /\ ~(at <= LatestRow(s).lastObserved)
      BY <1>1, <1>7 DEF Reopen, Stale
    <2>2. t.version + 1 \in Versions /\ Insert(s, t.version + 1, d, at)
      BY <1>7, WriteKinds
    <2>3. LatestRow(s)' = NewRow(d, at) /\ \A r \in Slots \ {s} : LatestRow(r)' = LatestRow(r)
      BY <1>2, <1>3, <2>1, <2>2, InsertLatest
    <2>4. Reflects(LatestRow(s)', ItemOf(p), at, "new_version")
      BY <1>2, <1>4, <2>1, <2>3 DEF Reflects
    <2> QED
      BY <2>1, <2>3, <2>4 DEF SlotActions
  <1>8. CASE Supersede(p)
    <2>1. Proposes(p) /\ Record(p, "new_version") /\ t.version # 0
      BY <1>1, <1>8 DEF Supersede, SnapshotOpen, NoRow
    <2>2. ~(at <= LatestRow(s).lastObserved)
      BY <1>1, <1>8, <2>1 DEF Supersede, Stale, NeverSeen
    <2>3. t.version \in Versions /\ Replace(s, t.version, d, at)
      BY <1>8, WriteKinds
    <2>4. LatestRow(s)' = NewRow(d, at) /\ \A r \in Slots \ {s} : LatestRow(r)' = LatestRow(r)
      BY <1>2, <1>3, <2>1, <2>3, ReplaceLatest
    <2>5. Reflects(LatestRow(s)', ItemOf(p), at, "new_version")
      BY <1>2, <1>4, <2>1, <2>4 DEF Reflects
    <2> QED
      BY <2>1, <2>2, <2>4, <2>5 DEF SlotActions
  <1>9. CASE Heartbeat(p)
    <2>1. /\ Proposes(p) /\ Record(p, "heartbeat") /\ t.version # 0
          /\ LatestRow(s).status = "candidate" /\ LatestRow(s).decision = d
      BY <1>1, <1>9 DEF Heartbeat, SnapshotOpen, SameDecision, NoRow
    <2>2. at > LatestRow(s).lastObserved
      BY <1>1, <1>2, <1>9, <2>1 DEF Heartbeat, Stale, NeverSeen
    <2>3. LatestRow(s) = opp[s][t.version] /\ Current(p) = opp[s][t.version]
      BY <1>1, <2>1 DEF Current
    <2>4. t.version \in Versions /\ Beat(s, t.version, at)
      BY <1>9, <2>1, <2>2, <2>3, WriteKinds DEF StillOpen
    <2>5. PICK row : row = [opp[s][t.version] EXCEPT !.lastObserved = at]
      OBVIOUS
    <2>6. /\ row \in Row /\ row.status = "candidate" /\ row.decision = d
          /\ row.lastObserved = at
      BY <1>1, <1>2, <2>1, <2>3, <2>5 DEF Row
    <2>7. \A r \in Slots, w \in Versions :
            opp'[r][w] = IF r = s /\ w = t.version THEN row ELSE opp[r][w]
      BY <1>3, <2>4, <2>5, BeatRows DEF TableInv
    <2>8. LatestRow(s)' = row /\ \A r \in Slots \ {s} : LatestRow(r)' = LatestRow(r)
      BY <1>3, <2>1, <2>3, <2>4, <2>6, <2>7, UpdateLatest
    <2>9. Reflects(LatestRow(s)', ItemOf(p), at, "heartbeat")
      BY <1>2, <1>4, <2>1, <2>6, <2>8 DEF Reflects
    <2> QED
      BY <1>1, <1>2, <2>1, <2>2, <2>8, <2>9 DEF SlotActions
  <1>10. CASE Expire(p)
    <2>1. /\ ~Proposes(p) /\ Record(p, "expired") /\ t.version # 0
          /\ LatestRow(s).status = "candidate"
      BY <1>1, <1>10 DEF Expire, SnapshotOpen, NoRow
    <2>2. ~(at <= LatestRow(s).lastObserved)
      BY <1>1, <1>10, <2>1 DEF Expire, Stale, NeverSeen
    <2>3. LatestRow(s) = opp[s][t.version] /\ t.version \in Versions /\ Shut(s, t.version, at)
      BY <1>1, <1>10, <2>1, WriteKinds
    <2>4. PICK row : row = Expired(opp[s][t.version], at)
      OBVIOUS
    <2>5. row \in Row /\ row.status = "expired"
      <3>1. opp[s][t.version] \in Row /\ at \in 0..MaxTime
        BY <1>1, <1>2, <2>3
      <3>2. row \in Row
        BY <3>1, <2>4, RowTypes
      <3>3. opp[s][t.version] = [opp[s][t.version] EXCEPT !.status = @]
        BY <3>1 DEF Row
      <3> QED
        BY <3>1, <3>2, <2>4 DEF Expired, Row
    <2>6. \A r \in Slots, w \in Versions :
            opp'[r][w] = IF r = s /\ w = t.version THEN row ELSE opp[r][w]
      BY <1>3, <2>3, <2>4, ShutRows DEF TableInv
    <2>7. LatestRow(s)' = row /\ \A r \in Slots \ {s} : LatestRow(r)' = LatestRow(r)
      BY <1>3, <2>1, <2>3, <2>5, <2>6, UpdateLatest
    <2>8. Reflects(LatestRow(s)', ItemOf(p), at, "expired")
      BY <1>2, <2>1, <2>5, <2>7 DEF Reflects
    <2> QED
      BY <2>1, <2>2, <2>7, <2>8 DEF SlotActions
  <1>11. CASE IgnoreStale(p)
    <2>1. Record(p, "ignored_stale") /\ opp' = opp /\ at <= LatestRow(s).lastObserved
      BY <1>1, <1>11 DEF IgnoreStale, Stale
    <2>2. LatestRow(s).lastObserved >= at
      BY <1>1, <1>2, <2>1
    <2>3. Reflects(LatestRow(s)', ItemOf(p), at, "ignored_stale")
      BY <1>2, <1>5, <2>1, <2>2 DEF Reflects
    <2> QED
      BY <1>5, <2>1, <2>3 DEF SlotActions
  <1>12. CASE NothingToClose(p)
    <2>1. /\ Record(p, "noop") /\ opp' = opp
          /\ ~Proposes(p) /\ LatestRow(s).status # "candidate"
      BY <1>1, <1>12 DEF NothingToClose, SnapshotOpen
    <2>2. Reflects(LatestRow(s)', ItemOf(p), at, "noop")
      BY <1>2, <1>5, <2>1 DEF Reflects
    <2> QED
      BY <1>5, <2>1, <2>2 DEF SlotActions
  <1>13. CASE CloseOvertaken(p)
    <2>1. t.row.status = "candidate" /\ opp[s][t.version].status # "candidate"
      BY <1>13 DEF CloseOvertaken, SnapshotOpen, StillOpen, Current
    <2>2. t.version # 0
      BY <1>1, <2>1 DEF NoRow
    <2> QED
      BY <1>1, <2>1, <2>2
  <1> HIDE DEF Goal
  <1> QED
    BY <1>6, <1>7, <1>8, <1>9, <1>10, <1>11, <1>12, <1>13 DEF Write, Goal

LEMMA LoneTypes ==
  ASSUME TypeOK, NEW p \in Procs
  PROVE  /\ pass \in [Procs -> [phase: Phases, obs: Observation, todo: SUBSET Slots]]
         /\ txn \in [Procs -> Txn] /\ txn[p].slot \in Slots \cup {NoSlot}
         /\ outcomes \in [Procs -> [Slots -> SlotActions]]
  BY DEF TypeOK, Txn

\* A pass that is over satisfies all of it.
LEMMA LoneEnd ==
  ASSUME TypeOK, NEW p \in Procs, NEW phase \in {"idle", "failed"}, EndPass(p, phase)
  PROVE  SnapshotCurrent(p)' /\ PassOnCourse(p)'
  <1>1. /\ pass'[p] = [phase |-> phase, obs |-> NoObservation, todo |-> {}]
        /\ txn'[p] = NoTxn /\ outcomes'[p] = NoOutcomes
    BY LoneTypes DEF EndPass
  <1>2. ~Active(p)' /\ ~InTxn(p)' /\ \A s \in Slots : txn'[p].slot # s
    BY <1>1, SlotAssumption DEF Active, InTxn, NoTxn
  <1>3. pass'[p].phase # "observed" /\ pass'[p].phase # "absent"
    BY <1>1
  <1> QED
    BY <1>1, <1>2, <1>3 DEF SnapshotCurrent, PassOnCourse

LEMMA LoneBegin ==
  ASSUME TypeOK, NEW p \in Procs, Begin(p), PassOnCourse(p)
  PROVE  SnapshotCurrent(p)' /\ PassOnCourse(p)'
  <1>1. PICK o \in Observation :
          pass' = [pass EXCEPT ![p] = [phase |-> "observed", obs |-> Identified(o),
                                       todo |-> SeenSlots(Identified(o))]]
    BY DEF Begin
  <1>2. /\ ~Active(p) /\ ~InTxn(p) /\ outcomes[p] = NoOutcomes
        /\ txn' = txn /\ outcomes' = outcomes
    BY DEF Begin, PassOnCourse
  <1>3. PICK i : i = Identified(o)
    OBVIOUS
  <1>4. pass'[p].phase = "observed" /\ pass'[p].obs = i /\ pass'[p].todo = SeenSlots(i)
    BY <1>1, <1>3, LoneTypes
  <1>5. SeenSlots(i) \subseteq StoredSlots /\ SeenSlots(i) \subseteq Slots
    BY <1>3 DEF SeenSlots, StoredSlots, Identified, AbsentItem
  <1>6. ~InTxn(p)' /\ \A s \in Slots : txn'[p].slot # s
    BY <1>2, SlotAssumption DEF InTxn
  <1>7. \A s \in Slots : outcomes'[p][s] = "none"
    BY <1>2 DEF NoOutcomes
  <1> QED
    BY <1>4, <1>5, <1>6, <1>7 DEF SnapshotCurrent, PassOnCourse, Active

LEMMA LoneReject ==
  ASSUME TypeOK, NEW p \in Procs, RejectUnknownEvent(p), PassOnCourse(p)
  PROVE  SnapshotCurrent(p)' /\ PassOnCourse(p)'
  <1>1. /\ pass'[p].phase = "failed" /\ pass'[p].todo = {}
        /\ ~InTxn(p) /\ outcomes[p] = NoOutcomes /\ txn' = txn /\ outcomes' = outcomes
    BY LoneTypes DEF RejectUnknownEvent, PassOnCourse
  <1>2. ~Active(p)' /\ ~InTxn(p)' /\ \A s \in Slots : txn'[p].slot # s
    BY <1>1, SlotAssumption DEF Active, InTxn
  <1> QED
    BY <1>1, <1>2 DEF SnapshotCurrent, PassOnCourse

\* Reading a slot, or reading it again, changes nothing but the snapshot.
LEMMA LoneRead ==
  ASSUME TypeOK, TableInv, TableInv', NEW p \in Procs, PassOnCourse(p),
         NEW s \in Slots, NEW n, Active(p), s \in pass[p].todo,
         txn' = [txn EXCEPT ![p] = Snapshot(s, n)],
         UNCHANGED <<opp, pass, outcomes>>
  PROVE  SnapshotCurrent(p)' /\ PassOnCourse(p)'
  <1>1. \A r \in Slots : LatestVersion(r)' = LatestVersion(r) /\ LatestRow(r)' = LatestRow(r)
    BY SameSlot
  <1>2. txn'[p].slot = s /\ txn'[p].version = LatestVersion(s) /\ txn'[p].row = LatestRow(s)
    BY LoneTypes DEF Snapshot
  <1>3. SnapshotCurrent(p)'
    BY <1>1, <1>2 DEF SnapshotCurrent
  <1>4. \A r \in Slots : Settled(p, r) => Settled(p, r)'
    BY <1>1 DEF Settled, Fresh
  <1>5. /\ Active(p)' /\ InTxn(p)' /\ txn'[p].slot \in pass'[p].todo
        /\ pass' = pass /\ outcomes' = outcomes
    BY <1>2, SlotAssumption DEF InTxn, Active
  <1> QED
    BY <1>3, <1>4, <1>5 DEF PassOnCourse

LEMMA LoneListAbsent ==
  ASSUME TypeOK, TableInv, TableInv', NEW p \in Procs, PassOnCourse(p), ListAbsent(p)
  PROVE  SnapshotCurrent(p)' /\ PassOnCourse(p)'
  <1>1. PICK o : o = pass[p].obs
    OBVIOUS
  <1>2. /\ pass[p].phase = "observed" /\ pass[p].todo = {}
        /\ opp' = opp /\ txn' = txn /\ outcomes' = outcomes
        /\ pass'[p].phase = "absent" /\ pass'[p].obs = o /\ pass'[p].todo = AbsentSlots(o)
    BY <1>1, LoneTypes DEF ListAbsent
  <1>3. Active(p) /\ Active(p)' /\ ~InTxn(p)
    BY <1>2 DEF Active, PassOnCourse
  <1>4. ~InTxn(p)' /\ \A s \in Slots : txn'[p].slot # s
    BY <1>2, <1>3, SlotAssumption DEF InTxn
  <1>5. /\ SeenSlots(o) \subseteq StoredSlots /\ AbsentSlots(o) \subseteq StoredSlots
        /\ AbsentSlots(o) \cap SeenSlots(o) = {}
    BY <1>1, <1>3 DEF PassOnCourse, AbsentSlots
  <1>6. \A r \in Slots : LatestRow(r)' = LatestRow(r)
    BY <1>2, SameSlot
  <1>7. ASSUME NEW s \in Slots \ AbsentSlots(o),
               s \in SeenSlots(o) \/ (s \in StoredSlots /\ o.evaluated[EventOf[s]] # 0)
        PROVE  Settled(p, s)'
    <2>1. CASE s \in SeenSlots(o)
      <3>1. Settled(p, s)
        BY <1>1, <1>2, <1>3, <2>1 DEF PassOnCourse
      <3> QED
        BY <1>1, <1>2, <1>6, <3>1 DEF Settled, Fresh
    <2>2. CASE s \notin SeenSlots(o)
      <3>1. \A v \in Versions : opp[s][v].status # "candidate"
        BY <1>7, <2>2 DEF AbsentSlots
      <3>2. LatestRow(s).status # "candidate"
        BY <3>1, LatestRowFacts DEF NoRow
      <3>3. outcomes'[p][s] = "none" /\ o.items[s].kind = "absent"
        BY <1>1, <1>2, <2>2 DEF PassOnCourse, SeenSlots
      <3> QED
        BY <1>2, <1>6, <3>2, <3>3 DEF Settled
    <2> QED
      BY <2>1, <2>2
  <1> QED
    BY <1>2, <1>3, <1>4, <1>5, <1>7 DEF SnapshotCurrent, PassOnCourse

LEMMA LoneWrites ==
  ASSUME IInv, IInv', NEW p \in Procs, SnapshotCurrent(p), PassOnCourse(p), Write(p)
  PROVE  SnapshotCurrent(p)' /\ PassOnCourse(p)'
  <1>1. PICK s \in Slots : txn[p].slot = s
    BY WriteKinds
  <1>2. PICK action \in SlotActions \ {"none"} :
          Record(p, action) /\ Reflects(LatestRow(s)', ItemOf(p), At(p), action)
    BY <1>1, LoneWrite
  <1>3. \A r \in Slots \ {s} : LatestRow(r)' = LatestRow(r)
    BY <1>1, LoneWrite
  <1>4. Active(p) /\ s \in pass[p].todo
    BY <1>1, WriteKinds DEF PassOnCourse
  <1>5. PICK o : o = pass[p].obs
    OBVIOUS
  <1>6. TypeOK
    BY DEF IInv
  <1>7. /\ pass'[p].phase = pass[p].phase /\ pass'[p].obs = o
        /\ pass'[p].todo = pass[p].todo \ {s}
        /\ txn'[p] = NoTxn
        /\ outcomes'[p][s] = action
        /\ \A r \in Slots \ {s} : outcomes'[p][r] = outcomes[p][r]
    BY <1>1, <1>2, <1>5, <1>6, LoneTypes DEF Record
  <1>8. Active(p)' /\ ~InTxn(p)' /\ \A r \in Slots : txn'[p].slot # r
    BY <1>4, <1>7, SlotAssumption DEF Active, InTxn, NoTxn
  <1>9. Settled(p, s)'
    <2>1. ItemOf(p) = o.items[s] /\ At(p) = ObservedAt(o, s)
      BY <1>1, <1>5 DEF ItemOf, At
    <2>2. o.items[s].kind = "candidate" => ObservedAt(o, s) = o.items[s].at
      BY DEF ObservedAt
    <2>3. action \in {"created", "new_version", "heartbeat"} =>
            LatestRow(s)'.lastObserved = o.items[s].at
      BY <1>2, <2>1 DEF Reflects
    <2> QED
      BY <1>2, <1>7, <2>1, <2>2, <2>3 DEF Settled, Fresh, Reflects
  <1>10. ASSUME NEW r \in Slots \ {s}, Settled(p, r)
         PROVE  Settled(p, r)'
    BY <1>3, <1>5, <1>7, <1>10 DEF Settled, Fresh
  <1>11. ASSUME NEW r \in Slots \ pass'[p].todo,
                r \in SeenSlots(o) \/ (pass[p].phase = "absent" /\ r \in StoredSlots
                                         /\ o.evaluated[EventOf[r]] # 0)
         PROVE  Settled(p, r)'
    <2>1. r = s \/ r \notin pass[p].todo
      BY <1>7, <1>11
    <2>2. r # s => Settled(p, r)
      BY <1>4, <1>5, <1>11, <2>1 DEF PassOnCourse
    <2> QED
      BY <1>9, <1>10, <2>2
  <1>12. /\ pass'[p].todo \subseteq StoredSlots /\ SeenSlots(o) \subseteq StoredSlots
         /\ pass[p].phase = "observed" =>
              /\ pass'[p].todo \subseteq SeenSlots(o)
              /\ \A r \in Slots \ SeenSlots(o) : outcomes'[p][r] = "none"
         /\ pass[p].phase = "absent" => pass'[p].todo \cap SeenSlots(o) = {}
    BY <1>4, <1>5, <1>7 DEF PassOnCourse
  <1> QED
    BY <1>7, <1>8, <1>11, <1>12 DEF SnapshotCurrent, PassOnCourse

LEMMA LoneInit == Init => LoneInv
  <1> SUFFICES ASSUME Init, NEW p \in Procs PROVE SnapshotCurrent(p) /\ PassOnCourse(p)
    BY InitIInv DEF LoneInv
  <1>1. pass[p].phase = "idle" /\ txn[p].slot = NoSlot /\ outcomes[p] = NoOutcomes
    BY DEF Init, NoTxn
  <1>2. ~Active(p) /\ ~InTxn(p) /\ \A s \in Slots : txn[p].slot # s
    BY <1>1, SlotAssumption DEF Active, InTxn
  <1> QED
    BY <1>1, <1>2 DEF SnapshotCurrent, PassOnCourse

LEMMA LoneNext ==
  (\A p, q \in Procs : p = q) /\ LoneInv /\ IInv' /\ [Next]_vars => LoneInv'
  <1> SUFFICES ASSUME \A p, q \in Procs : p = q, LoneInv, IInv', [Next]_vars,
                      NEW p \in Procs
               PROVE  SnapshotCurrent(p)' /\ PassOnCourse(p)'
    BY DEF LoneInv
  <1>1. /\ IInv /\ TypeOK /\ TableInv /\ TableInv'
        /\ SnapshotCurrent(p) /\ PassOnCourse(p)
    BY DEF LoneInv, IInv
  <1>2. CASE UNCHANGED vars
    <2>1. \A r \in Slots : LatestVersion(r)' = LatestVersion(r) /\ LatestRow(r)' = LatestRow(r)
      BY <1>1, <1>2, SameSlot DEF vars
    <2>2. pass' = pass /\ txn' = txn /\ outcomes' = outcomes
      BY <1>2 DEF vars
    <2>3. \A r \in Slots : Settled(p, r) => Settled(p, r)'
      BY <2>1, <2>2 DEF Settled, Fresh
    <2>4. (Active(p)' <=> Active(p)) /\ (InTxn(p)' <=> InTxn(p))
      BY <2>2 DEF Active, InTxn
    <2>5. SnapshotCurrent(p)'
      BY <1>1, <2>1, <2>2 DEF SnapshotCurrent
    <2> QED
      BY <1>1, <2>2, <2>3, <2>4, <2>5 DEF PassOnCourse
  <1>3. CASE Next
    <2>1. Begin(p) \/ RejectUnknownEvent(p) \/ PassStep(p) \/ Abort(p)
      BY <1>3 DEF Next
    <2>2. CASE ReadSlot(p)
      <3>1. PICK s \in pass[p].todo : txn' = [txn EXCEPT ![p] = Snapshot(s, 1)]
        BY <2>2 DEF ReadSlot, NextSlots
      <3>2. Active(p) /\ UNCHANGED <<opp, pass, outcomes>> /\ s \in Slots
        BY <1>1, <2>2, LoneTypes DEF ReadSlot
      <3> QED
        BY <1>1, <3>1, <3>2, LoneRead
    <2>3. CASE Retry(p)
      <3>1. PICK s \in Slots : txn[p].slot = s
        BY <1>1, <2>3, LoneTypes DEF Retry, Conflict, InTxn
      <3>2. txn' = [txn EXCEPT ![p] = Snapshot(s, txn[p].attempt + 1)]
        BY <2>3, <3>1 DEF Retry
      <3>3. /\ Active(p) /\ s \in pass[p].todo /\ UNCHANGED <<opp, pass, outcomes>>
        BY <1>1, <2>3, <3>1, SlotAssumption DEF Retry, PassOnCourse, InTxn
      <3> QED
        BY <1>1, <3>2, <3>3, LoneRead
    <2>4. CASE Begin(p)
      BY <1>1, <2>4, LoneBegin
    <2>5. CASE RejectUnknownEvent(p)
      BY <1>1, <2>5, LoneReject
    <2>6. CASE Write(p)
      BY <1>1, <2>6, LoneWrites
    <2>7. CASE ListAbsent(p)
      BY <1>1, <2>7, LoneListAbsent
    <2>8. CASE GiveUp(p) \/ Finish(p) \/ Abort(p)
      BY <1>1, <2>8, LoneEnd DEF GiveUp, Finish, Abort
    <2> QED
      BY <2>1, <2>2, <2>3, <2>4, <2>5, <2>6, <2>7, <2>8 DEF PassStep
  <1> QED
    BY <1>2, <1>3

-----------------------------------------------------------------------------
(* The theorems.                                                           *)

LEMMA InductiveInvariant == Spec => []IInv
  BY InitIInv, NextIInv, PTL DEF Spec

\* The variables keep their types; the table never needs a version beyond
\* MaxTime, so bounding Versions cuts nothing off.
THEOREM TypeCorrect == Spec => [](TypeOK /\ VersionsFitInTime)
  <1>1. IInv => TypeOK /\ VersionsFitInTime
    BY DEF IInv, TableInv
  <1> QED
    BY <1>1, InductiveInvariant, PTL

\* models.py Opportunity: the versions of a slot form one chain and only its
\* last link may be a candidate, however many processes run passes at once.
THEOREM LifecycleSafe == Spec => []LifecycleInv
  <1>1. IInv => LifecycleInv
    BY DEF IInv, TableInv
  <1> QED
    BY <1>1, InductiveInvariant, PTL

\* models.py Opportunity: no step rewrites a decision, takes a version's
\* freshness back, or touches a version already superseded or expired.
THEOREM RowsAreSnapshots == Spec => RowsOnlyAdvance
  <1>1. IInv /\ [Next]_vars =>
          [\A s \in Slots : \A v \in Versions : RowAdvances(opp[s][v], opp'[s][v])]_vars
    BY NextIsTableStep, TableStepAdvances DEF IInv
  <1> QED
    BY <1>1, InductiveInvariant, PTL DEF Spec, RowsOnlyAdvance

\* models.py Opportunity, seen from the readers of the table: every step of any
\* number of concurrent passes opens, reprices or closes one slot, or changes
\* nothing a reader decides on.
THEOREM LifecycleImplementsSlotBook == Spec => ImplementsSlotBook
  <1>1. Init => Book!Init
    <2> SUFFICES ASSUME Init PROVE Book!Init
      OBVIOUS
    <2>1. \A s \in Slots : LatestVersion(s) = 0
      BY DEF Init, LatestVersion, Exists, NoRow
    <2>2. \A s \in Slots : Offer(s) = NoDecision
      BY <2>1 DEF Offer, LatestRow, NoRow
    <2> QED
      BY <2>1, <2>2 DEF Book!Init
  <1>2. IInv /\ IInv' /\ [Next]_vars =>
          [Book!Next]_<<[s \in Slots |-> LatestVersion(s)], [s \in Slots |-> Offer(s)]>>
    <2> SUFFICES ASSUME IInv, IInv', [Next]_vars
                 PROVE  \/ Book!Next
                        \/ UNCHANGED <<[s \in Slots |-> LatestVersion(s)],
                                       [s \in Slots |-> Offer(s)]>>
      OBVIOUS
    <2>1. TableInv /\ TableInv' /\ TableStep
      BY NextIsTableStep DEF IInv
    <2>2. CASE UNCHANGED opp
      BY <2>1, <2>2, SameSlot DEF Offer
    <2> QED
      BY <2>1, <2>2, InsertRefines, ReplaceRefines, BeatRefines, ShutRefines DEF TableStep
  <1> QED
    BY <1>1, <1>2, InductiveInvariant, PTL DEF Spec, ImplementsSlotBook, Book!Spec

LEMMA LoneInvariant == (\A p, q \in Procs : p = q) /\ Spec => []LoneInv
  <1>1. (\A p, q \in Procs : p = q) => [](\A p, q \in Procs : p = q)
    OBVIOUS
  <1> QED
    BY <1>1, InductiveInvariant, LoneInit, LoneNext, PTL DEF Spec

\* opportunity_lifecycle_service.py:8: a pass that runs alone leaves the slot of
\* a late observation as it found it, whatever it records.  (Two passes break
\* it: see RaceStaleClose.)
THEOREM AloneStaleIsIgnored ==
  (\A p, q \in Procs : p = q) /\ Spec => StaleObservationIgnored
  <1>1. (\A p, q \in Procs : p = q) /\ LoneInv /\ IInv' /\ [Next]_vars =>
          [\A p \in Procs : \A s \in Slots :
             Resolves(p, s, SlotActions \ {"none"}) /\ At(p) <= Fresh(s)
               => opp'[s] = opp[s]]_vars
    <2> SUFFICES ASSUME \A p, q \in Procs : p = q, LoneInv, IInv', Next,
                        NEW p \in Procs, NEW s \in Slots,
                        Resolves(p, s, SlotActions \ {"none"}), At(p) <= Fresh(s)
                 PROVE  opp'[s] = opp[s]
      OBVIOUS
    <2>1. IInv /\ TypeOK /\ SnapshotCurrent(p)
      BY DEF LoneInv, IInv
    <2>2. /\ txn[p].slot = s /\ outcomes[p][s] = "none" /\ outcomes'[p][s] # "none"
          /\ outcomes' # outcomes
      BY DEF Resolves
    <2>3. ASSUME NEW phase, EndPass(p, phase) PROVE FALSE
      <3>1. outcomes'[p] = NoOutcomes
        BY <2>1, <2>3, LoneTypes DEF EndPass
      <3> QED
        BY <2>2, <3>1 DEF NoOutcomes
    <2>4. Write(p)
      <3>1. Begin(p) \/ RejectUnknownEvent(p) \/ PassStep(p) \/ Abort(p)
        BY DEF Next
      <3>2. ~Begin(p) /\ ~RejectUnknownEvent(p) /\ ~ReadSlot(p) /\ ~Retry(p) /\ ~ListAbsent(p)
        BY <2>2 DEF Begin, RejectUnknownEvent, ReadSlot, Retry, ListAbsent
      <3>3. ~GiveUp(p) /\ ~Finish(p) /\ ~Abort(p)
        BY <2>3 DEF GiveUp, Finish, Abort
      <3> QED
        BY <3>1, <3>2, <3>3 DEF PassStep
    <2>5. At(p) <= LatestRow(s).lastObserved
      BY DEF Fresh
    <2> QED
      BY <2>1, <2>2, <2>4, <2>5, LoneWrite
  <1>2. (\A p, q \in Procs : p = q) => [](\A p, q \in Procs : p = q)
    OBVIOUS
  <1> QED
    BY <1>1, <1>2, LoneInvariant, InductiveInvariant, PTL DEF Spec, StaleObservationIgnored

\* opportunity_lifecycle_service.py apply, _close_absent_slots: when a pass that
\* ran alone completes, every slot of every event it evaluated reflects what it
\* saw: its candidate is current, and no candidate older than its observation
\* survives in a slot that was closed, or was not seen.
THEOREM AloneAPassSettles ==
  (\A p, q \in Procs : p = q) /\ Spec => CompletedPassSettles
  <1>1. LoneInv =>
          [\A p \in Procs : Finish(p) =>
             \A s \in StoredSlots :
               pass[p].obs.evaluated[EventOf[s]] # 0 => Settled(p, s)]_vars
    BY DEF LoneInv, PassOnCourse, Finish, Active, StoredSlots
  <1> QED
    BY <1>1, LoneInvariant, PTL DEF Spec, CompletedPassSettles

=============================================================================
