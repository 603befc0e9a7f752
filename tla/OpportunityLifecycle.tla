------------------------ MODULE OpportunityLifecycle ------------------------
(***************************************************************************)
(* The versioned life cycle of an opportunity slot: the passes of          *)
(* OpportunityLifecycleService.apply, run by any number of processes over  *)
(* one table of opportunity versions.                                      *)
(*                                                                         *)
(* A pass walks over its observation slot by slot.  For each slot it reads *)
(* the latest version (the snapshot its transaction decides on) and, in a  *)
(* later step, writes and commits.  Another process may commit in between: *)
(* the UPDATEs and the UNIQUE constraint see the table as it is at the     *)
(* write, the decision was taken on the table as it was at the read.       *)
(***************************************************************************)
EXTENDS Integers, FiniteSets

CONSTANTS
  Slots,         \* normalized (event, market, selection, bookmaker) keys
  Events,        \* external ids of events
  EventOf,       \* the event each slot belongs to
  StoredEvents,  \* the events the events table holds
  Procs,         \* processes (API request threads) that run passes
  Decisions,     \* (odds, probability) pairs as rounded when stored
  NoDecision,    \* the decision fields of a row that does not exist
  NoSlot,        \* a process with no slot transaction open
  MaxTime,       \* captured_at instants are 1..MaxTime
  MaxAttempts    \* tries of one slot transaction (3 in the code)

ASSUME SlotAssumption ==
  /\ EventOf \in [Slots -> Events]
  /\ StoredEvents \subseteq Events
  /\ NoSlot \notin Slots
  /\ NoDecision \notin Decisions

ASSUME BoundAssumption ==
  /\ MaxTime \in Nat \ {0}
  /\ MaxAttempts \in Nat \ {0}

VARIABLES
  opp,       \* the opportunities table: slot -> version -> row
  pass,      \* per process: phase, observation and slots left to process
  txn,       \* per process: the open slot transaction and its snapshot
  outcomes   \* per process: the SlotAction recorded for each slot

vars == <<opp, pass, txn, outcomes>>

-----------------------------------------------------------------------------
(* Data.  A version is inserted only by an observation newer than the      *)
(* version before it, so no slot has more versions than there are instants *)
(* (OpportunityLifecycleProofs!VersionsFitInTime).                         *)

Times == 1..MaxTime
Versions == 1..MaxTime

Row == [status: {"none", "candidate", "superseded", "expired"},
        decision: Decisions \cup {NoDecision},
        lastObserved: 0..MaxTime,
        supersededBy: 0..MaxTime,
        supersededAt: 0..MaxTime]

NoRow == [status |-> "none", decision |-> NoDecision, lastObserved |-> 0,
          supersededBy |-> 0, supersededAt |-> 0]

\* Mutant of NewRow: a status the rest of the code does not know.
MutNewRowStatus(d, at) == [status |-> "active", decision |-> d, lastObserved |-> at,
                           supersededBy |-> 0, supersededAt |-> 0]

NewRow(d, at) == [status |-> "candidate", decision |-> d, lastObserved |-> at,
                  supersededBy |-> 0, supersededAt |-> 0]

\* What mark_superseded and mark_expired make of a candidate row; the latter's
\* last_observed_at becomes the later of the two instants.
Superseded(row, successor, at) ==
  [status |-> "superseded", decision |-> row.decision,
   lastObserved |-> row.lastObserved, supersededBy |-> successor, supersededAt |-> at]

Expired(row, at) ==
  [row EXCEPT !.status = "expired",
              !.lastObserved = IF row.lastObserved < at THEN at ELSE row.lastObserved]

Exists(s, v) == opp[s][v].status # "none"

IsLatest(s, v) == Exists(s, v) /\ \A w \in Versions : w > v => ~Exists(s, w)

\* find_latest_version: 0 stands for None.
LatestVersion(s) ==
  IF \E v \in Versions : Exists(s, v)
    THEN CHOOSE v \in Versions : IsLatest(s, v)
    ELSE 0

LatestRow(s) == IF LatestVersion(s) = 0 THEN NoRow ELSE opp[s][LatestVersion(s)]

-----------------------------------------------------------------------------
(* Observations.  A pass evaluates some events; what it saw of a slot of   *)
(* an evaluated event is a candidate, a quote that did not qualify, or     *)
(* nothing ("absent").                                                     *)

AbsentItem == [kind |-> "absent", decision |-> NoDecision, at |-> 0]

Item == {AbsentItem}
          \cup [kind: {"candidate"}, decision: Decisions, at: Times]
          \cup [kind: {"non_qualifying"}, decision: {NoDecision}, at: Times]

\* evaluated[e] is 0 when e is not evaluated.  Otherwise it is the newest
\* captured_at among the quotes of e (so no item of e is later), or the clock.
Observation ==
  {o \in [items: [Slots -> Item], evaluated: [Events -> 0..MaxTime]] :
      \A s \in Slots : o.items[s].at <= o.evaluated[EventOf[s]]}

NoObservation == [items |-> [s \in Slots |-> AbsentItem],
                  evaluated |-> [e \in Events |-> 0]]

CandidateSlots(o) == {s \in Slots : o.items[s].kind = "candidate"}
SeenSlots(o) == {s \in Slots : o.items[s].kind # "absent"}
StoredSlots == {s \in Slots : EventOf[s] \in StoredEvents}

\* What is left of an observation without the events that have no event id.
Identified(o) ==
  [items |-> [s \in Slots |-> IF s \in StoredSlots THEN o.items[s] ELSE AbsentItem],
   evaluated |-> [e \in Events |-> IF e \in StoredEvents THEN o.evaluated[e] ELSE 0]]

\* The instant an observation speaks for slot s.
ObservedAt(o, s) ==
  IF o.items[s].kind = "absent" THEN o.evaluated[EventOf[s]] ELSE o.items[s].at

Active(p) == pass[p].phase \in {"observed", "absent"}

SlotActions == {"none", "created", "new_version", "heartbeat", "ignored_stale",
                "expired", "noop"}
NoOutcomes == [s \in Slots |-> "none"]

NoTxn == [slot |-> NoSlot, attempt |-> 0, version |-> 0, row |-> NoRow]

Snapshot(s, n) == [slot |-> s, attempt |-> n, version |-> LatestVersion(s),
                   row |-> LatestRow(s)]

Init ==
  /\ opp = [s \in Slots |-> [v \in Versions |-> NoRow]]
  /\ pass = [p \in Procs |-> [phase |-> "idle", obs |-> NoObservation, todo |-> {}]]
  /\ txn = [p \in Procs |-> NoTxn]
  /\ outcomes = [p \in Procs |-> NoOutcomes]

-----------------------------------------------------------------------------
(* The pass as a whole.                                                    *)

\* apply() with every candidate's event stored; what it saw of others is skipped.
Begin(p) ==
  /\ ~Active(p)
  /\ \E o \in Observation :
       /\ CandidateSlots(o) \subseteq StoredSlots
       /\ pass' = [pass EXCEPT ![p] = [phase |-> "observed", obs |-> Identified(o),
                                       todo |-> SeenSlots(Identified(o))]]
  /\ UNCHANGED <<opp, txn, outcomes>>

\* apply() raises UnknownEventError before it writes anything.
RejectUnknownEvent(p) ==
  /\ ~Active(p)
  /\ \E o \in Observation : ~(CandidateSlots(o) \subseteq StoredSlots)
  /\ pass' = [pass EXCEPT ![p] = [phase |-> "failed", obs |-> NoObservation,
                                  todo |-> {}]]
  /\ UNCHANGED <<opp, txn, outcomes>>

\* Mutant of AbsentSlots: an event that brought no quotes is not looked at.
MutOnlyQuotedEvents(o) ==
  {s \in StoredSlots \ SeenSlots(o) :
     /\ \E r \in SeenSlots(o) : EventOf[r] = EventOf[s]
     /\ \E v \in Versions : opp[s][v].status = "candidate"}

\* The current candidates of the evaluated events whose slot was not seen.
AbsentSlots(o) ==
  {s \in StoredSlots \ SeenSlots(o) :
     /\ o.evaluated[EventOf[s]] # 0
     /\ \E v \in Versions : opp[s][v].status = "candidate"}

\* _close_absent_slots lists them in one transaction, then closes one by one.
ListAbsent(p) ==
  /\ pass[p].phase = "observed"
  /\ pass[p].todo = {}
  /\ pass' = [pass EXCEPT ![p].phase = "absent", ![p].todo = AbsentSlots(pass[p].obs)]
  /\ UNCHANGED <<opp, txn, outcomes>>

\* The pass is over: it returned its result ("idle") or raised ("failed").
EndPass(p, phase) ==
  /\ pass' = [pass EXCEPT ![p] = [phase |-> phase, obs |-> NoObservation, todo |-> {}]]
  /\ txn' = [txn EXCEPT ![p] = NoTxn]
  /\ outcomes' = [outcomes EXCEPT ![p] = NoOutcomes]
  /\ UNCHANGED opp

Finish(p) ==
  /\ pass[p].phase = "absent"
  /\ pass[p].todo = {}
  /\ EndPass(p, "idle")

\* Any other exception, or the process dies: the open transaction is rolled
\* back, what was committed slot by slot stays.
Abort(p) ==
  /\ Active(p)
  /\ EndPass(p, "failed")

-----------------------------------------------------------------------------
(* One slot transaction: the read.                                         *)

\* Candidates come first, then the slots that did not qualify.
NextSlots(p) ==
  LET first == pass[p].todo \cap CandidateSlots(pass[p].obs)
  IN IF first # {} THEN first ELSE pass[p].todo

ReadSlot(p) ==
  /\ Active(p)
  /\ txn[p].slot = NoSlot
  /\ \E s \in NextSlots(p) : txn' = [txn EXCEPT ![p] = Snapshot(s, 1)]
  /\ UNCHANGED <<opp, pass, outcomes>>

-----------------------------------------------------------------------------
(* One slot transaction: the decision on the snapshot.                     *)

InTxn(p) == txn[p].slot # NoSlot

ItemOf(p) == pass[p].obs.items[txn[p].slot]
At(p) == ObservedAt(pass[p].obs, txn[p].slot)

Proposes(p) == ItemOf(p).kind = "candidate"
NeverSeen(p) == txn[p].version = 0
SnapshotOpen(p) == txn[p].row.status = "candidate"
\* Mutant of Stale: < for <=.
MutStaleStrict(p) == ~NeverSeen(p) /\ At(p) < txn[p].row.lastObserved

Stale(p) == ~NeverSeen(p) /\ At(p) <= txn[p].row.lastObserved
\* Mutant of SameDecision: floats compared without rounding.
MutNeverSame(p) == FALSE

SameDecision(p) == ItemOf(p).decision = txn[p].row.decision

\* The row the snapshot was read from, as it is now.
Current(p) == opp[txn[p].slot][txn[p].version]

\* Mutant of VersionFree: no UNIQUE constraint.
MutNoUnique(p) == TRUE

\* UNIQUE (slot, version) lets the next version in.
VersionFree(p) == ~Exists(txn[p].slot, txn[p].version + 1)

\* Mutant of StillOpen: the UPDATE has no WHERE on status.
MutUnconditional(p) == TRUE

\* The UPDATE ... WHERE status = 'candidate' finds the row.
StillOpen(p) == Current(p).status = "candidate"

-----------------------------------------------------------------------------
(* One slot transaction: the write and the commit.                         *)

\* Mutant of Record: a resolved slot stays on the list.
MutRecordKeepsSlot(p, action) ==
  /\ outcomes' = [outcomes EXCEPT ![p][txn[p].slot] = action]
  /\ txn' = [txn EXCEPT ![p] = NoTxn]
  /\ UNCHANGED pass

Record(p, action) ==
  /\ outcomes' = [outcomes EXCEPT ![p][txn[p].slot] = action]
  /\ pass' = [pass EXCEPT ![p].todo = @ \ {txn[p].slot}]
  /\ txn' = [txn EXCEPT ![p] = NoTxn]

\* create_version: a new candidate version after the snapshot's one.
InsertNext(p) ==
  opp' = [opp EXCEPT ![txn[p].slot][txn[p].version + 1] =
            NewRow(ItemOf(p).decision, At(p))]

CreateFirst(p) ==
  /\ InTxn(p) /\ Proposes(p) /\ NeverSeen(p) /\ VersionFree(p)
  /\ InsertNext(p)
  /\ Record(p, "created")

IgnoreStale(p) ==
  /\ InTxn(p) /\ Stale(p)
  /\ Proposes(p) \/ SnapshotOpen(p)
  /\ Record(p, "ignored_stale")
  /\ UNCHANGED opp

Reopen(p) ==
  /\ InTxn(p) /\ Proposes(p) /\ ~NeverSeen(p) /\ ~Stale(p) /\ ~SnapshotOpen(p)
  /\ VersionFree(p)
  /\ InsertNext(p)
  /\ Record(p, "new_version")

\* heartbeat() updates no row when the version is closed or newer by now; the
\* service records HEARTBEAT all the same.
Heartbeat(p) ==
  /\ InTxn(p) /\ Proposes(p) /\ SnapshotOpen(p) /\ ~Stale(p) /\ SameDecision(p)
  /\ IF StillOpen(p) /\ Current(p).lastObserved < At(p)
       THEN opp' = [opp EXCEPT ![txn[p].slot][txn[p].version].lastObserved = At(p)]
       ELSE UNCHANGED opp
  /\ Record(p, "heartbeat")

Supersede(p) ==
  /\ InTxn(p) /\ Proposes(p) /\ SnapshotOpen(p) /\ ~Stale(p) /\ ~SameDecision(p)
  /\ VersionFree(p) /\ StillOpen(p)
  /\ opp' = [opp EXCEPT ![txn[p].slot] =
               [@ EXCEPT ![txn[p].version + 1] = NewRow(ItemOf(p).decision, At(p)),
                         ![txn[p].version] =
                            Superseded(Current(p), txn[p].version + 1, At(p))]]
  /\ Record(p, "new_version")

NothingToClose(p) ==
  /\ InTxn(p) /\ ~Proposes(p) /\ ~SnapshotOpen(p)
  /\ Record(p, "noop")
  /\ UNCHANGED opp

Expire(p) ==
  /\ InTxn(p) /\ ~Proposes(p) /\ SnapshotOpen(p) /\ ~Stale(p)
  /\ StillOpen(p)
  /\ opp' = [opp EXCEPT ![txn[p].slot][txn[p].version] = Expired(@, At(p))]
  /\ Record(p, "expired")

CloseOvertaken(p) ==
  /\ InTxn(p) /\ ~Proposes(p) /\ SnapshotOpen(p) /\ ~Stale(p)
  /\ ~StillOpen(p)
  /\ Record(p, "noop")
  /\ UNCHANGED opp

-----------------------------------------------------------------------------
(* One slot transaction: IntegrityError or _SlotConflict.                  *)

Conflict(p) ==
  /\ InTxn(p) /\ Proposes(p) /\ ~Stale(p)
  /\ ~(SnapshotOpen(p) /\ SameDecision(p))
  /\ \/ ~VersionFree(p)
     \/ SnapshotOpen(p) /\ ~StillOpen(p)

\* Rollback, and the slot is read again in a new transaction.
Retry(p) ==
  /\ Conflict(p)
  /\ txn[p].attempt < MaxAttempts
  /\ txn' = [txn EXCEPT ![p] = Snapshot(txn[p].slot, txn[p].attempt + 1)]
  /\ UNCHANGED <<opp, pass, outcomes>>

GiveUp(p) ==
  /\ Conflict(p)
  /\ txn[p].attempt = MaxAttempts
  /\ EndPass(p, "failed")

-----------------------------------------------------------------------------
Write(p) ==
  \/ CreateFirst(p) \/ IgnoreStale(p) \/ Reopen(p) \/ Heartbeat(p)
  \/ Supersede(p) \/ NothingToClose(p) \/ Expire(p) \/ CloseOvertaken(p)

\* What a running pass does by itself.
PassStep(p) ==
  \/ ReadSlot(p) \/ Write(p) \/ Retry(p) \/ GiveUp(p)
  \/ ListAbsent(p) \/ Finish(p)

Next == \E p \in Procs :
          Begin(p) \/ RejectUnknownEvent(p) \/ PassStep(p) \/ Abort(p)

Spec == Init /\ [][Next]_vars

\* A pass is a plain call: once started its thread keeps running until the
\* call returns or raises.  Nobody is obliged to start one.
FairSpec == Spec /\ \A p \in Procs : WF_vars(PassStep(p))

-----------------------------------------------------------------------------
(* Invariants.                                                             *)

Txn == [slot: Slots \cup {NoSlot}, attempt: 0..MaxAttempts,
        version: 0..MaxTime, row: Row]

Phases == {"idle", "observed", "absent", "failed"}

\* The types of the table, of the passes, of their transactions and results
\* (models.py Opportunity, OpportunityObservation, LifecycleResult).
TypeOK ==
  /\ opp \in [Slots -> [Versions -> Row]]
  /\ pass \in [Procs -> [phase: Phases, obs: Observation, todo: SUBSET Slots]]
  /\ txn \in [Procs -> Txn]
  /\ outcomes \in [Procs -> [Slots -> SlotActions]]

\* models.py Opportunity: only the latest version of a slot can be a candidate,
\* so a slot never offers two prices however the passes interleave.
OnlyLatestCandidate ==
  \A s \in Slots : \A v, w \in Versions :
    opp[s][v].status = "candidate" /\ w > v => ~Exists(s, w)

\* Versions of a slot are numbered without gaps.
Contiguous ==
  \A s \in Slots : \A v, w \in Versions : Exists(s, v) /\ w < v => Exists(s, w)

\* A superseded version names the version right after it, which exists and was
\* observed no earlier than the supersession; an expired one is not superseded
\* and whatever follows it was observed later.
ChainLinked ==
  \A s \in Slots : \A v \in Versions :
    /\ opp[s][v].status = "superseded" =>
         /\ v + 1 \in Versions /\ Exists(s, v + 1)
         /\ opp[s][v].supersededBy = v + 1
         /\ opp[s][v].supersededAt <= opp[s][v + 1].lastObserved
    /\ opp[s][v].status # "superseded" => opp[s][v].supersededBy = 0
    /\ opp[s][v].status = "expired" /\ v + 1 \in Versions /\ Exists(s, v + 1) =>
         opp[s][v].lastObserved < opp[s][v + 1].lastObserved

\* The history of a slot is one chain with at most one open end, under any
\* interleaving of passes, conflicts, retries and crashes.
LifecycleInv == OnlyLatestCandidate /\ Contiguous /\ ChainLinked

-----------------------------------------------------------------------------
(* Action properties.                                                      *)

RowAdvances(old, new) ==
  \/ new = old
  \/ old.status = "none" /\ new.status = "candidate"
  \/ /\ old.status = "candidate"
     /\ new.status \in {"candidate", "superseded", "expired"}
     /\ new.decision = old.decision
     /\ new.lastObserved >= old.lastObserved
     /\ new.status = "superseded" => new.lastObserved = old.lastObserved

\* models.py Opportunity: a version is an immutable snapshot.  It never goes
\* away, its decision never changes, its freshness never goes back, and once
\* superseded or expired it is never written again.
RowsOnlyAdvance ==
  [][\A s \in Slots : \A v \in Versions : RowAdvances(opp[s][v], opp'[s][v])]_vars

Fresh(s) == LatestRow(s).lastObserved

\* Process p ends its transaction on slot s in this step, with that action.
Resolves(p, s, actions) ==
  /\ txn[p].slot = s
  /\ outcomes[p][s] = "none"
  /\ outcomes'[p][s] \in actions

\* opportunity_lifecycle_service.py:8: captured_at <= last_observed is ignored,
\* without effects.  last_observed is the one stored when the step is taken.
StaleObservationIgnored ==
  [][\A p \in Procs : \A s \in Slots :
       Resolves(p, s, SlotActions \ {"none"}) /\ At(p) <= Fresh(s)
         => opp'[s] = opp[s]]_vars

\* What p's completed pass leaves of slot s of an evaluated event.
Settled(p, s) ==
  LET o == pass[p].obs IN
    /\ o.items[s].kind = "candidate" => Fresh(s) >= o.items[s].at
    /\ outcomes[p][s] \in {"created", "new_version", "heartbeat"} =>
         /\ LatestRow(s).status = "candidate"
         /\ LatestRow(s).decision = o.items[s].decision
         /\ Fresh(s) = o.items[s].at
    /\ o.items[s].kind # "candidate" /\ LatestRow(s).status = "candidate" =>
         Fresh(s) >= ObservedAt(o, s)

\* When a pass completes, every slot of every event it evaluated reflects its
\* observation or a newer one: nothing it closed or no longer saw survives as
\* an older candidate, nothing it proposed is left behind.
CompletedPassSettles ==
  [][\A p \in Procs : Finish(p) =>
       \A s \in StoredSlots :
         pass[p].obs.evaluated[EventOf[s]] # 0 => Settled(p, s)]_vars

-----------------------------------------------------------------------------
(* Refinement: seen slot by slot the table is a SlotBook.                  *)

Offer(s) ==
  IF LatestRow(s).status = "candidate" THEN LatestRow(s).decision ELSE NoDecision

Book == INSTANCE SlotBook WITH
          version <- [s \in Slots |-> LatestVersion(s)],
          offer <- [s \in Slots |-> Offer(s)]

\* models.py:63-67: whatever the passes do, each slot moves by opening its next
\* version, replacing the open version by one with another decision, or closing
\* it, one slot at a time and one version at a time.
ImplementsSlotBook == Book!Spec

-----------------------------------------------------------------------------
(* Liveness.                                                               *)

\* Every pass ends: retries are bounded and each slot is resolved once.
PassTerminates == \A p \in Procs : Active(p) ~> ~Active(p)

=============================================================================
