--------------------------- MODULE EventIngestion ---------------------------
(***************************************************************************)
(* EventIngestionService: batches of updates about events, one transaction *)
(* per update.  The provider may repeat, reorder and contradict itself, an *)
(* update may be malformed or speak of an event that is not stored, and    *)
(* any transaction may fail.  There is one ingesting process (the trial    *)
(* scheduler assumes a single runner) and nobody else writes these         *)
(* columns, so the read and the write of an update are one step.           *)
(***************************************************************************)
EXTENDS EventRows, Integers, Sequences

CONSTANTS
  Updates,    \* the updates the provider can send: [id, status, result]
  MaxBatch    \* longest list get_event_updates returns

ASSUME MaxBatchAssumption == MaxBatch \in Nat \ {0}

VARIABLES
  event,   \* the events table: external_id -> row
  batch,   \* the list being ingested, or ingested last
  queue,   \* what is left of it
  report   \* IngestionResult: the outcome of each update processed, in order

vars == <<event, batch, queue, report>>

Outcomes == {"updated", "unchanged", "unknown", "rejected", "failed"}

Batches == UNION {[1..n -> Updates] : n \in 1..MaxBatch}

-----------------------------------------------------------------------------
(* How an update is judged.                                                *)

\* Mutant of Malformed: a result of any spelling.
MutAnyResult(u) ==
  \/ u.status \notin Statuses
  \/ u.status = "finished" /\ u.result = NoResult
  \/ u.status # "finished" /\ u.result # NoResult

\* _validate_shape.
Malformed(u) ==
  \/ u.status \notin Statuses
  \/ u.status = "finished" /\ u.result \notin Results
  \/ u.status # "finished" /\ u.result # NoResult

Known(u) == u.id \in Events

\* What apply_update stores.
Written(u) == [status |-> u.status, result |-> u.result]

UpToDate(u) == event[u.id] = Written(u)

\* Mutant of Legal: a second result for a finished event is accepted.
MutResultCorrected(u) ==
  \/ u.status = event[u.id].status
  \/ <<event[u.id].status, u.status>> \in AllowedTransitions

Legal(u) == <<event[u.id].status, u.status>> \in AllowedTransitions

-----------------------------------------------------------------------------
(* Actions.                                                                *)

Init ==
  /\ event \in [Events -> ConsistentRow]
  /\ batch = <<>>
  /\ queue = <<>>
  /\ report = <<>>

\* sync: a new list from the provider (a provider that fails changes nothing).
Sync ==
  /\ queue = <<>>
  /\ batch' \in Batches
  /\ queue' = batch'
  /\ report' = <<>>
  /\ UNCHANGED event

\* The turn of the loop for one update, whose outcome goes to its list.
Consume(outcome) ==
  /\ queue # <<>>
  /\ queue' = Tail(queue)
  /\ report' = Append(report, [update |-> Head(queue), outcome |-> outcome])
  /\ UNCHANGED batch

RejectMalformed ==
  /\ Consume("rejected")
  /\ Malformed(Head(queue))
  /\ UNCHANGED event

ReportUnknown ==
  /\ Consume("unknown")
  /\ ~Malformed(Head(queue))
  /\ ~Known(Head(queue))
  /\ UNCHANGED event

LeaveUnchanged ==
  /\ Consume("unchanged")
  /\ ~Malformed(Head(queue))
  /\ Known(Head(queue))
  /\ UpToDate(Head(queue))
  /\ UNCHANGED event

RejectTransition ==
  /\ Consume("rejected")
  /\ ~Malformed(Head(queue))
  /\ Known(Head(queue))
  /\ ~UpToDate(Head(queue))
  /\ ~Legal(Head(queue))
  /\ UNCHANGED event

Apply ==
  /\ Consume("updated")
  /\ ~Malformed(Head(queue))
  /\ Known(Head(queue))
  /\ ~UpToDate(Head(queue))
  /\ Legal(Head(queue))
  /\ event' = [event EXCEPT ![Head(queue).id] = Written(Head(queue))]

\* Mutant of Fail: the session is not rolled back and the write is committed
\* with the next update.
MutFailKeepsWrite ==
  /\ Consume("failed")
  /\ ~Malformed(Head(queue))
  /\ Known(Head(queue))
  /\ Legal(Head(queue))
  /\ event' = [event EXCEPT ![Head(queue).id] = Written(Head(queue))]

\* A database error anywhere in the transaction: rolled back, reported, next.
Fail ==
  /\ Consume("failed")
  /\ UNCHANGED event

\* The process dies: what is left of the batch is lost, what is committed stays.
Crash ==
  /\ queue # <<>>
  /\ batch' = <<>>
  /\ queue' = <<>>
  /\ report' = <<>>
  /\ UNCHANGED event

Process ==
  \/ RejectMalformed
  \/ ReportUnknown
  \/ LeaveUnchanged
  \/ RejectTransition
  \/ Apply
  \/ Fail

Next == Sync \/ Process \/ Crash

Spec == Init /\ [][Next]_vars

-----------------------------------------------------------------------------
(* Properties.                                                             *)

\* The variables keep their types; the rows of the table stay within the
\* vocabulary that result_resolver and the trial cycle understand.
TypeOK ==
  /\ event \in [Events -> EventRow]
  /\ batch \in Seq(Updates)
  /\ queue \in Seq(Updates)
  /\ report \in Seq([update: Updates, outcome: Outcomes])

\* Every event carries a result exactly when it is finished, whatever the
\* provider sends and in whatever order (the rules of _validate_shape).
ResultExactlyWhenFinished == \A e \in Events : Consistent(event[e])

\* No late, repeated or contradictory update writes an event that is finished
\* or cancelled: bets may have been settled with what it said.
TerminalStays == [][\A e \in Events : Terminal(event[e]) => event'[e] = event[e]]_vars

\* The rows are what the report says: the last update of an event reported as
\* updated in this batch is what its row holds, so a rollback leaves no trace
\* and nothing reported as rejected, unknown or failed has been stored.
ReportExplainsRows ==
  \A i \in DOMAIN report :
    LET u == report[i].update
        later == {j \in (i + 1)..Len(report) :
                    report[j].update.id = u.id /\ report[j].outcome = "updated"}
    IN (report[i].outcome = "updated" /\ later = {}) => event[u.id] = Written(u)

\* A batch that went through without failures and interruptions has brought its
\* events up to date, in whatever order its updates came: an event with a final
\* update is final, and the same batch sent again would update nothing (the
\* ingestion is idempotent).
CleanBatchCatchesUp ==
  (queue = <<>> /\ \A i \in DOMAIN report : report[i].outcome # "failed")
    => \A i \in DOMAIN batch :
         LET u == batch[i]
         IN (Known(u) /\ ~Malformed(u)) =>
              /\ Terminal(u) => Terminal(event[u.id])
              /\ UpToDate(u) \/ ~Legal(u)

\* The ingestion implements the one-way life of events.
Life == INSTANCE EventLife

ImplementsEventLife == Life!Spec

=============================================================================
