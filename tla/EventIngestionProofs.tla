----------------------- MODULE EventIngestionProofs ------------------------
(***************************************************************************)
(* Proofs about EventIngestion, for any events, any updates and batches of *)
(* any length.  What is stored is judged twice, for its shape and for its  *)
(* transition, and both judgements are needed: the shape keeps the rows    *)
(* consistent, the transition keeps the final ones.                        *)
(***************************************************************************)
EXTENDS EventIngestion, TLAPS

\* What passes both judgements is a consistent row, other than the stored one.
LEMMA WrittenIsConsistent ==
  ASSUME NEW u \in Updates, ~Malformed(u)
  PROVE  Written(u) \in ConsistentRow
<1>1. Written(u) \in EventRow
  BY DEF Malformed, Written, EventRow, Statuses, Results
<1>2. Consistent(Written(u))
  BY NoResultAssumption DEF Malformed, Written, Consistent, Results
<1>3. QED
  BY <1>1, <1>2 DEF ConsistentRow

LEMMA BatchesAreLists == Batches \subseteq Seq(Updates)
<1>1. ASSUME NEW b \in Batches PROVE b \in Seq(Updates)
  <2>1. PICK n \in 1..MaxBatch : b \in [1..n -> Updates]
    BY <1>1 DEF Batches
  <2>2. n \in Nat
    BY <2>1, MaxBatchAssumption
  <2>3. QED
    BY <2>1, <2>2
<1>2. QED
  BY <1>1

-----------------------------------------------------------------------------
(* Types.                                                                  *)

LEMMA ConsumeTypes ==
  ASSUME TypeOK, NEW outcome \in Outcomes, Consume(outcome)
  PROVE  /\ Head(queue) \in Updates
         /\ batch' \in Seq(Updates)
         /\ queue' \in Seq(Updates)
         /\ report' \in Seq([update: Updates, outcome: Outcomes])
<1>1. Head(queue) \in Updates /\ Tail(queue) \in Seq(Updates)
  BY DEF TypeOK, Consume
<1>2. [update |-> Head(queue), outcome |-> outcome] \in [update: Updates, outcome: Outcomes]
  BY <1>1
<1>3. report' \in Seq([update: Updates, outcome: Outcomes])
  BY <1>2 DEF TypeOK, Consume
<1>4. QED
  BY <1>1, <1>3 DEF TypeOK, Consume

\* The event table after a step is the same, or one consistent row has been
\* written where the transition allowed it.
Move ==
  \E u \in Updates :
    /\ ~Malformed(u) /\ Known(u) /\ Legal(u)
    /\ event' = [event EXCEPT ![u.id] = Written(u)]

LEMMA StepMoves ==
  ASSUME TypeOK, [Next]_vars
  PROVE  UNCHANGED event \/ Move
<1>1. CASE Apply
  <2>1. Head(queue) \in Updates
    BY <1>1, ConsumeTypes DEF Apply, Outcomes
  <2>2. QED
    BY <1>1, <2>1 DEF Apply, Move
<1>2. CASE ~Apply
  BY <1>2 DEF Next, Process, Sync, Crash, RejectMalformed, ReportUnknown, LeaveUnchanged,
              RejectTransition, Fail, vars
<1>3. QED
  BY <1>1, <1>2

\* The inductive invariant: TypeOK alone does not say that a finished event has
\* its result, and settlement reads the result.
IInv == TypeOK /\ ResultExactlyWhenFinished

LEMMA RowsConsistent ==
  IInv <=> TypeOK /\ event \in [Events -> ConsistentRow]
  BY DEF IInv, TypeOK, ResultExactlyWhenFinished, ConsistentRow

LEMMA InitIInv == Init => IInv
<1> SUFFICES ASSUME Init PROVE IInv
  OBVIOUS
<1>1. event \in [Events -> ConsistentRow]
  BY DEF Init
<1>2. TypeOK
  BY <1>1 DEF Init, TypeOK, ConsistentRow
<1>3. QED
  BY <1>1, <1>2, RowsConsistent

LEMMA NextTables ==
  ASSUME TypeOK, [Next]_vars
  PROVE  /\ batch' \in Seq(Updates)
         /\ queue' \in Seq(Updates)
         /\ report' \in Seq([update: Updates, outcome: Outcomes])
<1>1. CASE Sync
  BY <1>1, BatchesAreLists DEF Sync
<1>2. CASE Process
  <2>1. \E outcome \in Outcomes : Consume(outcome)
    BY <1>2 DEF Process, RejectMalformed, ReportUnknown, LeaveUnchanged, RejectTransition,
                Apply, Fail, Outcomes
  <2>2. QED
    BY <2>1, ConsumeTypes
<1>3. CASE Crash
  BY <1>3 DEF Crash
<1>4. CASE UNCHANGED vars
  BY <1>4 DEF vars, TypeOK
<1>5. QED
  BY <1>1, <1>2, <1>3, <1>4 DEF Next

LEMMA NextIInv == IInv /\ [Next]_vars => IInv'
<1> SUFFICES ASSUME IInv, [Next]_vars PROVE IInv'
  OBVIOUS
<1>1. TypeOK /\ event \in [Events -> ConsistentRow]
  BY RowsConsistent
<1>2. event' \in [Events -> ConsistentRow]
  <2>1. CASE UNCHANGED event
    BY <1>1, <2>1
  <2>2. CASE Move
    <3>1. PICK u \in Updates :
            ~Malformed(u) /\ event' = [event EXCEPT ![u.id] = Written(u)]
      BY <2>2 DEF Move
    <3>2. QED
      BY <1>1, <3>1, WrittenIsConsistent
  <2>3. QED
    BY <1>1, <2>1, <2>2, StepMoves
<1>3. TypeOK'
  BY <1>1, <1>2, NextTables DEF TypeOK, ConsistentRow
<1>4. QED
  BY <1>2, <1>3 DEF IInv, ResultExactlyWhenFinished, ConsistentRow

\* Whatever the provider sends, the tables keep their types: no update of a
\* vocabulary of its own is ever stored (_validate_shape).
THEOREM IngestionTypes == Spec => []TypeOK
<1>1. IInv => TypeOK
  BY DEF IInv
<1>2. QED
  BY <1>1, InitIInv, NextIInv, PTL DEF Spec

\* An event has a result exactly when it is finished, in every reachable state.
THEOREM ResultsComeWithTheEnd == Spec => []ResultExactlyWhenFinished
<1>1. IInv => ResultExactlyWhenFinished
  BY DEF IInv
<1>2. QED
  BY <1>1, InitIInv, NextIInv, PTL DEF Spec

-----------------------------------------------------------------------------
(* The life of events.                                                     *)

\* No transition leaves a final status.
LEMMA FinalIsFinal ==
  ASSUME NEW u \in Updates, Legal(u)
  PROVE  ~Terminal(event[u.id])
  BY DEF Legal, AllowedTransitions, Terminal

\* Both modules speak of the same rows and transitions.
LEMMA LifeVocabulary ==
  Life!ConsistentRow = ConsistentRow /\ Life!AllowedTransitions = AllowedTransitions
  BY DEF Life!ConsistentRow, ConsistentRow, Life!EventRow, EventRow, Life!Consistent, Consistent,
         Life!Statuses, Statuses, Life!Results, Results,
         Life!AllowedTransitions, AllowedTransitions

\* A step of the ingestion is a step of the one-way life of events.
LEMMA StepIsLife ==
  ASSUME IInv, [Next]_vars
  PROVE  [Life!Next]_event
<1>1. TypeOK
  BY DEF IInv
<1>2. CASE UNCHANGED event
  BY <1>2
<1>3. CASE Move
  <2>1. PICK u \in Updates :
          /\ ~Malformed(u) /\ Known(u) /\ Legal(u)
          /\ event' = [event EXCEPT ![u.id] = Written(u)]
    BY <1>3 DEF Move
  <2>2. Life!Advance(u.id, Written(u))
    BY <2>1, LifeVocabulary DEF Life!Advance, Legal, Written
  <2>3. QED
    BY <2>1, <2>2, WrittenIsConsistent, LifeVocabulary DEF Life!Next, Known
<1>4. QED
  BY <1>1, <1>2, <1>3, StepMoves

\* No update, late, repeated or contradictory, writes a finished or cancelled
\* event (_ALLOWED_TRANSITIONS and the comparison of the result).
THEOREM FinalEventsStay == Spec => TerminalStays
<1>1. ASSUME IInv, [Next]_vars
      PROVE  [\A e \in Events : Terminal(event[e]) => event'[e] = event[e]]_vars
  <2>1. CASE UNCHANGED event
    BY <2>1
  <2>2. CASE Move
    <3>1. PICK u \in Updates :
            /\ Legal(u)
            /\ event' = [event EXCEPT ![u.id] = Written(u)]
      BY <2>2 DEF Move
    <3>2. ASSUME NEW e \in Events, Terminal(event[e]) PROVE event'[e] = event[e]
      BY <1>1, <3>1, <3>2, FinalIsFinal DEF IInv, TypeOK
    <3>3. QED
      BY <3>2
  <2>3. QED
    BY <1>1, <2>1, <2>2, StepMoves DEF IInv
<1>2. QED
  BY <1>1, InitIInv, NextIInv, PTL DEF Spec, TerminalStays

\* The ingestion implements EventLife, which is all that settlement assumes of
\* the events table.
THEOREM IngestionImplementsEventLife == Spec => ImplementsEventLife
<1>1. Init => Life!Init
  BY LifeVocabulary DEF Init, Life!Init
<1>2. QED
  BY <1>1, StepIsLife, InitIInv, NextIInv, PTL DEF Spec, ImplementsEventLife, Life!Spec

-----------------------------------------------------------------------------
(* What the report says of the rows.                                       *)

\* One turn of the loop, by what it reports.
Turn(u, outcome) ==
  \/ /\ outcome = "updated"
     /\ ~Malformed(u) /\ Known(u) /\ Legal(u)
     /\ event' = [event EXCEPT ![u.id] = Written(u)]
  \/ /\ outcome \notin {"updated", "failed"}
     /\ Malformed(u) \/ ~Known(u) \/ UpToDate(u) \/ ~Legal(u)
     /\ UNCHANGED event
  \/ outcome = "failed" /\ UNCHANGED event

LEMMA ProcessTurns ==
  ASSUME TypeOK, Process
  PROVE  \E outcome \in Outcomes : Consume(outcome) /\ Turn(Head(queue), outcome)
<1>1. CASE RejectMalformed
  BY <1>1 DEF RejectMalformed, Turn, Outcomes
<1>2. CASE ReportUnknown
  BY <1>2 DEF ReportUnknown, Turn, Outcomes
<1>3. CASE LeaveUnchanged
  BY <1>3 DEF LeaveUnchanged, Turn, Outcomes
<1>4. CASE RejectTransition
  BY <1>4 DEF RejectTransition, Turn, Outcomes
<1>5. CASE Apply
  BY <1>5 DEF Apply, Turn, Outcomes
<1>6. CASE Fail
  BY <1>6 DEF Fail, Turn, Outcomes
<1>7. QED
  BY <1>1, <1>2, <1>3, <1>4, <1>5, <1>6 DEF Process

LEMMA ConsumeAppends ==
  ASSUME TypeOK, NEW outcome \in Outcomes, Consume(outcome)
  PROVE  /\ Len(report) \in Nat /\ DOMAIN report = 1..Len(report)
         /\ Len(report') = Len(report) + 1 /\ DOMAIN report' = 1..(Len(report) + 1)
         /\ \A i \in DOMAIN report : report'[i] = report[i] /\ report[i].update \in Updates
         /\ report'[Len(report) + 1].update = Head(queue)
         /\ report'[Len(report) + 1].outcome = outcome
         /\ Head(queue) \in Updates
<1> DEFINE Lines == [update: Updates, outcome: Outcomes]
           line == [update |-> Head(queue), outcome |-> outcome]
<1>1. Head(queue) \in Updates
  BY ConsumeTypes
<1>2. line \in Lines /\ line.update = Head(queue) /\ line.outcome = outcome
  BY <1>1
<1>3. report \in Seq(Lines) /\ report' = Append(report, line)
  BY DEF TypeOK, Consume
<1>4. ASSUME NEW r \in Lines PROVE r.update \in Updates
  OBVIOUS
<1> HIDE DEF Lines, line
<1>5. Len(report) \in Nat /\ DOMAIN report = 1..Len(report)
  BY <1>3
<1>6. \A i \in DOMAIN report : report[i] \in Lines
  BY <1>3, <1>5
<1>7. Len(report') = Len(report) + 1 /\ DOMAIN report' = 1..(Len(report) + 1)
  BY <1>2, <1>3
<1>8. \A i \in DOMAIN report : report'[i] = report[i]
  BY <1>2, <1>3, <1>5
<1>9. report'[Len(report) + 1] = line
  BY <1>2, <1>3, <1>5
<1>10. QED
  BY <1>1, <1>2, <1>4, <1>5, <1>6, <1>7, <1>8, <1>9

\* ReportExplainsRows with what it needs: only stored events are updated.
Explained ==
  /\ ReportExplainsRows
  /\ \A i \in DOMAIN report : report[i].outcome = "updated" => Known(report[i].update)

LEMMA TurnExplained ==
  ASSUME TypeOK, Explained, NEW outcome \in Outcomes, Consume(outcome),
         Turn(Head(queue), outcome)
  PROVE  Explained'
<1> DEFINE n == Len(report)
<1>1. /\ n \in Nat /\ DOMAIN report = 1..n
      /\ Len(report') = n + 1 /\ DOMAIN report' = 1..(n + 1)
      /\ \A i \in 1..n : report'[i] = report[i]
      /\ report'[n + 1].update = Head(queue) /\ report'[n + 1].outcome = outcome
  BY ConsumeAppends
<1> HIDE DEF n
<1>2. \A i \in DOMAIN report' : report'[i].outcome = "updated" => Known(report'[i].update)
  BY <1>1 DEF Explained, Turn, Known
<1>3. ASSUME NEW i \in DOMAIN report', report'[i].outcome = "updated",
             \A j \in (i + 1)..(n + 1) : ~(/\ report'[j].update.id = report'[i].update.id
                                          /\ report'[j].outcome = "updated")
      PROVE  event'[report'[i].update.id] = Written(report'[i].update)
  <2>1. CASE i = n + 1
    BY <1>1, <1>2, <1>3, <2>1 DEF Turn, Known, TypeOK
  <2>2. CASE i \in 1..n
    <3>1. /\ report[i].outcome = "updated" /\ Known(report[i].update)
          /\ report'[i] = report[i] /\ i \in DOMAIN report
      BY <1>1, <1>3, <2>2 DEF Explained
    <3>2. \A j \in (i + 1)..n : ~(/\ report[j].update.id = report[i].update.id
                                  /\ report[j].outcome = "updated")
      BY <1>1, <1>3, <2>2
    <3>3. event[report[i].update.id] = Written(report[i].update)
      BY <1>1, <3>1, <3>2 DEF Explained, ReportExplainsRows, n
    <3>4. ~(outcome = "updated" /\ Head(queue).id = report[i].update.id)
      BY <1>1, <1>3, <2>2
    <3>5. event'[report[i].update.id] = event[report[i].update.id]
      BY <3>1, <3>4 DEF Turn, Known, TypeOK
    <3>6. QED
      BY <3>1, <3>3, <3>5
  <2>3. QED
    BY <1>1, <2>1, <2>2
<1>4. ReportExplainsRows'
  BY <1>1, <1>3 DEF ReportExplainsRows, Written
<1>5. QED
  BY <1>2, <1>4 DEF Explained, Known

LEMMA NextExplained == TypeOK /\ Explained /\ [Next]_vars => Explained'
<1> SUFFICES ASSUME TypeOK, Explained, [Next]_vars PROVE Explained'
  OBVIOUS
<1>1. CASE Sync \/ Crash
  BY <1>1 DEF Sync, Crash, Explained, ReportExplainsRows
<1>2. CASE Process
  BY <1>2, ProcessTurns, TurnExplained
<1>3. CASE UNCHANGED vars
  BY <1>3 DEF vars, Explained, ReportExplainsRows, Known, Written
<1>4. QED
  BY <1>1, <1>2, <1>3 DEF Next

\* ReportExplainsRows holds for lists of any length: what a rolled back, rejected
\* or unknown update said is never stored (_apply and the except of ingest).
THEOREM ReportsAreTrue == Spec => []ReportExplainsRows
<1>1. Init => Explained
  BY DEF Init, Explained, ReportExplainsRows
<1>2. Explained => ReportExplainsRows
  BY DEF Explained
<1>3. QED
  BY <1>1, <1>2, NextExplained, IngestionTypes, PTL DEF Spec

-----------------------------------------------------------------------------
(* A list without failures.                                                *)

\* Nothing of u is left to be applied.
Caught(u) ==
  Known(u) /\ ~Malformed(u) =>
    /\ Terminal(u) => Terminal(event[u.id])
    /\ UpToDate(u) \/ ~Legal(u)

LEMMA TurnCatches ==
  ASSUME TypeOK, NEW u \in Updates, NEW outcome \in Outcomes \ {"failed"}, Turn(u, outcome)
  PROVE  Caught(u)'
<1> SUFFICES ASSUME Known(u), ~Malformed(u)
             PROVE  (Terminal(u) => Terminal(event'[u.id])) /\ (UpToDate(u)' \/ ~Legal(u)')
  BY DEF Caught, Known, Malformed, Terminal
<1>1. CASE outcome = "updated"
  <2>1. event'[u.id] = Written(u)
    BY <1>1 DEF Turn, Known, TypeOK
  <2>2. QED
    BY <2>1 DEF UpToDate, Written, Terminal
<1>2. CASE outcome # "updated"
  <2>1. UNCHANGED event /\ (UpToDate(u) \/ ~Legal(u))
    BY <1>2 DEF Turn
  <2>2. event[u.id] \in EventRow
    BY DEF TypeOK, Known
  <2>3. Terminal(u) => Terminal(event[u.id])
    BY <2>1, <2>2 DEF UpToDate, Legal, Written, Terminal, AllowedTransitions, EventRow, Statuses
  <2>4. QED
    BY <2>1, <2>3 DEF UpToDate, Legal, Written
<1>3. QED
  BY <1>1, <1>2

\* A later update of the same list takes nothing back.
LEMMA TurnKeepsCaught ==
  ASSUME TypeOK, NEW u \in Updates, NEW v \in Updates, NEW outcome \in Outcomes,
         Turn(v, outcome), Caught(u)
  PROVE  Caught(u)'
<1> SUFFICES ASSUME Known(u), ~Malformed(u)
             PROVE  (Terminal(u) => Terminal(event'[u.id])) /\ (UpToDate(u)' \/ ~Legal(u)')
  BY DEF Caught, Known, Malformed, Terminal
<1>1. /\ Terminal(u) => Terminal(event[u.id])
      /\ UpToDate(u) \/ ~Legal(u)
  BY DEF Caught
<1>2. CASE event'[u.id] = event[u.id]
  BY <1>1, <1>2 DEF UpToDate, Legal, Written
<1>3. CASE event'[u.id] # event[u.id]
  <2>1. /\ v.id = u.id /\ ~Malformed(v) /\ Legal(v)
        /\ event'[u.id] = Written(v)
    BY <1>3 DEF Turn, Known, TypeOK
  <2>2. ~Terminal(event[u.id])
    BY <2>1 DEF Legal, AllowedTransitions, Terminal
  <2>3. u.status \in {"scheduled", "live"}
    BY <1>1, <2>2 DEF Malformed, Statuses, Terminal
  <2>4. v.status \in {"live", "finished", "cancelled"}
    BY <2>1 DEF Legal, AllowedTransitions
  <2>5. ~Legal(u)'
    BY <2>1, <2>3, <2>4 DEF Legal, Written, AllowedTransitions
  <2>6. QED
    BY <1>1, <2>2, <2>5
<1>4. QED
  BY <1>2, <1>3

\* The report and the queue are the two parts of the batch.
Divided ==
  /\ Len(batch) = Len(report) + Len(queue)
  /\ \A i \in 1..Len(report) : report[i].update = batch[i]
  /\ \A i \in 1..Len(queue) : queue[i] = batch[Len(report) + i]

CaughtUp ==
  (\A i \in DOMAIN report : report[i].outcome # "failed")
    => \A u \in Updates : (\E i \in DOMAIN report : report[i].update = u) => Caught(u)

LEMMA TurnDivided ==
  ASSUME TypeOK, Divided, NEW outcome \in Outcomes, Consume(outcome)
  PROVE  Divided'
<1>1. queue \in Seq(Updates) /\ queue # <<>> /\ queue' = Tail(queue) /\ batch' = batch
  BY DEF TypeOK, Consume
<1>2. /\ Len(queue) \in Nat /\ Len(queue) > 0 /\ Head(queue) = queue[1]
      /\ Len(queue') = Len(queue) - 1
      /\ \A i \in 1..Len(queue') : queue'[i] = queue[i + 1]
  BY <1>1
<1>3. Len(batch') = Len(report') + Len(queue')
  <2>1. Len(report) \in Nat /\ Len(report') = Len(report) + 1
    BY ConsumeAppends
  <2>2. Len(batch') = Len(report) + Len(queue)
    BY <1>1 DEF Divided
  <2>3. QED
    BY <1>2, <2>1, <2>2
<1>4. \A i \in 1..Len(report') : report'[i].update = batch'[i]
  BY <1>1, <1>2, ConsumeAppends DEF Divided
<1>5. ASSUME NEW i \in 1..Len(queue')
      PROVE  queue'[i] = batch'[Len(report') + i]
  <2>1. i + 1 \in 1..Len(queue)
    BY <1>2
  <2>2. queue[i + 1] = batch[Len(report) + (i + 1)]
    BY <2>1 DEF Divided
  <2>3. Len(report) + (i + 1) = Len(report') + i
    BY <2>1, ConsumeAppends
  <2>4. QED
    BY <1>1, <1>2, <2>2, <2>3
<1>6. QED
  BY <1>3, <1>4, <1>5 DEF Divided

LEMMA TurnCaughtUp ==
  ASSUME TypeOK, CaughtUp, NEW outcome \in Outcomes, Consume(outcome),
         Turn(Head(queue), outcome)
  PROVE  CaughtUp'
<1> SUFFICES ASSUME \A i \in DOMAIN report' : report'[i].outcome # "failed",
                    NEW u \in Updates, NEW i \in DOMAIN report', report'[i].update = u
             PROVE  Caught(u)'
  BY DEF CaughtUp
<1>1. outcome # "failed"
  BY ConsumeAppends
<1>2. CASE u = Head(queue)
  BY <1>1, <1>2, TurnCatches
<1>3. CASE u # Head(queue)
  <2>1. i \in DOMAIN report /\ report[i].update = u
    BY <1>3, ConsumeAppends
  <2>2. \A j \in DOMAIN report : report[j].outcome # "failed"
    BY ConsumeAppends
  <2>3. Caught(u)
    BY <2>1, <2>2 DEF CaughtUp
  <2>4. QED
    BY <2>3, ConsumeAppends, TurnKeepsCaught
<1>4. QED
  BY <1>2, <1>3

LEMMA NextCaughtUp == TypeOK /\ Divided /\ CaughtUp /\ [Next]_vars => Divided' /\ CaughtUp'
<1> SUFFICES ASSUME TypeOK, Divided, CaughtUp, [Next]_vars PROVE Divided' /\ CaughtUp'
  OBVIOUS
<1>1. CASE Sync
  <2>1. batch' \in Seq(Updates) /\ queue' = batch' /\ report' = <<>>
    BY <1>1, NextTables DEF Sync
  <2>2. QED
    BY <2>1 DEF Divided, CaughtUp
<1>2. CASE Crash
  BY <1>2 DEF Crash, Divided, CaughtUp
<1>3. CASE Process
  BY <1>3, ProcessTurns, TurnDivided, TurnCaughtUp
<1>4. CASE UNCHANGED vars
  BY <1>4 DEF vars, Divided, CaughtUp, Caught, Known, Legal, UpToDate, Written
<1>5. QED
  BY <1>1, <1>2, <1>3, <1>4 DEF Next

\* CleanBatchCatchesUp holds for lists of any length in any order: sent again, a
\* list that went through without failures would change nothing.
THEOREM CleanBatchesCatchUp == Spec => []CleanBatchCatchesUp
<1>1. Init => Divided /\ CaughtUp
  BY DEF Init, Divided, CaughtUp
<1>2. TypeOK /\ Divided /\ CaughtUp => CleanBatchCatchesUp
  <2> SUFFICES ASSUME TypeOK, Divided, CaughtUp, queue = <<>>,
                      \A i \in DOMAIN report : report[i].outcome # "failed",
                      NEW i \in DOMAIN batch
               PROVE  Caught(batch[i])
    BY DEF CleanBatchCatchesUp, Caught
  <2>1. i \in DOMAIN report
    BY DEF TypeOK, Divided
  <2>2. batch[i] = report[i].update
    BY <2>1 DEF TypeOK, Divided
  <2>3. batch[i] \in Updates
    BY DEF TypeOK
  <2>4. QED
    BY <2>1, <2>2, <2>3 DEF CaughtUp
<1>3. QED
  BY <1>1, <1>2, NextCaughtUp, IngestionTypes, PTL DEF Spec

=============================================================================
