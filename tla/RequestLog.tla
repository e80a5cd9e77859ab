------------------------------ MODULE RequestLog ------------------------------
(***************************************************************************)
(* lib/db/repos/requestDetailsRepo.js: request details are buffered and    *)
(* written in batches, by size or by timer.  A save is its number in the   *)
(* order of the calls, which is also that of the pushes and of the time    *)
(* stamps.  A streamed request is saved when its stream starts and, under  *)
(* the same id, when it is over: the second save updates the row of the    *)
(* first, or inserts it again.  The end of the process, by a signal too    *)
(* (cleanup of initializeApp.js exits at once), takes the buffer and the   *)
(* batch in hand with it.                                                  *)
(***************************************************************************)
EXTENDS Integers, FiniteSets

CONSTANTS
    BatchSize,
    MaxRecords,
    LogLimit        \* bound: saves that are accepted

ASSUME LogAssumption ==
    /\ BatchSize \in Nat \ {0}
    /\ MaxRecords \in Nat \ {0}
    /\ LogLimit \in Nat

Saves == 1 .. LogLimit

VARIABLES
    accepted,       \* how many saves have been pushed
    streaming,      \* first saves of records that may be saved again
    again,          \* pairs of saves under one id, the first and the second
    writeBuffer,
    flushTimer,
    isFlushing,
    batch,          \* items of the flush in progress
    rows,           \* the table requestDetails, each row by the save that wrote it last
    trimmed,        \* history: rows that were deleted as the oldest
    replaced,       \* history: rows that were updated by a second save
    lostSaves       \* history: of batches that failed, and of ended processes

recordVars == <<accepted, streaming, again>>

logVars == <<recordVars, writeBuffer, flushTimer, isFlushing, batch, rows, trimmed, replaced,
             lostSaves>>

LogTypeOK ==
    /\ accepted \in 0 .. LogLimit
    /\ {flushTimer, isFlushing} \subseteq BOOLEAN
    /\ \A s \in {streaming, writeBuffer, batch, rows, trimmed, replaced, lostSaves} : s \subseteq Saves
    /\ again \subseteq Saves \X Saves
    /\ Cardinality(rows) <= MaxRecords

LogInit ==
    /\ accepted = 0
    /\ streaming = {}
    /\ again = {}
    /\ writeBuffer = {}
    /\ flushTimer = FALSE
    /\ isFlushing = FALSE
    /\ batch = {}
    /\ rows = {}
    /\ trimmed = {}
    /\ replaced = {}
    /\ lostSaves = {}
-----------------------------------------------------------------------------
\* flushToDatabase up to its first await, for a buffer with the given content.
StartFlush(buffer) ==
    IF isFlushing \/ buffer = {}
    THEN writeBuffer' = buffer /\ UNCHANGED <<isFlushing, batch>>
    ELSE writeBuffer' = {} /\ isFlushing' = TRUE /\ batch' = buffer

\* A save is the first of its record, whose stream may end with another one, or
\* it is that other one.
Number(first) ==
    /\ accepted' = accepted + 1
    /\ \/ /\ first = 0
          /\ streaming' = streaming \union {accepted + 1}
          /\ UNCHANGED again
       \/ /\ first \in streaming
          /\ streaming' = streaming \ {first}
          /\ again' = again \union {<<first, accepted + 1>>}

\* saveRequestDetail, once the configuration is known.
Save(first) ==
    LET buffer == writeBuffer \union {accepted + 1}
    IN  /\ accepted < LogLimit
        /\ Number(first)
        /\ IF Cardinality(buffer) >= BatchSize
           THEN flushTimer' = FALSE /\ StartFlush(buffer)
           ELSE /\ flushTimer' = TRUE
                /\ writeBuffer' = buffer
                /\ UNCHANGED <<isFlushing, batch>>
        /\ UNCHANGED <<rows, trimmed, replaced, lostSaves>>

LogTimerFires ==
    /\ flushTimer
    /\ flushTimer' = FALSE
    /\ StartFlush(writeBuffer)
    /\ UNCHANGED <<recordVars, rows, trimmed, replaced, lostSaves>>

\* Mutant: ON CONFLICT DO NOTHING.
UpsertedNever(saves) == {s \in saves : \A r \in saves : <<r, s>> \notin again}

\* INSERT ... ON CONFLICT(id) DO UPDATE, in the order of the saves: one row for each
\* record, with its last save.
Upserted(saves) == {s \in saves : \A t \in saves : <<s, t>> \notin again}

\* Mutant: one row too many is kept.
NewestOneMore(saves) ==
    {r \in saves : Cardinality({q \in saves : q > r}) <= MaxRecords}

\* The newest of a set of rows, MaxRecords at most.
Newest(saves) ==
    {r \in saves : Cardinality({q \in saves : q > r}) < MaxRecords}

\* Mutant: what was pushed during the await is cleared with the batch.
NextBatchCleared ==
    /\ isFlushing' = FALSE
    /\ batch' = {}
    /\ writeBuffer' = {}

\* Mutant: one batch for each flush.
NextBatchNone ==
    /\ isFlushing' = FALSE
    /\ batch' = {}
    /\ UNCHANGED writeBuffer

\* The head of the while loop, after a batch.
NextBatch ==
    /\ isFlushing' = (writeBuffer # {})
    /\ batch' = writeBuffer
    /\ writeBuffer' = {}

\* The transaction of a batch: insert or update, then delete the oldest beyond the
\* limit.
WriteBatch ==
    LET saves == rows \union batch
        stored == Upserted(saves)
    IN  /\ isFlushing
        /\ rows' = Newest(stored)
        /\ trimmed' = trimmed \union (stored \ rows')
        /\ replaced' = replaced \union (saves \ stored)
        /\ NextBatch
        /\ UNCHANGED <<recordVars, flushTimer, lostSaves>>

\* The adapter or the transaction throws: the batch is gone, the buffer waits.
WriteFails ==
    /\ isFlushing
    /\ isFlushing' = FALSE
    /\ batch' = {}
    /\ lostSaves' = lostSaves \union batch
    /\ UNCHANGED <<recordVars, writeBuffer, flushTimer, rows, trimmed, replaced>>

\* The process ends, its streams too, and starts again.
LogProcessEnds ==
    /\ lostSaves' = lostSaves \union writeBuffer \union batch
    /\ streaming' = {}
    /\ writeBuffer' = {}
    /\ batch' = {}
    /\ isFlushing' = FALSE
    /\ flushTimer' = FALSE
    /\ UNCHANGED <<accepted, again, rows, trimmed, replaced>>

LogNext ==
    \/ \E first \in streaming \union {0} : Save(first)
    \/ LogTimerFires
    \/ WriteBatch
    \/ WriteFails
    \/ LogProcessEnds
-----------------------------------------------------------------------------
(* Properties *)

\* "All pushes during await are persisted" (saveRequestDetail): a save is in the
\* buffer, in the batch in hand or in the table, unless its batch failed, its
\* process ended, it was the oldest, or the second save of its record has been
\* written too.  No record has two rows, and what was trimmed is older than every
\* row.
RecordsAreAccounted ==
    /\ 1 .. accepted = UNION {writeBuffer, batch, rows, trimmed, replaced, lostSaves}
    /\ \A s \in replaced : \E t \in rows \union trimmed : <<s, t>> \in again
    /\ \A s, t \in rows : <<s, t>> \notin again
    /\ \A t \in trimmed, r \in rows : t < r

\* Saves reach the table in the order of acceptance and once, each in the place of
\* the row its record has; the table loses its oldest rows only and none while it
\* has room, and a save that is gone stays so (its record comes back with a second
\* save only): whatever is saved during a flush, and whichever batch fails.
Ledger == INSTANCE RequestLedger WITH
    Capacity <- MaxRecords, entered <- accepted, kept <- rows,
    gone <- trimmed \union replaced \union lostSaves

LogIsLedger == Ledger!Spec

\* A save does not stay in the buffer for want of another one to come: only a
\* batch that fails leaves a buffer behind without a timer.
BufferIsFlushed ==
    writeBuffer # {} /\ lostSaves = {} ~> writeBuffer = {} \/ lostSaves # {}

\* The timer fires and transactions end, well or not.
LogFairness ==
    /\ WF_logVars(LogTimerFires)
    /\ WF_logVars((WriteBatch \/ WriteFails))

LogSpec == LogInit /\ [][LogNext]_logVars /\ LogFairness
=============================================================================
