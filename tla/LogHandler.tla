----------------------------- MODULE LogHandler -----------------------------
(***************************************************************************)
(* AsyncPGHandler of infrastructure/internal/logging.py: records logged by *)
(* any thread go through a bounded queue to a worker task that inserts     *)
(* them into PostgreSQL in batches.                                        *)
(*                                                                         *)
(* Three parties interleave.  The thread that logs: logging.Handler.handle *)
(* holds the handler's lock through emit(), so there is one at a time, but *)
(* it stops for no one else.  The worker, which is synchronous between     *)
(* queue.get() and the insert: only the logging thread runs meanwhile.     *)
(* The task of the container, which calls initialize() and shutdown() one  *)
(* after the other, and one that probes check_health().                    *)
(*                                                                         *)
(* A record is its number in the order of logging.                         *)
(***************************************************************************)
EXTENDS Naturals, Sequences, FiniteSets, SequencesExt

CONSTANTS
    MaxQueue,   \* max_queue_size
    MaxBatch,   \* the limit of a batch, 100 in the code
    MaxRecords, \* bound: records logged
    Coloured    \* records whose levelname ColoredFormatter has rewritten
                \* before this handler gets them (setup_logger adds the
                \* console handler first)

ASSUME LogAssumption ==
    /\ MaxQueue \in Nat \ {0} /\ MaxBatch \in Nat \ {0}
    /\ MaxRecords \in Nat /\ Coloured \subseteq Nat

VARIABLES
    queue,      \* _queue
    pool,       \* _pool is not None
    healthy,    \* _healthy
    worker,     \* _worker_task: where the worker is
    batch,      \* the worker's batch
    lifecycle,  \* where the call of initialize() or shutdown() is
    rest,       \* _flush_remaining's list
    probing,    \* check_health() waits for its query
    emitting,   \* where emit() is
    logged,     \* records logged so far; the last one is emit()'s
    table,      \* rows, in the order of insertion
    spared      \* records that were given up for a cause (see below)

queueVars == <<queue, batch, rest, table, spared>>
vars == <<queue, pool, healthy, worker, batch, lifecycle, rest, probing,
          emitting, logged, table, spared>>

Records == 1..MaxRecords

(* Every variable has the shape described above.                           *)
TypeOK ==
    /\ {queue, batch, rest, table} \subseteq Seq(Records)
    /\ Len(queue) <= MaxQueue /\ Len(batch) <= MaxBatch
    /\ {pool, healthy, probing} \subseteq BOOLEAN
    /\ worker \in {"none", "waiting", "collecting", "taking", "inserting", "sleeping", "done"}
    /\ lifecycle \in {"idle", "connecting", "creating", "joining", "draining", "fetching",
                     "flushing", "closing"}
    /\ emitting \in {"idle", "checked", "full", "evicted"}
    /\ logged \in 0..MaxRecords
    /\ spared \subseteq Records

(* The event loop's other tasks run only while the worker awaits.          *)
LoopFree == worker \notin {"collecting", "taking"}

Alive == worker \notin {"none", "done"}

----------------------------------------------------------------------------
(* emit(): not on the event loop, one step per look at shared state        *)

EmitStep(from, to) == emitting = from /\ emitting' = to

(* Refused outright, without a number, unless the handler is healthy.      *)
EmitBegins ==
    /\ healthy /\ logged < MaxRecords
    /\ EmitStep("idle", "checked")
    /\ logged' = logged + 1
    /\ UNCHANGED <<queueVars, pool, healthy, worker, lifecycle, probing>>

(* A record that cannot be formatted is dropped: handleError() prints.     *)
EmitRaises ==
    /\ EmitStep("checked", "idle")
    /\ spared' = spared \cup {logged}
    /\ UNCHANGED <<queue, pool, healthy, worker, batch, lifecycle, rest, probing, logged, table>>

HasRoom == Len(queue) < MaxQueue

EmitPuts ==
    /\ HasRoom /\ EmitStep("checked", "idle")
    /\ queue' = Append(queue, logged)
    /\ UNCHANGED <<pool, healthy, worker, batch, lifecycle, rest, probing, logged, table, spared>>

EmitFindsFull ==
    /\ ~HasRoom /\ EmitStep("checked", "full")
    /\ UNCHANGED <<queueVars, pool, healthy, worker, lifecycle, probing, logged>>

\* Fault: emit() is done when it has made room.
EmitEvictsOnly ==
    /\ EmitStep("full", "idle")
    /\ IF queue = <<>>
       THEN spared' = spared \cup {logged} /\ UNCHANGED queue
       ELSE spared' = spared \cup {Head(queue)} /\ queue' = Tail(queue)
    /\ UNCHANGED <<pool, healthy, worker, batch, lifecycle, rest, probing, logged, table>>

(* Overflow: the oldest record makes room.  If the worker was faster and   *)
(* has emptied the queue, QueueEmpty ends emit() and the new one is gone.  *)
EmitEvicts ==
    /\ IF queue = <<>>
       THEN EmitStep("full", "idle") /\ spared' = spared \cup {logged} /\ UNCHANGED queue
       ELSE EmitStep("full", "evicted") /\ spared' = spared \cup {Head(queue)} /\ queue' = Tail(queue)
    /\ UNCHANGED <<pool, healthy, worker, batch, lifecycle, rest, probing, logged, table>>

\* Fault: the record is put where the oldest one was.
EmitPutsInFront ==
    /\ HasRoom /\ EmitStep("evicted", "idle")
    /\ queue' = <<logged>> \o queue
    /\ UNCHANGED <<pool, healthy, worker, batch, lifecycle, rest, probing, logged, table, spared>>

EmitPutsAgain ==
    /\ HasRoom /\ EmitStep("evicted", "idle")
    /\ queue' = Append(queue, logged)
    /\ UNCHANGED <<pool, healthy, worker, batch, lifecycle, rest, probing, logged, table, spared>>

----------------------------------------------------------------------------
(* _process_logs() and _insert_batch()                                     *)

WorkerStep(from, to) ==
    /\ worker = from /\ lifecycle # "joining"
    /\ worker' = to
    /\ UNCHANGED <<pool, healthy, lifecycle, rest, probing, emitting, logged>>

(* queue.get() is over when the queue is not empty; then it takes, too, by *)
(* get_nowait().                                                           *)
WorkerGets ==
    /\ queue # <<>> /\ WorkerStep("waiting", "taking")
    /\ UNCHANGED <<queue, batch, table, spared>>

WantsMore == Len(batch) < MaxBatch /\ queue # <<>>

WorkerLooks ==
    /\ WorkerStep("collecting", IF WantsMore THEN "taking" ELSE "inserting")
    /\ UNCHANGED <<queue, batch, table, spared>>

WorkerTakes ==
    /\ queue # <<>> /\ WorkerStep("taking", "collecting")
    /\ batch' = Append(batch, Head(queue)) /\ queue' = Tail(queue)
    /\ UNCHANGED <<table, spared>>

(* A logging thread evicted the record the worker had seen: get_nowait()   *)
(* raises, and the batch collected so far goes with the exception.         *)
WorkerMisses ==
    /\ queue = <<>> /\ WorkerStep("taking", "sleeping")
    /\ batch' = <<>> /\ spared' = spared \cup ToSet(batch)
    /\ UNCHANGED <<queue, table>>

WorkerWakes ==
    /\ WorkerStep("sleeping", "waiting")
    /\ UNCHANGED <<queue, batch, table, spared>>

(* executemany() is all or nothing.  A coloured level is longer than the   *)
(* column (VARCHAR(10)); any insert may fail; the failure is only printed. *)
Storable(records) == ToSet(records) \cap Coloured = {}

Insert(records) ==
    \/ pool /\ Storable(records) /\ table' = table \o records /\ UNCHANGED spared
    \/ spared' = spared \cup ToSet(records) /\ UNCHANGED table

WorkerInserts ==
    /\ WorkerStep("inserting", "waiting")
    /\ Insert(batch) /\ batch' = <<>>
    /\ UNCHANGED queue

----------------------------------------------------------------------------
(* initialize(), shutdown() and check_health()                             *)

LifecycleStep(from, to) ==
    /\ lifecycle = from /\ LoopFree
    /\ lifecycle' = to
    /\ UNCHANGED <<emitting, logged>>

(* A handler with a pool returns at once.  What a late emit() left in the  *)
(* old queue is gone with it.                                              *)
InitializeBegins ==
    /\ ~pool /\ LifecycleStep("idle", "connecting")
    /\ queue' = <<>> /\ spared' = spared \cup ToSet(queue)
    /\ UNCHANGED <<pool, healthy, worker, batch, rest, probing, table>>

InitializeFails ==
    /\ LifecycleStep("connecting", "idle") \/ LifecycleStep("creating", "idle")
    /\ UNCHANGED <<queueVars, pool, healthy, worker, probing>>

\* Fault: the handler is healthy as soon as it has a pool.
ConnectedHealthy ==
    /\ LifecycleStep("connecting", "creating")
    /\ pool' = TRUE /\ healthy' = TRUE
    /\ UNCHANGED <<queueVars, worker, probing>>

Connected ==
    /\ LifecycleStep("connecting", "creating")
    /\ pool' = TRUE
    /\ UNCHANGED <<queueVars, healthy, worker, probing>>

InitializeEnds ==
    /\ LifecycleStep("creating", "idle")
    /\ worker' = "waiting" /\ healthy' = TRUE
    /\ UNCHANGED <<queueVars, pool, probing>>

ShutdownBegins ==
    /\ LifecycleStep("idle", IF Alive THEN "joining" ELSE "draining")
    /\ healthy' = FALSE
    /\ UNCHANGED <<queueVars, pool, worker, probing>>

(* The worker gets its CancelledError wherever it awaits.  An insert that  *)
(* is cut off may be in the table or not.                                  *)
WorkerCancelled ==
    /\ LifecycleStep("joining", "draining")
    /\ worker' = "done" /\ batch' = <<>>
    /\ Insert(batch)
    /\ UNCHANGED <<queue, pool, healthy, rest, probing>>

\* Fault: shutdown() does not flush what is left.
DrainNothing ==
    /\ LifecycleStep("draining", "closing")
    /\ UNCHANGED <<queueVars, pool, healthy, worker, probing>>

(* The loop of _flush_remaining(): a look, and a get_nowait().             *)
FlushLooks ==
    /\ LifecycleStep("draining", IF queue # <<>> THEN "fetching"
                                 ELSE IF rest # <<>> THEN "flushing" ELSE "closing")
    /\ UNCHANGED <<queueVars, pool, healthy, worker, probing>>

FlushTakes ==
    /\ queue # <<>> /\ LifecycleStep("fetching", "draining")
    /\ rest' = Append(rest, Head(queue)) /\ queue' = Tail(queue)
    /\ UNCHANGED <<pool, healthy, worker, batch, probing, table, spared>>

(* A logging thread that was past its look at healthy evicted the record   *)
(* the loop had seen: QueueEmpty leaves shutdown(), the records collected  *)
(* so far go with it and the pool stays open.                              *)
FlushMisses ==
    /\ queue = <<>> /\ LifecycleStep("fetching", "idle")
    /\ rest' = <<>> /\ spared' = spared \cup ToSet(rest)
    /\ UNCHANGED <<queue, pool, healthy, worker, batch, probing, table>>

Flushed(to) ==
    /\ LifecycleStep("flushing", to)
    /\ Insert(rest) /\ rest' = <<>>
    /\ UNCHANGED <<queue, pool, healthy, worker, batch, probing>>

Flush == Flushed("closing")

(* shutdown() is cancelled while it inserts: the rows may be there or not, *)
(* and the pool stays open.                                                *)
FlushCancelled == Flushed("idle")

(* pool.close() waits for the connection a probe holds; it may raise, or   *)
(* be cancelled.                                                           *)
Close ==
    /\ ~probing /\ LifecycleStep("closing", "idle")
    /\ pool' = FALSE
    /\ UNCHANGED <<queueVars, healthy, worker, probing>>

CloseFails ==
    /\ pool /\ LifecycleStep("closing", "idle")
    /\ UNCHANGED <<queueVars, pool, healthy, worker, probing>>

ProbeBegins ==
    /\ LoopFree /\ pool /\ healthy /\ ~probing
    /\ probing' = TRUE
    /\ UNCHANGED <<queueVars, pool, healthy, worker, lifecycle, emitting, logged>>

(* One failed probe silences the handler: only a shutdown() and a new      *)
(* initialize() make it healthy again.                                     *)
ProbeEnds ==
    /\ LoopFree /\ probing /\ probing' = FALSE
    /\ healthy' \in {healthy, FALSE}
    /\ UNCHANGED <<queueVars, pool, worker, lifecycle, emitting, logged>>

----------------------------------------------------------------------------
Init ==
    /\ queue = <<>> /\ batch = <<>> /\ rest = <<>> /\ table = <<>>
    /\ pool = FALSE /\ healthy = FALSE /\ probing = FALSE
    /\ worker = "none" /\ lifecycle = "idle" /\ emitting = "idle"
    /\ logged = 0 /\ spared = {}

Emit ==
    EmitBegins \/ EmitRaises \/ EmitPuts \/ EmitFindsFull \/ EmitEvicts \/ EmitPutsAgain

Worker ==
    WorkerGets \/ WorkerLooks \/ WorkerTakes \/ WorkerMisses \/ WorkerWakes \/ WorkerInserts

Initialize == InitializeBegins \/ InitializeFails \/ Connected \/ InitializeEnds

ShutdownGoesOn ==
    WorkerCancelled \/ FlushLooks \/ FlushTakes \/ FlushMisses \/ Flush \/ Close

Next ==
    \/ Emit \/ Worker \/ Initialize \/ ShutdownBegins \/ ShutdownGoesOn
    \/ FlushCancelled \/ CloseFails \/ ProbeBegins \/ ProbeEnds

Spec == Init /\ [][Next]_vars

(* The event loop schedules the worker and a shutdown() that has begun,    *)
(* and command_timeout ends every statement.  Nobody has to log, to        *)
(* initialize or to shut down.  A record put by another thread does not    *)
(* wake a loop that sleeps; the application's other tasks do.              *)
FairSpec ==
    Spec /\ WF_vars(Worker) /\ WF_vars(ShutdownGoesOn) /\ WF_vars(ProbeEnds)

----------------------------------------------------------------------------
(* emit()'s record while it is in no list.                                 *)
InHand == IF emitting = "idle" THEN <<>> ELSE <<logged>>

(* Everything not given up, oldest first.                                  *)
Kept == table \o batch \o rest \o queue \o InHand

(* A record that emit() did not refuse is in one place, and in one place   *)
(* once: written, in a batch, in the list of the flush, in the queue or in *)
(* emit()'s hand.  It may be missing only for one of seven causes, each of *)
(* which adds it to spared: it cannot be formatted, it is displaced by an  *)
(* overflow or outrun by the worker during one, it is in the batch or in   *)
(* the flush's list when an overflow takes the record they had seen, it is *)
(* in an insert that failed or was cut off by shutdown() or by shutdown()'s*)
(* own cancellation, or it was put after the last flush.                   *)
NothingVanishes ==
    /\ ToSet(Kept) \cup spared = 1..logged
    /\ ToSet(Kept) \cap spared = {}

(* The rows are in the order of logging and no record is written twice,    *)
(* through overflows, lost batches, flushes and restarts of the handler.   *)
OrderKept == \A i, j \in DOMAIN Kept : i < j => Kept[i] < Kept[j]

(* emit() accepts records only while a worker takes them: healthy is set   *)
(* after the worker is there and reset before it is cancelled, and an      *)
(* initialize() that failed half-way leaves it unset.                      *)
HealthyMeansServed == healthy => pool /\ Alive /\ lifecycle = "idle"

(* No record stays in the queue while there is a worker, or a shutdown()   *)
(* that has not drained it yet.                                            *)
Drains ==
    \A r \in Records :
        r \in ToSet(queue) /\ (Alive \/ lifecycle \in {"joining", "draining", "fetching"})
            ~> r \notin ToSet(queue)
=============================================================================
