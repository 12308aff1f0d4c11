--------------------------- MODULE CollectorPipeline ---------------------------
(***************************************************************************)
(* The data plane of the LS collector daemon                               *)
(* (collector-go/cmd/neo-dbus-collector/main.go): one reader goroutine per *)
(* started Job, one bounded queue, and the single writer goroutine that    *)
(* owns the native appender stream.                                        *)
(*                                                                         *)
(* A batch is its position in `ledger', the order in which the queue       *)
(* accepted batches.  A batch a reader waits for (the first of a Job, the  *)
(* priming one) is answered over its Finished channel, every other one by  *)
(* the WaitGroup `work' of its Job.                                        *)
(***************************************************************************)
EXTENDS Naturals, FiniteSets, SequencesExt

CONSTANTS
  Jobs,
  Databases,    (* the database mappings of the Jobs, without NoStream     *)
  DatabaseOf,   (* the mapping of each Job                                 *)
  Capacity,     (* queueCapacity of the writer policy                      *)
  MaxBatches,   (* bound of the model: batches ever accepted               *)
  PeriodicOnly, (* the stream flushes on the ticker only (the C SDK)       *)
  NoStream

ASSUME PipelineAssumption ==
  /\ IsFiniteSet(Jobs)
  /\ DatabaseOf \in [Jobs -> Databases] /\ NoStream \notin Databases
  /\ Capacity \in Nat \ {0} /\ MaxBatches \in Nat
  /\ PeriodicOnly \in BOOLEAN

VARIABLES
  reader,     (* where the goroutine of each Job is                        *)
  stopping,   (* its context is cancelled                                  *)
  stopper,    (* a stop command waits for it                               *)
  primed,     (* a first batch has become durable                          *)
  reply,      (* the Finished channel of its priming batch                 *)
  work,       (* its WaitGroup                                             *)
  leased,     (* row buffers leased from its pool                          *)
  state,      (* the published runtime state                               *)
  slots,      (* reservations taken of the queue                           *)
  queue,
  hand,       (* the batch the writer has dequeued                         *)
  pending,    (* the batches appended to the stream since its last flush   *)
  stream,     (* the database the appender stream is open for              *)
  flushNow,   (* a forced flush has been requested                         *)
  lifecycle,  (* of the daemon: up, closed, the queue closed, writer gone  *)
  ledger      (* history: the batches accepted, and how each has settled   *)

readerVars == <<reader, stopping, stopper, primed, leased>>
settleVars == <<reply, work, state, ledger>>
writerVars == <<hand, pending, stream>>
vars == <<readerVars, settleVars, writerVars, slots, queue, flushNow, lifecycle>>

Outcomes == {"open", "stored", "failed"}
Batches  == [job : Jobs, priming : BOOLEAN, outcome : Outcomes]
Holding  == {"reading", "handoff"}   \* owns a reservation and a lease

TypeOK ==
  /\ reader \in [Jobs -> {"off", "starting", "registering", "refused",
                             "entering", "wait", "priming", "drain", "failing", "done"} \cup Holding]
  /\ stopping \in [Jobs -> BOOLEAN] /\ stopper \in [Jobs -> BOOLEAN]
  /\ primed \in [Jobs -> BOOLEAN]
  /\ reply \in [Jobs -> Outcomes]
  /\ work \in [Jobs -> Nat] /\ leased \in [Jobs -> Nat]
  /\ state \in [Jobs -> {"stopped", "starting", "running", "stopping", "failed"}]
  /\ slots \in 0 .. Capacity
  /\ ledger \in Seq(Batches)
  /\ \A s \in {queue, hand, pending} : s \in Seq(DOMAIN ledger)
  /\ Len(hand) <= 1
  /\ stream \in Databases \cup {NoStream}
  /\ flushNow \in BOOLEAN
  /\ lifecycle \in {"up", "closed", "queueClosed", "exited"}

Init ==
  /\ reader = [j \in Jobs |-> "off"]
  /\ stopping = [j \in Jobs |-> FALSE] /\ stopper = [j \in Jobs |-> FALSE]
  /\ primed = [j \in Jobs |-> FALSE]
  /\ reply = [j \in Jobs |-> "open"]
  /\ work = [j \in Jobs |-> 0] /\ leased = [j \in Jobs |-> 0]
  /\ state = [j \in Jobs |-> "stopped"]
  /\ slots = 0
  /\ queue = <<>> /\ hand = <<>> /\ pending = <<>>
  /\ stream = NoStream
  /\ flushNow = FALSE
  /\ lifecycle = "up"
  /\ ledger = <<>>

-----------------------------------------------------------------------------
(* Starting and stopping a Job, and the daemon                             *)

Move(j, from, to) == reader[j] = from /\ reader' = [reader EXCEPT ![j] = to]

Publish(j, s) == state' = [state EXCEPT ![j] = s]

\* start(): a fresh activeJob with a pool of its own, published STARTING.
Start(j) ==
  /\ lifecycle = "up"
  /\ Move(j, "off", "starting")
  /\ stopping' = [stopping EXCEPT ![j] = FALSE]
  /\ primed' = [primed EXCEPT ![j] = FALSE]
  /\ leased' = [leased EXCEPT ![j] = 0]
  /\ Publish(j, "starting")
  /\ UNCHANGED <<stopper, reply, work, ledger, writerVars, slots, queue, flushNow, lifecycle>>

\* stop(): cancel the reader, ask the writer for a flush, wait.
Stop(j) ==
  /\ reader[j] # "off" /\ ~stopper[j]
  /\ lifecycle \in {"up", "closed"}
  /\ stopper' = [stopper EXCEPT ![j] = TRUE]
  /\ stopping' = [stopping EXCEPT ![j] = TRUE]
  /\ Publish(j, "stopping")
  /\ flushNow' = TRUE
  /\ UNCHANGED <<reader, primed, leased, reply, work, ledger, writerVars, slots, queue, lifecycle>>

StopReturns(j) ==
  /\ stopper[j]
  /\ Move(j, "done", "off")
  /\ stopper' = [stopper EXCEPT ![j] = FALSE]
  /\ Publish(j, "stopped")
  /\ UNCHANGED <<stopping, primed, leased, reply, work, ledger, writerVars, slots, queue,
                 flushNow, lifecycle>>

\* shutdown(): no start is accepted any more and every reader is cancelled.
Shutdown ==
  /\ lifecycle = "up"
  /\ lifecycle' = "closed"
  /\ stopping' = [j \in Jobs |-> stopping[j] \/ reader[j] # "off"]
  /\ flushNow' = TRUE
  /\ UNCHANGED <<reader, stopper, primed, leased, settleVars, writerVars, slots, queue>>

\* Mutant: it waits for the stop commands instead of the readers.
CloseQueue_WaitsForStops ==
  /\ lifecycle = "closed"
  /\ \A j \in Jobs : reader[j] = "off"
  /\ lifecycle' = "queueClosed"
  /\ UNCHANGED <<readerVars, settleVars, writerVars, slots, queue, flushNow>>

\* Mutant: it does not wait for the readers it has cancelled.
CloseQueue_NoWait ==
  /\ lifecycle = "closed"
  /\ lifecycle' = "queueClosed"
  /\ UNCHANGED <<readerVars, settleVars, writerVars, slots, queue, flushNow>>

\* It closes the queue when the reader of every Job is done.
CloseQueue ==
  /\ lifecycle = "closed"
  /\ \A j \in Jobs : reader[j] \in {"off", "done"}
  /\ lifecycle' = "queueClosed"
  /\ reader' = [j \in Jobs |-> IF stopper[j] THEN reader[j] ELSE "off"]
  /\ UNCHANGED <<stopping, stopper, primed, leased, settleVars, writerVars, slots, queue, flushNow>>

-----------------------------------------------------------------------------
(* The reader goroutine                                                    *)

\* recordError publishes the Job as running, whatever it was before.
RecordError(j) == Publish(j, "running")

Release(j) == leased' = [leased EXCEPT ![j] = @ - 1]

\* startJob: the tags are ready, the timer is set up and RUNNING is published.
Started(j) ==
  /\ ~stopping[j]
  /\ Move(j, "registering", "entering")
  /\ Publish(j, "running")
  /\ UNCHANGED <<stopping, stopper, primed, leased, reply, work, ledger, writerVars, slots,
                 queue, flushNow, lifecycle>>

\* The checkpoint is written and the reader's scheduling is entered.
EnterReader(j) ==
  /\ Move(j, "entering", "wait")
  /\ UNCHANGED <<stopping, stopper, primed, leased, settleVars, writerVars, slots, queue,
                 flushNow, lifecycle>>

\* No stream or tags to prepare with, no timer, checkpoint or scheduling.
StartFails(j) ==
  /\ \E from \in {"registering", "refused", "entering"} :
       (from = "refused" => ~stopping[j]) /\ Move(j, from, "failing")
  /\ UNCHANGED <<stopping, stopper, primed, leased, settleVars, writerVars, slots, queue,
                 flushNow, lifecycle>>

\* failStart(): the Job leaves the table; a stop command may be waiting for it.
FailStart(j) ==
  /\ Move(j, "failing", IF stopper[j] THEN "done" ELSE "off")
  /\ Publish(j, "failed")
  /\ UNCHANGED <<stopping, stopper, primed, leased, reply, work, ledger, writerVars, slots,
                 queue, flushNow, lifecycle>>

\* A cancelled preparation leaves the Job as it is for stop().
StartCancelled(j) ==
  /\ stopping[j]
  /\ \E from \in {"starting", "registering", "refused"} : Move(j, from, "done")
  /\ UNCHANGED <<stopping, stopper, primed, leased, settleVars, writerVars, slots, queue,
                 flushNow, lifecycle>>

\* A cycle starts with a reservation of the queue and a buffer.
BeginCycle(j) ==
  /\ ~stopping[j]
  /\ slots < Capacity
  /\ Len(ledger) + Cardinality({k \in Jobs : reader[k] \in Holding}) < MaxBatches
  /\ Move(j, "wait", "reading")
  /\ slots' = slots + 1
  /\ leased' = [leased EXCEPT ![j] = @ + 1]
  /\ UNCHANGED <<stopping, stopper, primed, settleVars, writerVars, queue, flushNow, lifecycle>>

\* The connection or the DBus call fails, or the Job is stopped meanwhile; an
\* error of the connection is recorded even then.
ReadFails(j) ==
  /\ Move(j, "reading", "wait")
  /\ slots' = slots - 1
  /\ Release(j)
  /\ RecordError(j) \/ (stopping[j] /\ UNCHANGED state)
  /\ UNCHANGED <<stopping, stopper, primed, reply, work, ledger, writerVars, queue,
                 flushNow, lifecycle>>

\* work.Add(1) comes before the select that hands the batch over.
ReadSucceeds(j) ==
  /\ ~stopping[j]
  /\ Move(j, "reading", "handoff")
  /\ work' = [work EXCEPT ![j] = @ + 1]
  /\ UNCHANGED <<stopping, stopper, primed, leased, reply, state, ledger, writerVars, slots,
                 queue, flushNow, lifecycle>>

Enqueue(j) ==
  /\ Len(queue) < Capacity
  /\ Move(j, "handoff", IF primed[j] THEN "wait" ELSE "priming")
  /\ ledger' = Append(ledger, [job |-> j, priming |-> ~primed[j], outcome |-> "open"])
  /\ queue' = Append(queue, Len(ledger'))
  /\ flushNow' = (flushNow \/ (primed[j] /\ stopping[j]))
  /\ UNCHANGED <<stopping, stopper, primed, leased, reply, work, state, writerVars, slots, lifecycle>>

\* Mutant: the cancelled batch keeps its buffer.
HandoffFails_Leak(j) ==
  /\ stopping[j] \/ Len(queue) >= Capacity
  /\ Move(j, "handoff", "wait")
  /\ slots' = slots - 1
  /\ work' = [work EXCEPT ![j] = @ - 1]
  /\ UNCHANGED <<stopping, stopper, primed, leased, reply, state, ledger, writerVars, queue,
                 flushNow, lifecycle>>

\* The other cases of the select: cancelled, or the queue is full.
HandoffFails(j) ==
  /\ stopping[j] \/ Len(queue) >= Capacity
  /\ Move(j, "handoff", "wait")
  /\ slots' = slots - 1
  /\ Release(j)
  /\ work' = [work EXCEPT ![j] = @ - 1]
  /\ UNCHANGED <<stopping, stopper, primed, reply, state, ledger, writerVars, queue,
                 flushNow, lifecycle>>

\* The reader waits for its priming batch even after it is cancelled.
TakeReply(j) ==
  /\ reply[j] # "open"
  /\ Move(j, "priming", "wait")
  /\ reply' = [reply EXCEPT ![j] = "open"]
  /\ work' = [work EXCEPT ![j] = @ - 1]
  /\ primed' = [primed EXCEPT ![j] = (reply[j] = "stored")]
  /\ IF reply[j] = "failed" THEN RecordError(j) ELSE UNCHANGED state
  /\ UNCHANGED <<stopping, stopper, leased, ledger, writerVars, slots, queue, flushNow, lifecycle>>

\* The timer returns an error, its own or the cancellation.
TimerFails(j) ==
  /\ Move(j, "wait", "drain")
  /\ UNCHANGED <<stopping, stopper, primed, leased, settleVars, writerVars, slots, queue,
                 flushNow, lifecycle>>

\* Mutant: the reader ends without waiting for its batches.
Drained_NoWait(j) ==
  /\ Move(j, "drain", IF stopping[j] THEN "done" ELSE "failing")
  /\ UNCHANGED <<stopping, stopper, primed, leased, settleVars, writerVars, slots, queue,
                 flushNow, lifecycle>>

\* active.work.Wait(), then failStart unless the Job was stopped.
Drained(j) ==
  /\ work[j] = 0
  /\ Move(j, "drain", IF stopping[j] THEN "done" ELSE "failing")
  /\ UNCHANGED <<stopping, stopper, primed, leased, settleVars, writerVars, slots, queue,
                 flushNow, lifecycle>>

-----------------------------------------------------------------------------
(* The writer goroutine                                                    *)

\* finish() for a set of batches: the Finished channel of a priming batch, or
\* recordError and work.Done.
Settle(stored, failed) ==
  LET Answer(i) == IF i \in stored THEN "stored" ELSE "failed"
      Of(j, priming) == {i \in stored \cup failed :
                           ledger[i].job = j /\ ledger[i].priming = priming}
  IN  /\ ledger' = [i \in DOMAIN ledger |->
                      IF i \in stored \cup failed
                      THEN [ledger[i] EXCEPT !.outcome = Answer(i)] ELSE ledger[i]]
      /\ work' = [j \in Jobs |-> work[j] - Cardinality(Of(j, FALSE))]
      /\ reply' = [j \in Jobs |->
                     IF Of(j, TRUE) = {} THEN reply[j]
                     ELSE Answer(CHOOSE i \in Of(j, TRUE) : TRUE)]
      /\ state' = [j \in Jobs |->
                     IF Of(j, FALSE) \cap failed = {} THEN state[j] ELSE "running"]

\* flush() of the batches `batches', which the stream has been given: after an
\* error the stream is closed and forgotten.
Flush(batches) ==
  /\ pending' = <<>>
  /\ \/ Settle(batches, {}) /\ UNCHANGED stream
     \/ batches # {} /\ Settle({}, batches) /\ stream' = NoStream

AcceptsForcedFlush == stream # NoStream /\ ~PeriodicOnly

\* Mutant: closing the stream for another database forgets what is pending.
Prepare_ForgetsPending(db, ok, needed) ==
  /\ stream = db => ok
  /\ stream' = IF ok THEN db ELSE NoStream
  /\ pending' = IF stream \in {db, NoStream} THEN pending ELSE <<>>
  /\ Settle({}, IF ok THEN {} ELSE needed)

\* prepare(db), ok or not; a batch that needed it fails with it.  A stream for
\* another database is flushed when it accepts that, and closed, which settles
\* what is pending; a failed close fails prepare, a failed flush does not.
Prepare(db, ok, needed) ==
  LET lost == IF ok THEN {} ELSE needed
  IN  /\ stream = db => ok
      /\ stream' = IF ok THEN db ELSE NoStream
      /\ IF stream \in {db, NoStream}
         THEN Settle({}, lost) /\ UNCHANGED pending
         ELSE /\ pending' = <<>>
              /\ \/ Settle(ToSet(pending), lost)
                 \/ (PeriodicOnly => ~ok) /\ Settle({}, ToSet(pending) \cup lost)

\* The request of a starting Job.
PrepareStart(j) ==
  /\ hand = <<>>
  /\ \E ok \in BOOLEAN :
       /\ Move(j, "starting", IF ok THEN "registering" ELSE "refused")
       /\ Prepare(DatabaseOf[j], ok, {})
  /\ UNCHANGED <<stopping, stopper, primed, leased, hand, slots, queue, flushNow, lifecycle>>

\* Receiving a batch returns its reservation.
Dequeue ==
  /\ hand = <<>> /\ queue # <<>>
  /\ hand' = <<Head(queue)>>
  /\ queue' = Tail(queue)
  /\ slots' = slots - 1
  /\ UNCHANGED <<readerVars, settleVars, pending, stream, flushNow, lifecycle>>

InHand(i) == hand = <<i>>
Owner(i)  == ledger[i].job

\* prepare() for the batch in hand; its buffer goes back when that fails.
PrepareBatch(i) ==
  /\ InHand(i) /\ stream # DatabaseOf[Owner(i)]
  /\ \E ok \in BOOLEAN :
       /\ Prepare(DatabaseOf[Owner(i)], ok, {i})
       /\ hand' = IF ok THEN hand ELSE <<>>
       /\ IF ok THEN UNCHANGED leased ELSE Release(Owner(i))
  /\ UNCHANGED <<reader, stopping, stopper, primed, slots, queue, flushNow, lifecycle>>

\* The stream takes the rows, and the buffer goes back; a priming batch is
\* flushed at once when the stream allows it.
AppendBatch(i) ==
  /\ InHand(i) /\ stream = DatabaseOf[Owner(i)]
  /\ hand' = <<>>
  /\ Release(Owner(i))
  /\ IF ledger[i].priming /\ AcceptsForcedFlush
     THEN Flush(ToSet(pending) \cup {i})
     ELSE pending' = Append(pending, i) /\ UNCHANGED <<settleVars, stream>>
  /\ UNCHANGED <<reader, stopping, stopper, primed, slots, queue, flushNow, lifecycle>>

\* The tags or the rows are refused: the stream is closed, and all it was given
\* since the last flush fails.
AppendFails(i) ==
  /\ InHand(i) /\ stream = DatabaseOf[Owner(i)]
  /\ hand' = <<>>
  /\ Release(Owner(i))
  /\ stream' = NoStream
  /\ pending' = <<>>
  /\ Settle({}, ToSet(pending) \cup {i})
  /\ UNCHANGED <<reader, stopping, stopper, primed, slots, queue, flushNow, lifecycle>>

\* Mutant: the ticker asks whether the stream accepts a forced flush.
Tick_Forced ==
  /\ hand = <<>> /\ pending # <<>> /\ AcceptsForcedFlush
  /\ Flush(ToSet(pending))
  /\ UNCHANGED <<readerVars, hand, slots, queue, flushNow, lifecycle>>

\* The flush ticker.
Tick ==
  /\ hand = <<>> /\ pending # <<>>
  /\ Flush(ToSet(pending))
  /\ UNCHANGED <<readerVars, hand, slots, queue, flushNow, lifecycle>>

FlushRequested ==
  /\ hand = <<>> /\ flushNow
  /\ flushNow' = FALSE
  /\ IF AcceptsForcedFlush
     THEN Flush(ToSet(pending)) ELSE UNCHANGED <<settleVars, pending, stream>>
  /\ UNCHANGED <<readerVars, hand, slots, queue, lifecycle>>

\* The closed queue is empty: a last flush, when allowed, and the close settle
\* what is pending.
WriterExits ==
  /\ lifecycle = "queueClosed"
  /\ hand = <<>> /\ queue = <<>>
  /\ lifecycle' = "exited"
  /\ pending' = <<>> /\ stream' = NoStream
  /\ Settle(ToSet(pending), {}) \/ Settle({}, ToSet(pending))
  /\ UNCHANGED <<readerVars, hand, slots, queue, flushNow>>

ReaderStep(j) ==
  \/ Started(j) \/ EnterReader(j) \/ StartFails(j) \/ StartCancelled(j) \/ FailStart(j)
  \/ BeginCycle(j) \/ ReadFails(j) \/ ReadSucceeds(j) \/ Enqueue(j) \/ HandoffFails(j)
  \/ TakeReply(j) \/ TimerFails(j) \/ Drained(j)

BatchStep(i) == PrepareBatch(i) \/ AppendBatch(i) \/ AppendFails(i)

WriterStep ==
  \/ \E j \in Jobs : PrepareStart(j)
  \/ Dequeue \/ \E i \in DOMAIN ledger : BatchStep(i)
  \/ Tick \/ FlushRequested \/ WriterExits

Next ==
  \/ \E j \in Jobs : Start(j) \/ Stop(j) \/ StopReturns(j) \/ ReaderStep(j)
  \/ Shutdown \/ CloseQueue
  \/ lifecycle # "exited" /\ WriterStep

Spec == Init /\ [][Next]_vars

-----------------------------------------------------------------------------
(* Properties                                                              *)

InFlight == queue \o hand

BatchesOf(j, s) == {i \in ToSet(s) : Owner(i) = j}

(***************************************************************************)
(* The writer flushes whenever something is pending, on whatever stream it *)
(* has: it never has batches pending without a stream to flush.            *)
(***************************************************************************)
NoFlushWithoutStream == pending # <<>> => stream # NoStream

(***************************************************************************)
(* A reservation is a place in the queue: a reader that has read its rows  *)
(* is never turned away by a full queue, however many readers hold one.    *)
(***************************************************************************)
ReservationIsAPlace == \A j \in Jobs : reader[j] = "handoff" => Len(queue) < Capacity

(***************************************************************************)
(* Every leased buffer is with its reader, in the queue or in the writer's *)
(* hand, and every reservation with a reader or in the queue: the error,   *)
(* cancellation and stop paths neither leak nor return one twice.          *)
(***************************************************************************)
Accounted ==
  /\ slots = Len(queue) + Cardinality({j \in Jobs : reader[j] \in Holding})
  /\ \A j \in Jobs :
       leased[j] = Cardinality(BatchesOf(j, InFlight))
                     + (IF reader[j] \in Holding THEN 1 ELSE 0)

(***************************************************************************)
(* The books of the data plane balance: the types, the stream, the places  *)
(* and the buffers, on every path through an error, a cancel or a stop.    *)
(***************************************************************************)
Balanced == TypeOK /\ NoFlushWithoutStream /\ ReservationIsAPlace /\ Accounted

(***************************************************************************)
(* When a stop command has returned, or a Job has failed, nothing of it is *)
(* left behind: no batch in the queue, in the hand of the writer or in the *)
(* unflushed stream, no buffer on lease and no unanswered work.            *)
(***************************************************************************)
StopDrains ==
  \A j \in Jobs : reader[j] \in {"off", "done"} =>
    /\ leased[j] = 0 /\ work[j] = 0 /\ reply[j] = "open"
    /\ BatchesOf(j, InFlight \o pending) = {}

(***************************************************************************)
(* shutdown() closes the queue under nobody's feet: a send on a closed     *)
(* channel would bring the daemon down.                                    *)
(***************************************************************************)
NoSendAfterClose ==
  lifecycle \in {"queueClosed", "exited"} => \A j \in Jobs : reader[j] \in {"off", "done"}

(***************************************************************************)
(* Every accepted batch is answered once and in order: the data plane      *)
(* implements the ledger.                                                  *)
(***************************************************************************)
Ledger == INSTANCE BatchLedger WITH
  log        <- [i \in DOMAIN ledger |-> [job |-> ledger[i].job, outcome |-> ledger[i].outcome]],
  collecting <- {j \in Jobs : reader[j] \notin {"off", "done"}}

AnsweredOnceInOrder == Ledger!Spec

(***************************************************************************)
(* A Job is STOPPING from the stop command to its end, and accepts no      *)
(* other lifecycle request: it is never published RUNNING again meanwhile. *)
(***************************************************************************)
StoppingUntilStopped == \A j \in Jobs : stopper[j] => state[j] # "running"

-----------------------------------------------------------------------------
(***************************************************************************)
(* What the runtime owes a Job that is being stopped and the writer: the   *)
(* goroutines run, a cancelled DBus call and the database calls return,    *)
(* and select is fair to a ticker that keeps ticking between batches, as   *)
(* Go picks among the ready cases at random.  Nothing is owed to a Job     *)
(* that is not being stopped.                                              *)
(***************************************************************************)
Fairness ==
  /\ \A j \in Jobs : WF_vars(StopReturns(j)) /\ WF_vars(stopping[j] /\ ReaderStep(j))
  /\ WF_vars(CloseQueue)
  /\ WF_vars(Dequeue) /\ WF_vars(\E i \in DOMAIN ledger : BatchStep(i))
  /\ SF_vars(Tick)
  /\ WF_vars(WriterExits)

LiveSpec == Spec /\ Fairness

(***************************************************************************)
(* A stop command returns, whatever the reader and the writer are doing,   *)
(* also when the stream ignores the flush that the command asks for.       *)
(***************************************************************************)
StopReturnsInTheEnd == \A j \in Jobs : stopper[j] ~> reader[j] = "off"

(***************************************************************************)
(* A shutdown ends with the writer gone and every accepted batch answered. *)
(***************************************************************************)
ShutdownEnds ==
  lifecycle # "up" ~>
    lifecycle = "exited" /\ \A i \in DOMAIN ledger : ledger[i].outcome # "open"

=============================================================================
