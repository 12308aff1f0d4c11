------------------------ MODULE CollectorPipelineProofs ------------------------
(***************************************************************************)
(* Proofs about CollectorPipeline for any finite set of Jobs, any number   *)
(* of batches, any capacity of the queue and either kind of stream: the    *)
(* books balance, a stop leaves nothing behind, nothing is sent after the  *)
(* close, and the data plane implements BatchLedger.                       *)
(***************************************************************************)
EXTENDS CollectorPipeline, FiniteSetTheorems, SequenceTheorems, TLAPS

-----------------------------------------------------------------------------
(* The inductive invariant                                                 *)

\* The batches of the ledger are answered up to the Answered-th, and the writer
\* is done with them up to the Processed-th: the rest of them, in their order,
\* are pending in the stream, in the writer's hand and in the queue.
Processed == Len(ledger) - Len(queue) - Len(hand)
Answered  == Processed - Len(pending)

Ordered ==
  /\ Len(hand) <= 1
  /\ Answered >= 0
  /\ \A k \in 1 .. Len(pending) : pending[k] = Answered + k
  /\ \A k \in 1 .. Len(hand) : hand[k] = Processed + k
  /\ \A k \in 1 .. Len(queue) : queue[k] = Processed + Len(hand) + k
  /\ \A i \in 1 .. Len(ledger) : ledger[i].outcome = "open" <=> i > Answered

ReaderStates == {"off", "starting", "registering", "refused", "entering", "wait", "priming",
                 "drain", "failing", "done"} \cup Holding

\* TypeOK, but for what follows from the counts.
Typed ==
  /\ reader \in [Jobs -> ReaderStates]
  /\ stopping \in [Jobs -> BOOLEAN] /\ stopper \in [Jobs -> BOOLEAN]
  /\ primed \in [Jobs -> BOOLEAN]
  /\ reply \in [Jobs -> Outcomes]
  /\ work \in [Jobs -> Int] /\ leased \in [Jobs -> Int]
  /\ state \in [Jobs -> {"stopped", "starting", "running", "stopping", "failed"}]
  /\ slots \in Int /\ slots <= Capacity
  /\ ledger \in Seq(Batches)
  /\ queue \in Seq(Nat) /\ hand \in Seq(Nat) /\ pending \in Seq(Nat)
  /\ stream \in Databases \cup {NoStream}
  /\ flushNow \in BOOLEAN
  /\ lifecycle \in {"up", "closed", "queueClosed", "exited"}

Cycling       == {j \in Jobs : reader[j] \in Holding}
InTransit(j)  == {i \in 1 .. Len(ledger) : i > Processed /\ Owner(i) = j}
Unanswered(j) == {i \in 1 .. Len(ledger) :
                    i > Answered /\ Owner(i) = j /\ ~ledger[i].priming}

\* What a reader holds by itself, besides its batches: a buffer and a place of
\* the queue, and a unit of work.
Leases(s) == IF s \in Holding THEN 1 ELSE 0
Owes(s)   == IF s \in {"handoff", "priming"} THEN 1 ELSE 0

Counted ==
  /\ slots = Len(queue) + Cardinality(Cycling)
  /\ \A j \in Jobs : /\ leased[j] = Cardinality(InTransit(j)) + Leases(reader[j])
                     /\ work[j] = Cardinality(Unanswered(j)) + Owes(reader[j])

\* An unanswered priming batch is its Job's only one, and its reader waits for it.
Priming ==
  /\ \A j \in Jobs : reply[j] # "open" => reader[j] = "priming"
  /\ \A i \in 1 .. Len(ledger) :
       i > Answered /\ ledger[i].priming =>
         /\ reader[Owner(i)] = "priming" /\ reply[Owner(i)] = "open"
         /\ \A k \in 1 .. Len(ledger) :
              k > Answered /\ ledger[k].priming /\ Owner(k) = Owner(i) => k = i

AtRest == {"off", "starting", "registering", "refused", "entering", "failing", "done"}

\* A reader that has not entered its cycles, or has left them, has no batches.
Rested ==
  \A i \in 1 .. Len(ledger) : reader[Owner(i)] \in AtRest => i <= Answered

IInv ==
  Typed /\ Ordered /\ Counted /\ Priming /\ Rested /\ NoFlushWithoutStream /\ NoSendAfterClose

-----------------------------------------------------------------------------
(* Sequences and counts                                                    *)

\* The lengths are numbers, and every batch has its Job.
LEMMA Lengths ==
  ASSUME Typed
  PROVE  /\ Len(ledger) \in Nat /\ Len(queue) \in Nat /\ Len(hand) \in Nat /\ Len(pending) \in Nat
         /\ Processed \in Int /\ Answered \in Int
         /\ DOMAIN ledger = 1 .. Len(ledger)
         /\ \A i \in 1 .. Len(ledger) : /\ ledger[i] \in Batches /\ Owner(i) \in Jobs
                                        /\ ledger[i].priming \in BOOLEAN
                                        /\ ledger[i].outcome \in Outcomes
  <1>1. /\ Len(ledger) \in Nat /\ Len(queue) \in Nat /\ Len(hand) \in Nat /\ Len(pending) \in Nat
        /\ DOMAIN ledger = 1 .. Len(ledger)
        /\ \A i \in 1 .. Len(ledger) : ledger[i] \in Batches
    BY DEF Typed
  <1>2. Processed \in Int /\ Answered \in Int
    BY <1>1 DEF Processed, Answered
  <1>3. QED
    BY <1>1, <1>2 DEF Batches, Owner

\* What is counted is finite.
LEMMA Counts ==
  ASSUME Typed
  PROVE  /\ IsFiniteSet(Cycling) /\ Cardinality(Cycling) \in Nat
         /\ \A j \in Jobs : /\ IsFiniteSet(InTransit(j)) /\ Cardinality(InTransit(j)) \in Nat
                            /\ IsFiniteSet(Unanswered(j)) /\ Cardinality(Unanswered(j)) \in Nat
  <1>1. \A S : S \subseteq Jobs \/ S \subseteq 1 .. Len(ledger) =>
               IsFiniteSet(S) /\ Cardinality(S) \in Nat
    <2>1. IsFiniteSet(Jobs) /\ IsFiniteSet(1 .. Len(ledger))
      BY PipelineAssumption, Lengths, FS_Interval
    <2>2. QED
      BY <2>1, FS_Subset, FS_CardinalityType
  <1>2. Cycling \subseteq Jobs
    BY DEF Cycling
  <1>3. \A j \in Jobs : InTransit(j) \subseteq 1 .. Len(ledger) /\ Unanswered(j) \subseteq 1 .. Len(ledger)
    BY DEF InTransit, Unanswered
  <1>4. QED
    BY <1>1, <1>2, <1>3

-----------------------------------------------------------------------------
(* The steps of a reader                                                   *)

\* A reader that goes from one state to another and takes or gives back what
\* each of them holds.
LEMMA ReaderInv ==
  ASSUME IInv, NEW j \in Jobs, NEW from, NEW to \in ReaderStates \ {"priming"},
         Move(j, from, to),
         UNCHANGED <<ledger, queue, hand, pending, stream, lifecycle>>,
         stopping' \in [Jobs -> BOOLEAN], stopper' \in [Jobs -> BOOLEAN],
         primed' \in [Jobs -> BOOLEAN], flushNow' \in BOOLEAN,
         state' \in [Jobs -> {"stopped", "starting", "running", "stopping", "failed"}],
         slots' = slots + Leases(to) - Leases(from), slots' <= Capacity,
         leased' = [leased EXCEPT ![j] = @ + Leases(to) - Leases(from)],
         work' = [work EXCEPT ![j] = @ + Owes(to) - Owes(from)],
         reply' = [reply EXCEPT ![j] = "open"],
         from = "priming" => reply[j] # "open",
         to \in AtRest /\ from \notin AtRest =>
           \A i \in 1 .. Len(ledger) : Owner(i) = j => i <= Answered,
         from = "off" => to = "off" \/ lifecycle = "up",
         from = "done" => to \in {"off", "done"}
  PROVE  IInv'
  <1>1. /\ Typed /\ reader[j] = from /\ reader'[j] = to
        /\ \A k \in Jobs \ {j} : reader'[k] = reader[k]
        /\ reader' \in [Jobs -> ReaderStates]
    BY DEF IInv, Typed, Move
  <1>2. Typed'
    <2>1. slots' \in Int /\ leased' \in [Jobs -> Int] /\ work' \in [Jobs -> Int]
      BY <1>1 DEF Typed, Leases, Owes
    <2>2. reply' \in [Jobs -> Outcomes]
      BY <1>1 DEF Typed, Outcomes
    <2>3. QED
      BY <1>1, <2>1, <2>2 DEF Typed
  <1>3. /\ Processed' = Processed /\ Answered' = Answered
        /\ \A i : Owner(i)' = Owner(i)
    BY DEF Processed, Answered, Owner
  <1>4. Ordered'
    BY <1>3 DEF IInv, Ordered
  <1>5. Counted'
    <2>1. \A k : InTransit(k)' = InTransit(k) /\ Unanswered(k)' = Unanswered(k)
      BY <1>3 DEF InTransit, Unanswered
    <2>2. Cardinality(Cycling') = Cardinality(Cycling) + Leases(to) - Leases(from)
      <3>1. IsFiniteSet(Cycling) /\ Cardinality(Cycling) \in Nat
        BY <1>1, Counts
      <3>2. CASE to \in Holding
        <4>1. Cycling' = Cycling \cup {j}
          BY <1>1, <3>2 DEF Cycling
        <4>2. j \in Cycling <=> from \in Holding
          BY <1>1 DEF Cycling
        <4>3. Cardinality(Cycling \cup {j}) = Cardinality(Cycling) + 1 - Leases(from)
          <5>1. Cardinality(Cycling \cup {j}) =
                  IF j \in Cycling THEN Cardinality(Cycling) ELSE Cardinality(Cycling)+1
            BY <3>1, FS_AddElement
          <5>2. QED
            BY <3>1, <4>2, <5>1 DEF Leases
        <4>4. QED
          BY <3>1, <3>2, <4>1, <4>3 DEF Leases
      <3>3. CASE to \notin Holding
        <4>1. Cycling' = Cycling \ {j}
          BY <1>1, <3>3 DEF Cycling
        <4>2. j \in Cycling <=> from \in Holding
          BY <1>1 DEF Cycling
        <4>3. Cardinality(Cycling \ {j}) = Cardinality(Cycling) - Leases(from)
          <5>1. Cardinality(Cycling \ {j}) =
                  IF j \in Cycling THEN Cardinality(Cycling)-1 ELSE Cardinality(Cycling)
            BY <3>1, FS_RemoveElement
          <5>2. QED
            BY <3>1, <4>2, <5>1 DEF Leases
        <4>4. QED
          BY <3>1, <3>3, <4>1, <4>3 DEF Leases
      <3>4. QED
        BY <3>2, <3>3
    <2>3. slots' = Len(queue') + Cardinality(Cycling')
      <3>1. /\ Cardinality(Cycling) \in Nat /\ Len(queue) \in Nat
            /\ Leases(to) \in Int /\ Leases(from) \in Int
        BY <1>1, Counts, Lengths DEF Leases
      <3>2. slots = Len(queue) + Cardinality(Cycling)
        BY DEF IInv, Counted
      <3>3. QED
        BY <2>2, <3>1, <3>2
    <2>4. ASSUME NEW k \in Jobs
          PROVE  /\ leased'[k] = Cardinality(InTransit(k)') + Leases(reader'[k])
                 /\ work'[k] = Cardinality(Unanswered(k)') + Owes(reader'[k])
      <3>1. /\ leased[k] = Cardinality(InTransit(k)) + Leases(reader[k])
            /\ work[k] = Cardinality(Unanswered(k)) + Owes(reader[k])
            /\ Cardinality(InTransit(k)) \in Nat /\ Cardinality(Unanswered(k)) \in Nat
        BY <1>1, Counts DEF IInv, Counted
      <3>2. \A s : Leases(s) \in Int /\ Owes(s) \in Int
        BY DEF Leases, Owes
      <3>3. CASE k = j
        <4>1. /\ leased'[j] = leased[j] + Leases(to) - Leases(from)
              /\ work'[j] = work[j] + Owes(to) - Owes(from)
          BY <1>1 DEF Typed
        <4>2. /\ leased[j] = Cardinality(InTransit(j)) + Leases(from)
              /\ work[j] = Cardinality(Unanswered(j)) + Owes(from)
              /\ Cardinality(InTransit(j)) \in Int /\ Cardinality(Unanswered(j)) \in Int
          BY <1>1, <3>1, <3>3
        <4>3. \A c, x, y \in Int : (c + x) + y - x = c + y
          OBVIOUS
        <4>4. /\ leased'[j] = Cardinality(InTransit(j)) + Leases(to)
              /\ work'[j] = Cardinality(Unanswered(j)) + Owes(to)
          BY <3>2, <4>1, <4>2, <4>3
        <4>5. QED
          BY <1>1, <2>1, <3>3, <4>4
      <3>4. CASE k # j
        BY <1>1, <2>1, <3>1, <3>4 DEF Typed
      <3>5. QED
        BY <3>3, <3>4
    <2>5. QED
      BY <2>3, <2>4 DEF Counted
  <1>6. Priming'
    <2>1. \A k \in Jobs : /\ reply'[k] # "open" => k # j /\ reply[k] # "open"
                          /\ reply[k] = "open" => reply'[k] = "open"
      BY <1>1 DEF Typed
    <2>2. \A k \in Jobs : reply[k] # "open" => reader[k] = "priming"
      BY DEF IInv, Priming
    <2>3. \A i \in 1 .. Len(ledger) : i > Answered /\ ledger[i].priming =>
            /\ Owner(i) \in Jobs \ {j} /\ reader[Owner(i)] = "priming" /\ reply[Owner(i)] = "open"
            /\ \A k \in 1 .. Len(ledger) :
                 k > Answered /\ ledger[k].priming /\ Owner(k) = Owner(i) => k = i
      BY <1>1, Lengths DEF IInv, Priming
    <2>4. ASSUME NEW k \in Jobs, reply'[k] # "open" PROVE reader'[k] = "priming"
      <3>1. k \in Jobs \ {j} /\ reader[k] = "priming"
        BY <2>1, <2>2, <2>4
      <3>2. QED
        BY <1>1, <3>1
    <2>5. \A i \in 1 .. Len(ledger) : i > Answered /\ ledger[i].priming =>
            /\ reader'[Owner(i)] = "priming" /\ reply'[Owner(i)] = "open"
            /\ \A k \in 1 .. Len(ledger) :
                 k > Answered /\ ledger[k].priming /\ Owner(k) = Owner(i) => k = i
      <3>1. SUFFICES ASSUME NEW i \in 1 .. Len(ledger), i > Answered, ledger[i].priming
                     PROVE  /\ reader'[Owner(i)] = "priming" /\ reply'[Owner(i)] = "open"
                            /\ \A k \in 1 .. Len(ledger) :
                                 k > Answered /\ ledger[k].priming /\ Owner(k) = Owner(i) => k = i
        OBVIOUS
      <3>2. Owner(i) \in Jobs \ {j} /\ reader[Owner(i)] = "priming" /\ reply[Owner(i)] = "open"
        BY <2>3, <3>1
      <3>3. reader'[Owner(i)] = "priming" /\ reply'[Owner(i)] = "open"
        BY <1>1, <2>1, <3>2
      <3>4. QED
        BY <2>3, <3>1, <3>3
    <2>6. QED
      BY <1>3, <2>4, <2>5 DEF Priming
  <1>7. Rested'
    BY <1>1, <1>3, Lengths DEF IInv, Rested
  <1>8. NoFlushWithoutStream' /\ NoSendAfterClose'
    BY <1>1 DEF IInv, NoFlushWithoutStream, NoSendAfterClose
  <1>9. QED
    BY <1>2, <1>4, <1>5, <1>6, <1>7, <1>8 DEF IInv

\* A reader that holds no more and no less than before.
LEMMA QuietInv ==
  ASSUME IInv, NEW j \in Jobs, NEW from, NEW to \in ReaderStates \ {"priming"},
         Move(j, from, to), from # "priming",
         Leases(to) = Leases(from), Owes(to) = Owes(from),
         UNCHANGED <<ledger, queue, hand, pending, stream, lifecycle, slots, leased, work, reply>>,
         stopping' \in [Jobs -> BOOLEAN], stopper' \in [Jobs -> BOOLEAN],
         primed' \in [Jobs -> BOOLEAN], flushNow' \in BOOLEAN,
         state' \in [Jobs -> {"stopped", "starting", "running", "stopping", "failed"}],
         to \in AtRest /\ from \notin AtRest =>
           \A i \in 1 .. Len(ledger) : Owner(i) = j => i <= Answered,
         from = "off" => to = "off" \/ lifecycle = "up",
         from = "done" => to \in {"off", "done"}
  PROVE  IInv'
  <1>1. Leases(from) \in Int /\ Owes(from) \in Int
    BY DEF Leases, Owes
  <1>2. slots' = slots + Leases(to) - Leases(from) /\ slots' <= Capacity
    BY <1>1 DEF IInv, Typed
  <1>3. /\ leased' = [leased EXCEPT ![j] = @ + Leases(to) - Leases(from)]
        /\ work' = [work EXCEPT ![j] = @ + Owes(to) - Owes(from)]
    <2>1. \A x \in Int : x + Leases(to) - Leases(from) = x /\ x + Owes(to) - Owes(from) = x
      BY <1>1
    <2>2. leased[j] \in Int /\ work[j] \in Int
      BY DEF IInv, Typed
    <2>3. leased = [leased EXCEPT ![j] = leased[j]] /\ work = [work EXCEPT ![j] = work[j]]
      BY DEF IInv, Typed
    <2>4. QED
      BY <2>1, <2>2, <2>3
  <1>4. reply' = [reply EXCEPT ![j] = "open"]
    <2>1. reply[j] = "open"
      BY DEF IInv, Priming, Move
    <2>2. QED
      BY <2>1 DEF IInv, Typed
  <1>5. QED
    BY <1>2, <1>3, <1>4, ReaderInv

\* A Job at rest has nothing on lease, no work and nothing unanswered.
LEMMA RestHolds ==
  ASSUME IInv, NEW j \in Jobs, reader[j] \in AtRest
  PROVE  /\ leased[j] = 0 /\ work[j] = 0 /\ reply[j] = "open"
         /\ \A i \in 1 .. Len(ledger) : Owner(i) = j => i <= Answered
  <1>1. \A i \in 1 .. Len(ledger) : Owner(i) = j => i <= Answered
    BY DEF IInv, Rested
  <1>2. InTransit(j) = {} /\ Unanswered(j) = {}
    <2>1. Answered <= Processed
      BY Lengths DEF IInv, Answered
    <2>2. Answered \in Int /\ Processed \in Int /\ Len(ledger) \in Nat
      BY Lengths DEF IInv
    <2>3. QED
      BY <1>1, <2>1, <2>2 DEF InTransit, Unanswered
  <1>3. leased[j] = 0 + Leases(reader[j]) /\ work[j] = 0 + Owes(reader[j])
    BY <1>2, FS_EmptySet DEF IInv, Counted
  <1>4. QED
    BY <1>1, <1>3 DEF IInv, Priming, AtRest, Leases, Owes, Holding

\* The steps that take and give back nothing.
LEMMA RestInv ==
  ASSUME IInv, NEW j \in Jobs,
         Start(j) \/ StopReturns(j) \/ Started(j) \/ EnterReader(j) \/ StartFails(j)
           \/ FailStart(j) \/ StartCancelled(j) \/ TimerFails(j)
  PROVE  IInv'
  <1> USE DEF IInv, Typed, Publish, settleVars, writerVars
  <1>1. CASE Start(j)
    <2>1. leased' = leased
      BY <1>1, RestHolds DEF Start, Move, AtRest
    <2>2. QED
      BY <1>1, <2>1, QuietInv DEF Start, Leases, Owes, Holding, ReaderStates, AtRest
  <1>2. CASE StopReturns(j)
    BY <1>2, QuietInv DEF StopReturns, Leases, Owes, Holding, ReaderStates, AtRest
  <1>3. CASE Started(j)
    BY <1>3, QuietInv DEF Started, Leases, Owes, Holding, ReaderStates, AtRest
  <1>4. CASE EnterReader(j)
    BY <1>4, QuietInv DEF EnterReader, Leases, Owes, Holding, ReaderStates, AtRest
  <1>5. CASE StartFails(j)
    <2>1. PICK from \in {"registering", "refused", "entering"} : Move(j, from, "failing")
      BY <1>5 DEF StartFails
    <2>2. QED
      BY <1>5, <2>1, QuietInv DEF StartFails, Leases, Owes, Holding, ReaderStates, AtRest
  <1>6. CASE FailStart(j)
    <2>1. PICK to \in {"done", "off"} : Move(j, "failing", to)
      BY <1>6 DEF FailStart
    <2>2. QED
      BY <1>6, <2>1, QuietInv DEF FailStart, Leases, Owes, Holding, ReaderStates, AtRest
  <1>7. CASE StartCancelled(j)
    <2>1. PICK from \in {"starting", "registering", "refused"} : Move(j, from, "done")
      BY <1>7 DEF StartCancelled
    <2>2. QED
      BY <1>7, <2>1, QuietInv DEF StartCancelled, Leases, Owes, Holding, ReaderStates, AtRest
  <1>8. CASE TimerFails(j)
    BY <1>8, QuietInv DEF TimerFails, Leases, Owes, Holding, ReaderStates, AtRest
  <1>9. QED
    BY <1>1, <1>2, <1>3, <1>4, <1>5, <1>6, <1>7, <1>8

\* The reader ends when its work is answered, and then it has no batches.
LEMMA DrainedInv ==
  ASSUME IInv, NEW j \in Jobs, Drained(j)
  PROVE  IInv'
  <1>1. Typed /\ reader[j] = "drain" /\ work[j] = 0
    BY DEF Drained, Move, IInv
  <1>2. Unanswered(j) = {}
    <2>1. work[j] = Cardinality(Unanswered(j)) /\ IsFiniteSet(Unanswered(j))
      BY <1>1, Counts DEF IInv, Counted, Owes
    <2>2. QED
      BY <1>1, <2>1, FS_EmptySet
  <1>3. \A i \in 1 .. Len(ledger) : Owner(i) = j => i <= Answered
    <2>1. SUFFICES ASSUME NEW i \in 1 .. Len(ledger), Owner(i) = j, ~(i <= Answered) PROVE FALSE
      OBVIOUS
    <2>2. i > Answered
      BY <1>1, <2>1, Lengths
    <2>3. ~ledger[i].priming
      BY <1>1, <2>1, <2>2 DEF IInv, Priming
    <2>4. QED
      BY <1>2, <2>1, <2>2, <2>3 DEF Unanswered
  <1>4. PICK to \in {"done", "failing"} : Move(j, "drain", to)
    BY DEF Drained
  <1>5. QED
    BY <1>1, <1>3, <1>4, QuietInv
    DEF Drained, Typed, settleVars, writerVars, Leases, Owes, Holding, ReaderStates, AtRest

\* A cycle, from its reservation to a batch, an error or a cancel.
LEMMA CycleInv ==
  ASSUME IInv, NEW j \in Jobs,
         BeginCycle(j) \/ ReadFails(j) \/ ReadSucceeds(j) \/ HandoffFails(j)
  PROVE  IInv'
  <1> USE DEF IInv, Typed, settleVars, writerVars
  <1>1. reader[j] # "priming" => reply[j] = "open" /\ reply = [reply EXCEPT ![j] = "open"]
    BY DEF Priming
  <1>2. /\ leased = [leased EXCEPT ![j] = @ + 1 - 1] /\ work = [work EXCEPT ![j] = @ + 0 - 0]
    OBVIOUS
  <1>3. /\ Capacity \in Nat /\ slots \in Int /\ slots <= Capacity
        /\ leased[j] + 0 - 1 = leased[j] - 1 /\ work[j] + 0 - 1 = work[j] - 1
    BY PipelineAssumption
  <1>4. CASE BeginCycle(j)
    <2>1. Leases("wait") = 0 /\ Leases("reading") = 1 /\ Owes("wait") = 0 /\ Owes("reading") = 0
      BY DEF Leases, Owes, Holding
    <2>2. /\ slots' = slots + 1 - 0 /\ slots' <= Capacity
          /\ leased' = [leased EXCEPT ![j] = @ + 1 - 0]
      BY <1>3, <1>4 DEF BeginCycle
    <2>3. Move(j, "wait", "reading") /\ reader[j] = "wait"
      BY <1>4 DEF BeginCycle, Move
    <2>4. QED
      BY <1>1, <1>2, <1>4, <2>1, <2>2, <2>3, ReaderInv DEF BeginCycle, ReaderStates, AtRest, Holding
  <1>5. CASE ReadFails(j)
    <2>1. Leases("reading") = 1 /\ Leases("wait") = 0 /\ Owes("wait") = 0 /\ Owes("reading") = 0
      BY DEF Leases, Owes, Holding
    <2>2. /\ slots' = slots + 0 - 1 /\ slots' <= Capacity
          /\ leased' = [leased EXCEPT ![j] = @ + 0 - 1]
      <3>1. slots' = slots - 1 /\ leased' = [leased EXCEPT ![j] = leased[j] - 1]
        BY <1>5 DEF ReadFails, Release
      <3>2. slots + 0 - 1 = slots - 1 /\ slots - 1 <= Capacity
        BY <1>3
      <3>3. QED
        BY <1>3, <3>1, <3>2
    <2>3. Move(j, "reading", "wait") /\ reader[j] = "reading"
      BY <1>5 DEF ReadFails, Move
    <2>4. state' \in [Jobs -> {"stopped", "starting", "running", "stopping", "failed"}]
      BY <1>5 DEF ReadFails, RecordError, Publish
    <2>5. QED
      BY <1>1, <1>2, <1>5, <2>1, <2>2, <2>3, <2>4, ReaderInv
      DEF ReadFails, ReaderStates, AtRest, Holding
  <1>6. CASE ReadSucceeds(j)
    <2>1. Leases("reading") = 1 /\ Leases("handoff") = 1 /\ Owes("handoff") = 1 /\ Owes("reading") = 0
      BY DEF Leases, Owes, Holding
    <2>2. /\ slots' = slots + 1 - 1 /\ slots' <= Capacity
          /\ work' = [work EXCEPT ![j] = @ + 1 - 0]
          /\ leased' = [leased EXCEPT ![j] = @ + 1 - 1]
      BY <1>2, <1>3, <1>6 DEF ReadSucceeds
    <2>3. Move(j, "reading", "handoff") /\ reader[j] = "reading"
      BY <1>6 DEF ReadSucceeds, Move
    <2>4. reply' = [reply EXCEPT ![j] = "open"]
      BY <1>1, <1>6, <2>3 DEF ReadSucceeds
    <2>5. QED
      BY <1>6, <2>1, <2>2, <2>3, <2>4, ReaderInv
      DEF ReadSucceeds, ReaderStates, AtRest, Holding
  <1>7. CASE HandoffFails(j)
    <2>1. Leases("handoff") = 1 /\ Leases("wait") = 0 /\ Owes("wait") = 0 /\ Owes("handoff") = 1
      BY DEF Leases, Owes, Holding
    <2>2. /\ slots' = slots + 0 - 1 /\ slots' <= Capacity
          /\ leased' = [leased EXCEPT ![j] = @ + 0 - 1]
          /\ work' = [work EXCEPT ![j] = @ + 0 - 1]
      <3>1. /\ slots' = slots - 1 /\ leased' = [leased EXCEPT ![j] = leased[j] - 1]
            /\ work' = [work EXCEPT ![j] = work[j] - 1]
        BY <1>7 DEF HandoffFails, Release
      <3>2. slots + 0 - 1 = slots - 1 /\ slots - 1 <= Capacity
        BY <1>3
      <3>3. QED
        BY <1>3, <3>1, <3>2
    <2>3. Move(j, "handoff", "wait") /\ reader[j] = "handoff"
      BY <1>7 DEF HandoffFails, Move
    <2>4. QED
      BY <1>1, <1>7, <2>1, <2>2, <2>3, ReaderInv DEF HandoffFails, ReaderStates, AtRest, Holding
  <1>8. QED
    BY <1>4, <1>5, <1>6, <1>7

\* The answer of the priming batch is taken.
LEMMA TakeReplyInv ==
  ASSUME IInv, NEW j \in Jobs, TakeReply(j)
  PROVE  IInv'
  <1> USE DEF IInv, Typed, writerVars
  <1>1. Leases("priming") = 0 /\ Leases("wait") = 0 /\ Owes("wait") = 0 /\ Owes("priming") = 1
    BY DEF Leases, Owes, Holding
  <1>2. /\ slots' = slots + 0 - 0 /\ slots' <= Capacity
        /\ leased' = [leased EXCEPT ![j] = @ + 0 - 0]
        /\ work' = [work EXCEPT ![j] = @ + 0 - 1]
    <2>1. leased[j] + 0 - 0 = leased[j] /\ work[j] + 0 - 1 = work[j] - 1 /\ slots + 0 - 0 = slots
      OBVIOUS
    <2>2. leased = [leased EXCEPT ![j] = leased[j]]
      OBVIOUS
    <2>3. QED
      BY <2>1, <2>2 DEF TakeReply
  <1>3. Move(j, "priming", "wait") /\ reply[j] # "open" /\ reply' = [reply EXCEPT ![j] = "open"]
    BY DEF TakeReply
  <1>4. /\ state' \in [Jobs -> {"stopped", "starting", "running", "stopping", "failed"}]
        /\ primed' \in [Jobs -> BOOLEAN]
    BY DEF TakeReply, RecordError, Publish
  <1>5. QED
    BY <1>1, <1>2, <1>3, <1>4, ReaderInv DEF TakeReply, ReaderStates, AtRest, Holding

\* The queue accepts a batch: it is the last of the ledger and of the queue, and
\* carries the buffer and the place of its reader with it.
LEMMA EnqueueInv ==
  ASSUME IInv, NEW j \in Jobs, Enqueue(j)
  PROVE  IInv'
  <1>0. PICK n \in Nat : n = Len(ledger) + 1
    BY Lengths DEF IInv
  <1> DEFINE b == [job |-> j, priming |-> ~primed[j], outcome |-> "open"]
             to == IF primed[j] THEN "wait" ELSE "priming"
  <1>1. /\ Typed /\ reader[j] = "handoff" /\ reader'[j] = to /\ reader' \in [Jobs -> ReaderStates]
        /\ \A k \in Jobs \ {j} : reader'[k] = reader[k]
    BY DEF Enqueue, Move, IInv, Typed, ReaderStates
  <1>2. /\ ledger' = Append(ledger, b) /\ b \in Batches
        /\ queue' = Append(queue, Len(ledger'))
        /\ flushNow' \in BOOLEAN
        /\ UNCHANGED <<stopping, stopper, primed, leased, reply, work, state, hand, pending, stream,
                       slots, lifecycle>>
    BY <1>1 DEF Enqueue, writerVars, Batches, Outcomes, Typed
  <1>3. /\ Len(ledger') = n /\ ledger'[n] = b /\ ledger' \in Seq(Batches)
        /\ \A i \in 1 .. Len(ledger) : ledger'[i] = ledger[i]
        /\ Len(ledger) \in Nat /\ n = Len(ledger) + 1
    BY <1>0, <1>1, <1>2 DEF Typed
  <1>4. /\ Len(queue') = Len(queue) + 1 /\ queue'[Len(queue) + 1] = n /\ queue' \in Seq(Nat)
        /\ \A k \in 1 .. Len(queue) : queue'[k] = queue[k]
        /\ Len(queue) \in Nat
    BY <1>1, <1>2, <1>3 DEF Typed
  <1> HIDE DEF b, to
  <1>5. /\ Len(hand) \in Nat /\ Len(pending) \in Nat /\ Processed \in Int /\ Answered \in Int
        /\ \A i \in 1 .. Len(ledger) : Owner(i) \in Jobs
    BY <1>1, Lengths
  <1>6. /\ Processed' = Processed /\ Answered' = Answered
        /\ Answered <= Processed /\ Processed < n
    BY <1>2, <1>3, <1>4, <1>5 DEF Processed, Answered
  <1>7. /\ \A i \in 1 .. Len(ledger) : Owner(i)' = Owner(i)
        /\ Owner(n)' = j /\ (ledger'[n].priming <=> ~primed[j]) /\ ledger'[n].outcome = "open"
    <2>1. ledger'[n].priming = ~primed[j] /\ ledger'[n].outcome = "open" /\ Owner(n)' = j
      BY <1>3 DEF Owner, b
    <2>2. ledger'[n].priming <=> ~primed[j]
      BY <2>1, Zenon
    <2>3. QED
      BY <1>3, <2>1, <2>2 DEF Owner
  <1>8. Typed'
    BY <1>1, <1>2, <1>3, <1>4 DEF Typed
  <1>9. Ordered'
    <2>1. \A k \in 1 .. Len(queue') : queue'[k] = Processed + Len(hand) + k
      <3>1. \A k \in 1 .. Len(queue) : queue'[k] = Processed + Len(hand) + k
        BY <1>4 DEF IInv, Ordered
      <3>2. n = Processed + Len(hand) + Len(queue) + 1
        BY <1>3, <1>4, <1>5 DEF Processed
      <3>3. ASSUME NEW k \in 1 .. Len(queue'), k \notin 1 .. Len(queue)
            PROVE  queue'[k] = Processed + Len(hand) + k
        <4>1. k = Len(queue) + 1
          BY <1>4, <3>3
        <4>2. QED
          BY <1>4, <1>5, <3>2, <4>1
      <3>4. QED
        BY <3>1, <3>3
    <2>2. \A i \in 1 .. Len(ledger') : ledger'[i].outcome = "open" <=> i > Answered
      <3>1. \A i \in 1 .. Len(ledger) : ledger'[i].outcome = "open" <=> i > Answered
        BY <1>3 DEF IInv, Ordered
      <3>2. ledger'[n].outcome = "open" /\ n > Answered
        BY <1>3, <1>5, <1>6, <1>7
      <3>3. QED
        BY <1>3, <3>1, <3>2
    <2>3. QED
      BY <1>2, <1>6, <2>1, <2>2 DEF IInv, Ordered
  <1>10. Counted'
    <2>1. slots' = Len(queue') + Cardinality(Cycling')
      <3>1. IsFiniteSet(Cycling) /\ Cardinality(Cycling) \in Nat /\ j \in Cycling
        BY <1>1, Counts DEF Cycling, Holding
      <3>2. Cycling' = Cycling \ {j}
        BY <1>1 DEF Cycling, Holding, to
      <3>3. Cardinality(Cycling \ {j}) = Cardinality(Cycling) - 1
        BY <3>1, FS_RemoveElement
      <3>4. slots = Len(queue) + Cardinality(Cycling)
        BY DEF IInv, Counted
      <3>5. QED
        BY <1>2, <1>4, <3>1, <3>2, <3>3, <3>4
    <2>2. ASSUME NEW k \in Jobs
          PROVE  /\ leased'[k] = Cardinality(InTransit(k)') + Leases(reader'[k])
                 /\ work'[k] = Cardinality(Unanswered(k)') + Owes(reader'[k])
      <3>1. /\ leased[k] = Cardinality(InTransit(k)) + Leases(reader[k])
            /\ work[k] = Cardinality(Unanswered(k)) + Owes(reader[k])
        BY DEF IInv, Counted
      <3>2. /\ IsFiniteSet(InTransit(k)) /\ Cardinality(InTransit(k)) \in Nat
            /\ IsFiniteSet(Unanswered(k)) /\ Cardinality(Unanswered(k)) \in Nat
            /\ n \notin InTransit(k) /\ n \notin Unanswered(k)
        <4>1. n \notin 1 .. Len(ledger)
          BY <1>3
        <4>2. QED
          BY <1>1, <4>1, Counts DEF InTransit, Unanswered
      <3>3. CASE k # j
        <4>1. InTransit(k)' = InTransit(k) /\ Unanswered(k)' = Unanswered(k)
          BY <1>3, <1>6, <1>7, <3>3 DEF InTransit, Unanswered
        <4>2. QED
          BY <1>1, <1>2, <3>1, <3>3, <4>1
      <3>4. CASE k = j
        <4>1. InTransit(j)' = InTransit(j) \cup {n}
          BY <1>3, <1>6, <1>7 DEF InTransit
        <4>2. Cardinality(InTransit(j)') = Cardinality(InTransit(j)) + 1
          BY <3>2, <3>4, <4>1, FS_AddElement
        <4>3. /\ Leases("handoff") = 1 /\ Leases("wait") = 0 /\ Leases("priming") = 0
              /\ Owes("handoff") = 1 /\ Owes("wait") = 0 /\ Owes("priming") = 1
          BY DEF Leases, Owes, Holding
        <4>4. leased'[k] = Cardinality(InTransit(k)') + Leases(reader'[k])
          BY <1>1, <1>2, <3>1, <3>2, <3>4, <4>2, <4>3 DEF to
        <4>5. CASE primed[j]
          <5>1. Unanswered(j)' = Unanswered(j) \cup {n}
            <6>1. ~ledger'[n].priming
              BY <1>7, <4>5, Zenon
            <6>2. n > Answered /\ Owner(n)' = j
              BY <1>3, <1>5, <1>6, <1>7
            <6>3. \A i \in 1 .. Len(ledger) : /\ Owner(i)' = Owner(i)
                                              /\ ledger'[i].priming = ledger[i].priming
              BY <1>3, <1>7
            <6>4. 1 .. Len(ledger') = (1 .. Len(ledger)) \cup {n}
              BY <1>3
            <6>5. QED
              BY <1>6, <6>1, <6>2, <6>3, <6>4 DEF Unanswered
          <5>2. Cardinality(Unanswered(j)') = Cardinality(Unanswered(j)) + 1
            BY <3>2, <3>4, <5>1, FS_AddElement
          <5>3. QED
            BY <1>1, <1>2, <3>1, <3>2, <3>4, <4>3, <4>4, <4>5, <5>2 DEF to
        <4>6. CASE ~primed[j]
          <5>1. Unanswered(j)' = Unanswered(j)
            BY <1>3, <1>6, <1>7, <4>6 DEF Unanswered
          <5>2. QED
            BY <1>1, <1>2, <3>1, <3>2, <3>4, <4>3, <4>4, <4>6, <5>1 DEF to
        <4>7. QED
          BY <4>5, <4>6
      <3>5. QED
        BY <3>3, <3>4
    <2>3. QED
      BY <2>1, <2>2 DEF Counted
  <1>11. Priming'
    <2>1. \A i \in 1 .. Len(ledger) : i > Answered /\ ledger[i].priming =>
             Owner(i) # j /\ reader[Owner(i)] = "priming"
      BY <1>1 DEF IInv, Priming
    <2>2. reply[j] = "open" /\ \A k \in Jobs : reply'[k] # "open" => reader'[k] = "priming"
      BY <1>1, <1>2 DEF IInv, Priming
    <2>3. ASSUME NEW i \in 1 .. n, i > Answered, ledger'[i].priming
          PROVE  /\ reader'[Owner(i)'] = "priming" /\ reply'[Owner(i)'] = "open"
                 /\ \A k \in 1 .. n :
                      k > Answered /\ ledger'[k].priming /\ Owner(k)' = Owner(i)' => k = i
      <3>1. CASE i = n
        <4>1. \A k \in 1 .. n : k > Answered /\ ledger'[k].priming /\ k # n => Owner(k)' # j
          BY <1>3, <1>7, <2>1
        <4>2. QED
          BY <1>1, <1>2, <1>7, <2>2, <2>3, <3>1, <4>1 DEF to
      <3>2. CASE i # n
        <4>1. i \in 1 .. Len(ledger) /\ ledger[i].priming /\ Owner(i)' = Owner(i)
          BY <1>3, <1>7, <2>3, <3>2
        <4>2. /\ Owner(i) \in Jobs \ {j} /\ reader[Owner(i)] = "priming" /\ reply[Owner(i)] = "open"
              /\ \A k \in 1 .. Len(ledger) :
                   k > Answered /\ ledger[k].priming /\ Owner(k) = Owner(i) => k = i
          BY <1>5, <2>1, <2>3, <4>1 DEF IInv, Priming
        <4>3. QED
          BY <1>1, <1>2, <1>3, <1>7, <4>1, <4>2
      <3>3. QED
        BY <3>1, <3>2
    <2>4. QED
      BY <1>3, <1>6, <2>2, <2>3 DEF Priming
  <1>12. Rested'
    <2>1. SUFFICES ASSUME NEW i \in 1 .. n, reader'[Owner(i)'] \in AtRest PROVE i <= Answered
      BY <1>3, <1>6 DEF Rested
    <2>2. Owner(i)' # j
      BY <1>1, <2>1 DEF AtRest, to
    <2>3. i \in 1 .. Len(ledger) /\ Owner(i)' = Owner(i) /\ reader'[Owner(i)] = reader[Owner(i)]
      BY <1>1, <1>3, <1>5, <1>7, <2>1, <2>2
    <2>4. QED
      BY <2>1, <2>3 DEF IInv, Rested
  <1>13. NoFlushWithoutStream' /\ NoSendAfterClose'
    BY <1>1, <1>2 DEF IInv, NoFlushWithoutStream, NoSendAfterClose
  <1>14. QED
    BY <1>8, <1>9, <1>10, <1>11, <1>12, <1>13 DEF IInv

-----------------------------------------------------------------------------
(* Stopping, and the end of the daemon                                     *)

\* Nothing moves that is counted; the readers that end were at rest.
LEMMA StillInv ==
  ASSUME IInv,
         UNCHANGED <<ledger, queue, hand, pending, stream, slots, work, leased, reply, primed>>,
         reader' \in [Jobs -> {"off", "done"}] \/ reader' = reader,
         \A j \in Jobs : reader[j] \in {"off", "done"} <=> reader'[j] \in {"off", "done"},
         stopping' \in [Jobs -> BOOLEAN], stopper' \in [Jobs -> BOOLEAN],
         state' \in [Jobs -> {"stopped", "starting", "running", "stopping", "failed"}],
         flushNow' \in BOOLEAN, lifecycle' \in {"up", "closed", "queueClosed", "exited"},
         lifecycle' \in {"queueClosed", "exited"} /\ lifecycle \notin {"queueClosed", "exited"} =>
           \A j \in Jobs : reader[j] \in {"off", "done"}
  PROVE  IInv'
  <1>1. /\ Processed' = Processed /\ Answered' = Answered
        /\ \A i : Owner(i)' = Owner(i)
    BY DEF Processed, Answered, Owner
  <1>2. Typed /\ Typed'
    BY DEF IInv, Typed, ReaderStates
  <1>3. Ordered'
    BY <1>1 DEF IInv, Ordered
  <1>4. \A j \in Jobs : reader'[j] = reader[j] \/ {reader[j], reader'[j]} \subseteq {"off", "done"}
    OBVIOUS
  <1>5. Counted'
    <2>1. \A j : InTransit(j)' = InTransit(j) /\ Unanswered(j)' = Unanswered(j)
      BY <1>1 DEF InTransit, Unanswered
    <2>2. /\ \A j \in Jobs : Leases(reader'[j]) = Leases(reader[j]) /\ Owes(reader'[j]) = Owes(reader[j])
          /\ Cycling' = Cycling
      BY <1>4 DEF Leases, Owes, Holding, Cycling
    <2>3. QED
      BY <2>1, <2>2 DEF IInv, Counted
  <1>6. Priming'
    BY <1>1, <1>2, <1>4, Lengths DEF IInv, Priming
  <1>7. Rested'
    BY <1>1, <1>2, <1>4, Lengths DEF IInv, Rested, AtRest
  <1>8. NoFlushWithoutStream' /\ NoSendAfterClose'
    <2>1. NoFlushWithoutStream'
      BY DEF IInv, NoFlushWithoutStream
    <2>2. NoSendAfterClose'
      BY DEF IInv, NoSendAfterClose
    <2>3. QED
      BY <2>1, <2>2
  <1>9. QED
    BY <1>2, <1>3, <1>5, <1>6, <1>7, <1>8 DEF IInv

\* A stop command, the shutdown and the close of the queue.
LEMMA EndInv ==
  ASSUME IInv, (\E j \in Jobs : Stop(j)) \/ Shutdown \/ CloseQueue
  PROVE  IInv'
  <1> USE DEF settleVars, writerVars
  <1>1. ASSUME NEW j \in Jobs, Stop(j) PROVE IInv'
    BY <1>1, StillInv DEF Stop, Publish, IInv, Typed
  <1>2. CASE Shutdown
    BY <1>2, StillInv DEF Shutdown, IInv, Typed
  <1>3. CASE CloseQueue
    <2>1. /\ reader' \in [Jobs -> {"off", "done"}]
          /\ \A j \in Jobs : reader[j] \in {"off", "done"} /\ reader'[j] \in {"off", "done"}
      BY <1>3 DEF CloseQueue
    <2>2. QED
      BY <1>3, <2>1, StillInv DEF CloseQueue, IInv, Typed
  <1>4. QED
    BY <1>1, <1>2, <1>3

-----------------------------------------------------------------------------
(* The writer                                                              *)

\* The batches up to the n-th are answered, the oldest open ones among them by
\* this step.
SettledTo(n) ==
  /\ ledger' \in Seq(Batches) /\ Len(ledger') = Len(ledger)
  /\ \A i \in 1 .. Len(ledger) :
       /\ ledger'[i].job = ledger[i].job /\ ledger'[i].priming = ledger[i].priming
       /\ i > Answered /\ i <= n => ledger'[i].outcome \in {"stored", "failed"}
       /\ ~(i > Answered /\ i <= n) => ledger'[i].outcome = ledger[i].outcome
  /\ work' \in [Jobs -> Int]
  /\ \A j \in Jobs : work'[j] = work[j] - Cardinality({i \in Unanswered(j) : i <= n})
  /\ reply' \in [Jobs -> Outcomes]
  /\ \A j \in Jobs :
       reply'[j] = reply[j] \/ \E i \in 1 .. Len(ledger) :
                                 i > Answered /\ i <= n /\ ledger[i].priming /\ Owner(i) = j
  /\ state' \in [Jobs -> {"stopped", "starting", "running", "stopping", "failed"}]

\* finish() of the oldest open batches, whatever the answer of each.
LEMMA SettleStep ==
  ASSUME IInv, NEW stored, NEW failed, NEW n \in Int, Answered <= n, n <= Len(ledger),
         stored \cup failed = (Answered + 1) .. n, Settle(stored, failed)
  PROVE  SettledTo(n)
  <1> DEFINE Answer(i) == IF i \in stored THEN "stored" ELSE "failed"
             Of(j, priming) == {i \in stored \cup failed :
                                  ledger[i].job = j /\ ledger[i].priming = priming}
             Answers(j) == {i \in Unanswered(j) : i <= n}
  <1>1. /\ Typed /\ Answered \in Int /\ Answered >= 0 /\ Len(ledger) \in Nat
        /\ DOMAIN ledger = 1 .. Len(ledger)
        /\ \A i \in 1 .. Len(ledger) : /\ ledger[i] \in Batches /\ Owner(i) \in Jobs
                                       /\ ledger[i].priming \in BOOLEAN
    BY Lengths DEF IInv, Ordered
  <1>2. \A i : i \in stored \cup failed <=> i \in 1 .. Len(ledger) /\ i > Answered /\ i <= n
    BY <1>1
  <1>3. /\ ledger' = [i \in DOMAIN ledger |->
                        IF i \in stored \cup failed
                        THEN [ledger[i] EXCEPT !.outcome = Answer(i)] ELSE ledger[i]]
        /\ work' = [j \in Jobs |-> work[j] - Cardinality(Of(j, FALSE))]
        /\ reply' = [j \in Jobs |-> IF Of(j, TRUE) = {} THEN reply[j]
                                    ELSE Answer(CHOOSE i \in Of(j, TRUE) : TRUE)]
        /\ state' = [j \in Jobs |->
                       IF Of(j, FALSE) \cap failed = {} THEN state[j] ELSE "running"]
    BY DEF Settle
  <1>4. \A i \in 1 .. Len(ledger) :
          /\ ledger'[i] \in Batches
          /\ ledger'[i].job = ledger[i].job /\ ledger'[i].priming = ledger[i].priming
          /\ i \in stored \cup failed => ledger'[i].outcome \in {"stored", "failed"}
          /\ i \notin stored \cup failed => ledger'[i].outcome = ledger[i].outcome
    <2>1. SUFFICES ASSUME NEW i \in 1 .. Len(ledger)
                   PROVE  /\ ledger'[i] \in Batches
                          /\ ledger'[i].job = ledger[i].job
                          /\ ledger'[i].priming = ledger[i].priming
                          /\ i \in stored \cup failed => ledger'[i].outcome \in {"stored", "failed"}
                          /\ i \notin stored \cup failed => ledger'[i].outcome = ledger[i].outcome
      OBVIOUS
    <2>2. ledger'[i] = IF i \in stored \cup failed
                       THEN [ledger[i] EXCEPT !.outcome = Answer(i)] ELSE ledger[i]
      BY <1>1, <1>3
    <2>3. Answer(i) \in {"stored", "failed"} /\ ledger[i] \in Batches
      BY <1>1
    <2> HIDE DEF Answer
    <2>4. QED
      BY <2>2, <2>3 DEF Batches, Outcomes
  <1>5. ledger' \in Seq(Batches) /\ Len(ledger') = Len(ledger)
    <2>1. DOMAIN ledger' = 1 .. Len(ledger) /\ ledger' = [i \in 1 .. Len(ledger) |-> ledger'[i]]
      BY <1>1, <1>3
    <2> HIDE DEF Answer, Of
    <2>2. ledger' \in [1 .. Len(ledger) -> Batches]
      BY <1>4, <2>1
    <2>3. QED
      BY <1>1, <2>2, IsASeq, LenProperties
  <1>6. \A j \in Jobs : /\ Of(j, FALSE) = Answers(j)
                        /\ IsFiniteSet(Answers(j))
                        /\ Cardinality(Answers(j)) \in Nat
    <2>1. SUFFICES ASSUME NEW j \in Jobs
                   PROVE  /\ Of(j, FALSE) = Answers(j)
                          /\ IsFiniteSet(Answers(j))
                          /\ Cardinality(Answers(j)) \in Nat
      OBVIOUS
    <2>2. \A i \in 1 .. Len(ledger) : ledger[i].priming = FALSE <=> ~ledger[i].priming
      BY <1>1
    <2>3. Of(j, FALSE) = Answers(j)
      BY <1>2, <2>2 DEF Unanswered, Owner
    <2>4. Answers(j) \subseteq Unanswered(j) /\ IsFiniteSet(Unanswered(j))
      BY <1>1, Counts
    <2>5. QED
      BY <2>3, <2>4, FS_Subset, FS_CardinalityType
  <1>7. work' \in [Jobs -> Int] /\ \A j \in Jobs :
          work'[j] = work[j] - Cardinality(Answers(j))
    <2>1. \A j \in Jobs : work'[j] = work[j] - Cardinality(Of(j, FALSE))
      <3> HIDE DEF Of
      <3>1. QED
        BY <1>3
    <2>2. \A j \in Jobs : Cardinality(Of(j, FALSE)) = Cardinality(Answers(j))
      <3> HIDE DEF Of, Answers
      <3>1. QED
        BY <1>6, Zenon
    <2>3. \A j \in Jobs : work[j] \in Int /\ Cardinality(Answers(j)) \in Int
      <3>1. \A j \in Jobs : Cardinality(Answers(j)) \in Nat
        <4> HIDE DEF Of, Answers
        <4>1. QED
          BY <1>6, Zenon
      <3> HIDE DEF Answers
      <3>2. QED
        BY <1>1, <3>1 DEF Typed
    <2>4. work' = [j \in Jobs |-> work'[j]]
      <3> HIDE DEF Of
      <3>1. QED
        BY <1>3
    <2> HIDE DEF Of, Answers
    <2>5. \A j \in Jobs : work'[j] = work[j] - Cardinality(Answers(j))
      BY <2>1, <2>2, Zenon
    <2>6. \A j \in Jobs : work[j] - Cardinality(Answers(j)) \in Int
      BY <2>3
    <2>7. \A j \in Jobs : work'[j] \in Int
      BY <2>5, <2>6, Zenon
    <2>8. QED
      BY <2>4, <2>5, <2>7
  <1>8. /\ reply' \in [Jobs -> Outcomes]
        /\ \A j \in Jobs :
             reply'[j] = reply[j] \/ \E i \in 1 .. Len(ledger) :
                                       i > Answered /\ i <= n /\ ledger[i].priming /\ Owner(i) = j
    <2>1. \A i : Answer(i) \in Outcomes
      BY DEF Outcomes
    <2>2. \A j \in Jobs : Of(j, TRUE) # {} =>
            \E i \in 1 .. Len(ledger) : i > Answered /\ i <= n /\ ledger[i].priming /\ Owner(i) = j
      BY <1>2 DEF Owner
    <2> HIDE DEF Of, Answer
    <2>3. QED
      BY <1>1, <1>3, <2>1, <2>2 DEF Typed
  <1>9. state' \in [Jobs -> {"stopped", "starting", "running", "stopping", "failed"}]
    <2> HIDE DEF Of
    <2>1. QED
      BY <1>1, <1>3 DEF Typed
  <1>10. QED
    BY <1>2, <1>4, <1>5, <1>7, <1>8, <1>9 DEF SettledTo

\* A step of the writer that answers nothing.
LEMMA SettleNone ==
  ASSUME IInv, UNCHANGED settleVars
  PROVE  SettledTo(Answered)
  <1>1. /\ Typed /\ Answered \in Int /\ Len(ledger) \in Nat
    BY Lengths DEF IInv
  <1>2. \A j \in Jobs : {i \in Unanswered(j) : i <= Answered} = {}
    BY <1>1 DEF Unanswered
  <1>3. \A j \in Jobs : work[j] \in Int /\ work[j] - 0 = work[j]
    BY <1>1 DEF Typed
  <1>4. \A j \in Jobs : work[j] = work[j] - Cardinality({i \in Unanswered(j) : i <= Answered})
    BY <1>2, <1>3, FS_EmptySet
  <1>5. UNCHANGED <<reply, work, state, ledger>>
    BY DEF settleVars
  <1>6. \A i \in 1 .. Len(ledger) : ~(i > Answered /\ i <= Answered)
    BY <1>1
  <1>7. /\ ledger' \in Seq(Batches) /\ Len(ledger') = Len(ledger)
        /\ \A i \in 1 .. Len(ledger) : ledger'[i] = ledger[i]
    BY <1>1, <1>5 DEF Typed
  <1>8. /\ work' \in [Jobs -> Int] /\ reply' \in [Jobs -> Outcomes]
        /\ state' \in [Jobs -> {"stopped", "starting", "running", "stopping", "failed"}]
    BY <1>1, <1>5 DEF Typed
  <1>9. QED
    BY <1>4, <1>5, <1>6, <1>7, <1>8 DEF SettledTo

\* The batches up to the n-th are answered, and those up to the p-th are left to
\* the stream.
Leaves(n, p) ==
  /\ SettledTo(n) /\ Answered <= n /\ n <= p
  /\ pending' \in Seq(Nat) /\ Len(pending') = p - n
  /\ \A k \in 1 .. Len(pending') : pending'[k] = n + k
  /\ stream' \in Databases \cup {NoStream}
  /\ pending' # <<>> => stream' # NoStream

\* A step of the writer answers batches, and is done with the one in its hand or
\* keeps it.
LEMMA WriterInv ==
  ASSUME IInv, NEW n \in Int, NEW p \in Int, Leaves(n, p),
         \/ p = Processed /\ UNCHANGED <<hand, leased>>
         \/ /\ p = Processed + 1 /\ Len(hand) = 1 /\ hand' = <<>>
            /\ leased' = [leased EXCEPT ![Owner(p)] = @ - 1],
         UNCHANGED <<queue, slots, stopping, stopper, primed>>, flushNow' \in BOOLEAN,
         lifecycle' = lifecycle \/ (lifecycle = "queueClosed" /\ lifecycle' = "exited"),
         \/ reader' = reader
         \/ \E j \in Jobs, to \in {"registering", "refused"} : Move(j, "starting", to)
  PROVE  IInv' /\ Answered' = n
  <1> USE DEF Leaves
  <1>1. /\ Typed /\ Ordered
        /\ Len(ledger) \in Nat /\ Len(queue) \in Nat /\ Len(hand) \in Nat
        /\ Processed \in Int /\ Answered \in Int
        /\ \A i \in 1 .. Len(ledger) : Owner(i) \in Jobs /\ ledger[i].priming \in BOOLEAN
    BY Lengths DEF IInv
  <1>0. Processed >= 0
    BY <1>1, Lengths DEF Ordered, Answered
  <1>2. /\ Len(ledger') = Len(ledger)
        /\ \A i \in 1 .. Len(ledger) : Owner(i)' = Owner(i) /\ ledger'[i].priming = ledger[i].priming
    BY DEF SettledTo, Owner
  <1>3. /\ Len(hand') \in Nat /\ p + Len(hand') = Processed + Len(hand)
        /\ p >= Processed /\ p <= Len(ledger)
    <2>1. CASE p = Processed /\ hand' = hand
      BY <1>1, <2>1 DEF Processed, Ordered, Answered
    <2>2. CASE p = Processed + 1 /\ Len(hand) = 1 /\ hand' = <<>>
      <3>1. Len(hand') = 0
        BY <2>2
      <3>2. QED
        BY <1>1, <2>2, <3>1 DEF Processed, Ordered, Answered
    <2>3. QED
      BY <2>1, <2>2
  <1>4. Processed' = p /\ Answered' = n
    <2>1. Processed' = p
      <3>1. Processed' = Len(ledger') - Len(queue') - Len(hand')
        BY DEF Processed
      <3>2. Processed = Len(ledger) - Len(queue) - Len(hand)
        BY DEF Processed
      <3>3. Len(ledger') = Len(ledger) /\ Len(queue') = Len(queue)
        BY <1>2
      <3>4. QED
        BY <1>1, <1>3, <3>1, <3>2, <3>3
    <2>2. Answered' = Processed' - Len(pending')
      BY DEF Answered
    <2>3. QED
      BY <2>1, <2>2
  <1>5. /\ reader' \in [Jobs -> ReaderStates]
        /\ \A j \in Jobs : \/ reader'[j] = reader[j]
                           \/ reader[j] = "starting" /\ reader'[j] \in {"registering", "refused"}
    BY <1>1 DEF Typed, Move, ReaderStates
  <1>6. Typed'
    <2>1. leased' \in [Jobs -> Int]
      <3>1. CASE leased' = leased
        BY <1>1, <3>1 DEF Typed
      <3>2. CASE p = Processed + 1 /\ leased' = [leased EXCEPT ![Owner(p)] = @ - 1]
        <4>1. leased \in [Jobs -> Int] /\ \A j \in Jobs : leased[j] - 1 \in Int
          BY <1>1 DEF Typed
        <4>2. leased' = [leased EXCEPT ![Owner(p)] = leased[Owner(p)] - 1]
          BY <3>2
        <4>3. p \in 1 .. Len(ledger)
          BY <1>1, <1>3, <3>2 DEF Ordered, Answered, Typed
        <4>4. QED
          BY <1>1, <4>1, <4>2, <4>3
      <3>3. QED
        BY <3>1, <3>2
    <2>2. hand' \in Seq(Nat)
      <3>1. hand \in Seq(Nat) /\ <<>> \in Seq(Nat)
        BY <1>1, EmptySeq DEF Typed
      <3>2. QED
        BY <3>1
    <2>3. QED
      BY <1>1, <1>5, <2>1, <2>2 DEF Typed, SettledTo
  <1>7. Ordered'
    <2>1. /\ Len(hand') <= 1
          /\ \A k \in 1 .. Len(hand') : hand'[k] = p + k
          /\ \A k \in 1 .. Len(queue') : queue'[k] = p + Len(hand') + k
      <3>1. \A k \in 1 .. Len(queue') : queue'[k] = p + Len(hand') + k
        BY <1>1, <1>3 DEF Ordered
      <3>2. CASE p = Processed /\ hand' = hand
        BY <1>1, <3>1, <3>2 DEF Ordered
      <3>3. CASE hand' = <<>>
        <4>1. Len(hand') = 0
          BY <3>3
        <4>2. QED
          BY <3>1, <4>1
      <3>4. QED
        BY <3>2, <3>3
    <2>2. \A i \in 1 .. Len(ledger) : ledger'[i].outcome = "open" <=> i > n
      <3>1. SUFFICES ASSUME NEW i \in 1 .. Len(ledger)
                     PROVE  ledger'[i].outcome = "open" <=> i > n
        OBVIOUS
      <3>2. ledger[i].outcome = "open" <=> i > Answered
        BY <1>1 DEF Ordered
      <3>3. CASE i > Answered /\ i <= n
        <4>1. ledger'[i].outcome \in {"stored", "failed"}
          BY <3>3 DEF SettledTo
        <4>2. QED
          BY <3>3, <4>1
      <3>4. CASE ~(i > Answered /\ i <= n)
        BY <1>1, <3>2, <3>4 DEF SettledTo
      <3>5. QED
        BY <3>3, <3>4
    <2>3. n >= 0
      BY <1>1 DEF Ordered
    <2>4. QED
      BY <1>2, <1>4, <2>1, <2>2, <2>3 DEF Ordered
  <1>8. Counted'
    <2>1. Cycling' = Cycling
      BY <1>5 DEF Cycling, Holding
    <2>2. \A j \in Jobs : Leases(reader'[j]) = Leases(reader[j]) /\ Owes(reader'[j]) = Owes(reader[j])
      BY <1>5 DEF Leases, Owes, Holding
    <2>3. ASSUME NEW j \in Jobs
          PROVE  leased'[j] = Cardinality(InTransit(j)') + Leases(reader'[j])
      <3>1. /\ IsFiniteSet(InTransit(j)) /\ Cardinality(InTransit(j)) \in Nat
            /\ leased[j] = Cardinality(InTransit(j)) + Leases(reader[j])
            /\ Leases(reader[j]) \in Int
        BY <1>1, Counts DEF IInv, Counted, Leases
      <3>2. InTransit(j)' = {i \in 1 .. Len(ledger) : i > p /\ Owner(i) = j}
        BY <1>2, <1>4 DEF InTransit
      <3>3. CASE p = Processed /\ UNCHANGED <<hand, leased>>
        BY <2>2, <3>1, <3>2, <3>3 DEF InTransit
      <3>4. CASE p = Processed + 1 /\ leased' = [leased EXCEPT ![Owner(p)] = @ - 1]
        <4>1. p \in 1 .. Len(ledger) /\ Owner(p) \in Jobs
          <5>1. p \in 1 .. Len(ledger)
            BY <1>0, <1>1, <1>3, <3>4
          <5>2. QED
            BY <1>1, <5>1
        <4>2. CASE Owner(p) = j
          <5>1. p \in InTransit(j) /\ InTransit(j)' = InTransit(j) \ {p}
            BY <1>1, <3>2, <3>4, <4>1, <4>2 DEF InTransit
          <5>2. Cardinality(InTransit(j)') = Cardinality(InTransit(j)) - 1
            <6>1. Cardinality(InTransit(j) \ {p}) =
                    IF p \in InTransit(j) THEN Cardinality(InTransit(j)) - 1
                                          ELSE Cardinality(InTransit(j))
              BY <3>1, FS_RemoveElement
            <6>2. QED
              BY <5>1, <6>1
          <5>3. leased'[j] = leased[j] - 1
            BY <1>1, <3>4, <4>2 DEF Typed
          <5>4. QED
            BY <2>2, <3>1, <5>2, <5>3
        <4>3. CASE Owner(p) # j
          <5>1. InTransit(j)' = InTransit(j)
            BY <1>1, <3>2, <3>4, <4>3 DEF InTransit
          <5>2. leased'[j] = leased[j]
            BY <1>1, <3>4, <4>3 DEF Typed
          <5>3. QED
            BY <2>2, <3>1, <5>1, <5>2
        <4>4. QED
          BY <4>2, <4>3
      <3>5. QED
        BY <3>3, <3>4
    <2>4. ASSUME NEW j \in Jobs
          PROVE  work'[j] = Cardinality(Unanswered(j)') + Owes(reader'[j])
      <3>1. /\ IsFiniteSet(Unanswered(j)) /\ Cardinality(Unanswered(j)) \in Nat
            /\ work[j] = Cardinality(Unanswered(j)) + Owes(reader[j])
            /\ Owes(reader[j]) \in Int
        BY <1>1, Counts DEF IInv, Counted, Owes
      <3>2. PICK D : D = {i \in Unanswered(j) : i <= n}
        OBVIOUS
      <3>3. Unanswered(j)' = {i \in 1 .. Len(ledger) : i > n /\ Owner(i) = j /\ ~ledger[i].priming}
        BY <1>2, <1>4 DEF Unanswered
      <3>4. Unanswered(j)' = Unanswered(j) \ D /\ D \subseteq Unanswered(j)
        BY <1>1, <3>2, <3>3 DEF Unanswered
      <3>5. /\ IsFiniteSet(D) /\ Cardinality(D) \in Nat
            /\ Cardinality(Unanswered(j) \ D) = Cardinality(Unanswered(j)) - Cardinality(D)
        <4>1. IsFiniteSet(D) /\ D = Unanswered(j) \cap D
          BY <3>1, <3>4, FS_Subset
        <4>2. Cardinality(Unanswered(j) \ D) =
                Cardinality(Unanswered(j)) - Cardinality(Unanswered(j) \cap D)
          BY <3>1, FS_Difference
        <4>3. QED
          BY <4>1, <4>2, FS_CardinalityType
      <3>6. work'[j] = work[j] - Cardinality(D)
        BY <3>2 DEF SettledTo
      <3>7. QED
        BY <2>2, <3>1, <3>4, <3>5, <3>6
    <2>5. slots' = Len(queue') + Cardinality(Cycling')
      BY <2>1 DEF IInv, Counted
    <2>6. QED
      BY <2>3, <2>4, <2>5 DEF Counted
  <1>9. Priming'
    <2>1. \A i \in 1 .. Len(ledger) : i > Answered /\ ledger[i].priming =>
            /\ reader[Owner(i)] = "priming" /\ reply[Owner(i)] = "open"
            /\ \A k \in 1 .. Len(ledger) :
                 k > Answered /\ ledger[k].priming /\ Owner(k) = Owner(i) => k = i
      BY DEF IInv, Priming
    <2>2. \A j \in Jobs : reader'[j] = "priming" <=> reader[j] = "priming"
      BY <1>5
    <2>3. ASSUME NEW j \in Jobs, reply'[j] # "open" PROVE reader'[j] = "priming"
      <3>1. \/ reply'[j] = reply[j]
            \/ \E i \in 1 .. Len(ledger) : i > Answered /\ ledger[i].priming /\ Owner(i) = j
        BY DEF SettledTo
      <3>2. QED
        BY <2>1, <2>2, <2>3, <3>1 DEF IInv, Priming
    <2>4. ASSUME NEW i \in 1 .. Len(ledger), i > n, ledger[i].priming
          PROVE  /\ reader'[Owner(i)] = "priming" /\ reply'[Owner(i)] = "open"
                 /\ \A k \in 1 .. Len(ledger) :
                      k > n /\ ledger[k].priming /\ Owner(k) = Owner(i) => k = i
      <3>1. i > Answered /\ Owner(i) \in Jobs /\ \A k \in 1 .. Len(ledger) : k > n => k > Answered
        BY <1>1, <2>4
      <3>2. reply'[Owner(i)] = reply[Owner(i)]
        <4>1. ~ \E k \in 1 .. Len(ledger) :
                  k > Answered /\ k <= n /\ ledger[k].priming /\ Owner(k) = Owner(i)
          <5>1. \A k \in 1 .. Len(ledger) :
                  k > Answered /\ ledger[k].priming /\ Owner(k) = Owner(i) => k = i
            BY <2>1, <2>4, <3>1
          <5>2. QED
            BY <1>1, <2>4, <5>1
        <4>2. QED
          BY <3>1, <4>1 DEF SettledTo
      <3>3. QED
        BY <2>1, <2>2, <2>4, <3>1, <3>2
    <2>5. \A i \in 1 .. Len(ledger') : i > Answered' /\ ledger'[i].priming =>
            /\ reader'[Owner(i)'] = "priming" /\ reply'[Owner(i)'] = "open"
            /\ \A k \in 1 .. Len(ledger') :
                 k > Answered' /\ ledger'[k].priming /\ Owner(k)' = Owner(i)' => k = i
      <3>1. SUFFICES ASSUME NEW i \in 1 .. Len(ledger), i > n, ledger[i].priming
                     PROVE  /\ reader'[Owner(i)'] = "priming" /\ reply'[Owner(i)'] = "open"
                            /\ \A k \in 1 .. Len(ledger) :
                                 k > n /\ ledger'[k].priming /\ Owner(k)' = Owner(i)' => k = i
        BY <1>2, <1>4
      <3>2. /\ Owner(i)' = Owner(i)
            /\ \A k \in 1 .. Len(ledger) :
                 Owner(k)' = Owner(k) /\ (ledger'[k].priming <=> ledger[k].priming)
        BY <1>2
      <3>3. QED
        BY <2>4, <3>1, <3>2
    <2>6. QED
      BY <2>3, <2>5 DEF Priming
  <1>10. Rested'
    <2>1. \A j \in Jobs : reader'[j] \in AtRest <=> reader[j] \in AtRest
      BY <1>5 DEF AtRest
    <2>2. QED
      BY <1>1, <1>2, <1>4, <2>1 DEF IInv, Rested
  <1>11. NoFlushWithoutStream' /\ NoSendAfterClose'
    <2>1. NoFlushWithoutStream'
      BY DEF NoFlushWithoutStream
    <2>2. NoSendAfterClose'
      BY <1>5 DEF IInv, NoSendAfterClose
    <2>3. QED
      BY <2>1, <2>2
  <1>12. QED
    BY <1>4, <1>6, <1>7, <1>8, <1>9, <1>10, <1>11 DEF IInv

\* What is pending is the batches the writer is done with and has not answered.
LEMMA PendingSet ==
  ASSUME IInv
  PROVE  /\ ToSet(pending) = (Answered + 1) .. Processed
         /\ Answered \in Int /\ Processed \in Int /\ Answered <= Processed
         /\ Len(hand) \in Nat /\ Processed + Len(hand) <= Len(ledger) /\ Len(ledger) \in Nat
         /\ pending = <<>> <=> Answered = Processed
  <1>1. /\ Typed /\ Len(pending) \in Nat /\ Len(ledger) \in Nat /\ Len(queue) \in Nat
        /\ Len(hand) \in Nat /\ Answered \in Int /\ Processed \in Int
    BY Lengths DEF IInv
  <1>2. Len(pending) = Processed - Answered /\ Answered <= Processed
    BY <1>1 DEF Answered
  <1>3. \A k \in 1 .. Len(pending) : pending[k] = Answered + k
    BY DEF IInv, Ordered
  <1>4. ToSet(pending) = {pending[k] : k \in 1 .. Len(pending)}
    BY <1>1 DEF ToSet, Typed
  <1>5. ToSet(pending) = (Answered + 1) .. Processed
    <2>1. \A i \in (Answered + 1) .. Processed :
            i - Answered \in 1 .. Len(pending) /\ pending[i - Answered] = i
      BY <1>1, <1>2, <1>3
    <2>2. \A k \in 1 .. Len(pending) : pending[k] \in (Answered + 1) .. Processed
      BY <1>1, <1>2, <1>3
    <2>3. QED
      BY <1>4, <2>1, <2>2
  <1>6. pending = <<>> <=> Answered = Processed
    BY <1>1, <1>2, EmptySeq DEF Typed
  <1>7. Processed + Len(hand) <= Len(ledger)
    BY <1>1 DEF Processed
  <1>8. QED
    BY <1>1, <1>2, <1>5, <1>6, <1>7

\* A flush answers all that the stream was given.
LEMMA FlushSettles ==
  ASSUME IInv, NEW p \in Int, Processed <= p, p <= Len(ledger),
         Flush((Answered + 1) .. p)
  PROVE  Leaves(p, p)
  <1>1. /\ Answered \in Int /\ Answered <= p
        /\ pending' = <<>> /\ pending' \in Seq(Nat) /\ Len(pending') = 0
    BY PendingSet, EmptySeq DEF Flush
  <1>2. SettledTo(p)
    <2>1. CASE Settle((Answered + 1) .. p, {})
      BY <1>1, <2>1, SettleStep
    <2>2. CASE Settle({}, (Answered + 1) .. p)
      BY <1>1, <2>2, SettleStep
    <2>3. QED
      BY <2>1, <2>2 DEF Flush
  <1>3. stream' \in Databases \cup {NoStream}
    BY DEF Flush, IInv, Typed
  <1>4. QED
    BY <1>1, <1>2, <1>3 DEF Leaves

\* So does prepare(), unless it keeps the stream it has.
LEMMA PrepareSettles ==
  ASSUME IInv, NEW db \in Databases, NEW ok \in BOOLEAN, NEW needed,
         NEW p \in Int, Processed <= p, p <= Len(ledger),
         (IF ok THEN {} ELSE needed) = (Processed + 1) .. p, ok => p = Processed,
         Prepare(db, ok, needed)
  PROVE  \E n \in Int : Leaves(n, p)
  <1>1. /\ ToSet(pending) = (Answered + 1) .. Processed
        /\ Answered \in Int /\ Processed \in Int /\ Answered <= Processed
        /\ pending = <<>> <=> Answered = Processed
        /\ db # NoStream /\ Typed
    BY PendingSet, PipelineAssumption DEF IInv
  <1>2. PICK lost : lost = (Processed + 1) .. p
    OBVIOUS
  <1>3. /\ stream = db => ok
        /\ stream' = IF ok THEN db ELSE NoStream
        /\ IF stream \in {db, NoStream}
           THEN Settle({}, lost) /\ UNCHANGED pending
           ELSE /\ pending' = <<>>
                /\ \/ Settle(ToSet(pending), lost)
                   \/ (PeriodicOnly => ~ok) /\ Settle({}, ToSet(pending) \cup lost)
    BY <1>2 DEF Prepare
  <1>4. stream' \in Databases \cup {NoStream} /\ ToSet(pending) \cup lost = (Answered + 1) .. p
    BY <1>1, <1>2, <1>3
  <1>5. CASE stream \in {db, NoStream} /\ pending # <<>>
    <2>1. ok /\ lost = (Answered + 1) .. Answered /\ p = Processed /\ Settle({}, lost)
      BY <1>1, <1>2, <1>3, <1>5 DEF IInv, NoFlushWithoutStream
    <2>2. SettledTo(Answered)
      BY <1>1, <2>1, SettleStep
    <2>3. /\ pending' = pending /\ pending \in Seq(Nat) /\ Len(pending) = p - Answered
          /\ stream' = db
      BY <1>1, <1>3, <1>5, <2>1, Lengths DEF Typed, Answered
    <2>4. QED
      BY <1>1, <1>4, <2>1, <2>2, <2>3 DEF Leaves, IInv, Ordered
  <1>6. CASE stream \in {db, NoStream} /\ pending = <<>>
    <2>1. lost = (Answered + 1) .. p /\ Settle({}, lost) /\ pending' = <<>>
      BY <1>1, <1>2, <1>3, <1>6
    <2>2. SettledTo(p)
      BY <1>1, <2>1, SettleStep
    <2>3. QED
      BY <1>1, <1>4, <2>1, <2>2, EmptySeq DEF Leaves
  <1>7. CASE stream \notin {db, NoStream}
    <2>1. /\ pending' = <<>>
          /\ Settle(ToSet(pending), lost) \/ Settle({}, (Answered + 1) .. p)
      BY <1>3, <1>4, <1>7
    <2>2. SettledTo(p)
      BY <1>1, <1>4, <2>1, SettleStep
    <2>3. QED
      BY <1>1, <1>4, <2>1, <2>2, EmptySeq DEF Leaves
  <1>8. QED
    BY <1>5, <1>6, <1>7

\* What the steps of the writer keep.
Kept ==
  /\ IInv' /\ SettledTo(Answered') /\ Answered <= Answered'
  /\ \A j \in Jobs : reader'[j] \in {"off", "done"} <=> reader[j] \in {"off", "done"}

\* Receiving a batch only moves it, and returns its reservation.
LEMMA DequeueInv ==
  ASSUME IInv, Dequeue
  PROVE  Kept
  <1> USE DEF settleVars, writerVars, readerVars
  <1>1. /\ Typed /\ Ordered /\ Len(queue) \in Nat /\ Len(ledger) \in Nat
        /\ Processed \in Int /\ Answered \in Int /\ queue \in Seq(Nat) /\ queue # <<>>
        /\ hand = <<>> /\ hand' = <<Head(queue)>> /\ queue' = Tail(queue)
        /\ UNCHANGED <<reader, stopping, stopper, primed, leased, reply, work, state, ledger,
                       pending, stream, flushNow, lifecycle>>
        /\ slots' = slots - 1
    BY Lengths DEF IInv, Typed, Dequeue
  <1>2. /\ Len(hand) = 0 /\ Len(hand') = 1 /\ hand'[1] = queue[1] /\ queue[1] \in Nat
        /\ Len(queue) >= 1
        /\ queue' \in Seq(Nat) /\ Len(queue') = Len(queue) - 1
        /\ \A k \in 1 .. Len(queue') : queue'[k] = queue[k + 1]
    <2>1. /\ Len(queue) >= 1 /\ Tail(queue) \in Seq(Nat) /\ Len(Tail(queue)) = Len(queue) - 1
          /\ \A k \in 1 .. Len(queue) - 1 : Tail(queue)[k] = queue[k + 1]
      BY <1>1, HeadTailProperties
    <2>2. QED
      BY <1>1, <2>1, ElementOfSeq
  <1>3. /\ Processed' = Processed /\ Answered' = Answered /\ \A i : Owner(i)' = Owner(i)
    BY <1>1, <1>2 DEF Processed, Answered, Owner
  <1>4. Typed'
    <2>1. hand' = <<queue[1]>> /\ hand' \in Seq(Nat)
      BY <1>1, <1>2
    <2>2. slots' \in Int /\ slots' <= Capacity
      BY <1>1, PipelineAssumption DEF Typed
    <2>3. QED
      BY <1>1, <1>2, <2>1, <2>2 DEF Typed
  <1>5. Ordered'
    BY <1>1, <1>2, <1>3 DEF Ordered
  <1>6. Counted'
    <2>1. /\ Cycling' = Cycling /\ \A j : InTransit(j)' = InTransit(j)
          /\ \A j : Unanswered(j)' = Unanswered(j)
      BY <1>1, <1>3 DEF Cycling, InTransit, Unanswered
    <2>2. slots' = Len(queue') + Cardinality(Cycling')
      <3>1. slots = Len(queue) + Cardinality(Cycling) /\ Cardinality(Cycling) \in Nat
        BY <1>1, Counts DEF IInv, Counted
      <3>2. QED
        BY <1>1, <1>2, <2>1, <3>1
    <2>3. QED
      BY <1>1, <2>1, <2>2 DEF IInv, Counted
  <1>7. Priming' /\ Rested' /\ NoFlushWithoutStream' /\ NoSendAfterClose'
    BY <1>1, <1>3 DEF IInv, Priming, Rested, NoFlushWithoutStream, NoSendAfterClose
  <1>8. SettledTo(Answered)
    BY <1>1, SettleNone
  <1>9. QED
    BY <1>1, <1>3, <1>4, <1>5, <1>6, <1>7, <1>8 DEF IInv, Kept

\* A step of the writer keeps the invariant, and answers the oldest open batches
\* if it answers any; readers it lets go on are not collecting less.
LEMMA WriterStepInv ==
  ASSUME IInv, WriterStep
  PROVE  Kept
  <1> USE DEF settleVars, writerVars, readerVars
  <1>1. /\ ToSet(pending) = (Answered + 1) .. Processed
        /\ Answered \in Int /\ Processed \in Int /\ Answered <= Processed
        /\ Len(hand) \in Nat /\ Processed + Len(hand) <= Len(ledger) /\ Len(ledger) \in Nat
        /\ pending = <<>> <=> Answered = Processed
        /\ Typed /\ Ordered /\ NoFlushWithoutStream
    BY PendingSet DEF IInv
  <1>2. ASSUME NEW n \in Int, NEW p \in Int, Leaves(n, p), IInv' /\ Answered' = n,
               \/ reader' = reader
               \/ \E j \in Jobs, to \in {"registering", "refused"} : Move(j, "starting", to)
        PROVE  Kept
    BY <1>1, <1>2 DEF Kept, Leaves, Move, Typed
  <1>3. ASSUME UNCHANGED <<settleVars, pending, stream>>
        PROVE  Leaves(Answered, Processed)
    BY <1>1, <1>3, SettleNone, Lengths DEF Leaves, Ordered, Typed, NoFlushWithoutStream, Answered
  <1>4. ASSUME NEW i, InHand(i)
        PROVE  /\ i = Processed + 1 /\ Len(hand) = 1 /\ hand # <<>> /\ i \in 1 .. Len(ledger)
               /\ Owner(i) \in Jobs /\ DatabaseOf[Owner(i)] \in Databases
    <2>1. i = Processed + 1 /\ Len(hand) = 1 /\ hand # <<>>
      BY <1>1, <1>4 DEF InHand, Ordered
    <2>2. i \in 1 .. Len(ledger)
      BY <1>1, <2>1 DEF Ordered, Answered
    <2>3. QED
      BY <1>1, <2>1, <2>2, Lengths, PipelineAssumption
  <1>5. ASSUME NEW j \in Jobs, PrepareStart(j) PROVE Kept
    <2>1. PICK ok \in BOOLEAN : /\ Move(j, "starting", IF ok THEN "registering" ELSE "refused")
                                /\ Prepare(DatabaseOf[j], ok, {})
      BY <1>5 DEF PrepareStart
    <2>2. DatabaseOf[j] \in Databases
      BY PipelineAssumption
    <2>3. (Processed + 1) .. Processed = {}
      BY <1>1
    <2>4. PICK n \in Int : Leaves(n, Processed)
      BY <1>1, <2>1, <2>2, <2>3, PrepareSettles
    <2>5. \E to \in {"registering", "refused"} : Move(j, "starting", to)
      BY <2>1
    <2>6. IInv' /\ Answered' = n
      BY <1>1, <1>5, <2>4, <2>5, WriterInv DEF PrepareStart, Typed
    <2>7. QED
      BY <1>1, <1>2, <2>4, <2>5, <2>6
  <1>6. ASSUME NEW i, PrepareBatch(i) PROVE Kept
    <2>1. PICK ok \in BOOLEAN :
            /\ Prepare(DatabaseOf[Owner(i)], ok, {i})
            /\ hand' = IF ok THEN hand ELSE <<>>
            /\ IF ok THEN UNCHANGED leased ELSE Release(Owner(i))
      BY <1>6 DEF PrepareBatch
    <2>2. /\ i = Processed + 1 /\ Len(hand) = 1 /\ i \in 1 .. Len(ledger)
          /\ DatabaseOf[Owner(i)] \in Databases
      BY <1>4, <1>6 DEF PrepareBatch
    <2>3. CASE ok
      <3>1. (IF ok THEN {} ELSE {i}) = (Processed + 1) .. Processed
        BY <1>1, <2>3
      <3>2. PICK n \in Int : Leaves(n, Processed)
        <4>1. /\ Processed \in Int /\ Processed <= Processed /\ Processed <= Len(ledger)
              /\ ok => Processed = Processed
          BY <1>1
        <4>2. QED
          BY <2>1, <2>2, <3>1, <4>1, PrepareSettles
      <3>3. IInv' /\ Answered' = n
        BY <1>1, <1>6, <2>1, <2>3, <3>2, WriterInv DEF PrepareBatch, Typed
      <3>4. QED
        BY <1>1, <1>2, <1>6, <3>2, <3>3 DEF PrepareBatch
    <2>4. CASE ~ok
      <3>1. (IF ok THEN {} ELSE {i}) = (Processed + 1) .. i
        BY <1>1, <2>2, <2>4
      <3>2. PICK n \in Int : Leaves(n, i)
        <4>1. i \in Int /\ Processed <= i /\ i <= Len(ledger) /\ (ok => i = Processed)
          BY <1>1, <2>2, <2>4
        <4>2. QED
          BY <2>1, <2>2, <3>1, <4>1, PrepareSettles
      <3>3. IInv' /\ Answered' = n
        BY <1>1, <1>6, <2>1, <2>2, <2>4, <3>2, WriterInv DEF PrepareBatch, Typed, Release
      <3>4. QED
        BY <1>1, <1>2, <1>6, <2>2, <3>2, <3>3 DEF PrepareBatch
    <2>5. QED
      BY <2>3, <2>4
  <1>7. ASSUME NEW i, AppendBatch(i) PROVE Kept
    <2>1. /\ i = Processed + 1 /\ Len(hand) = 1 /\ i \in 1 .. Len(ledger)
          /\ DatabaseOf[Owner(i)] \in Databases
      BY <1>4, <1>7 DEF AppendBatch
    <2>2. \E n \in Int : Leaves(n, i)
      <3>1. CASE ledger[i].priming /\ AcceptsForcedFlush
        <4>1. ToSet(pending) \cup {i} = (Answered + 1) .. i
          BY <1>1, <2>1
        <4>2. Flush((Answered + 1) .. i)
          BY <1>7, <3>1, <4>1 DEF AppendBatch
        <4>3. i \in Int /\ Processed <= i /\ i <= Len(ledger)
          BY <1>1, <2>1
        <4>4. QED
          BY <4>2, <4>3, FlushSettles
      <3>2. CASE ~(ledger[i].priming /\ AcceptsForcedFlush)
        <4>1. pending' = Append(pending, i) /\ UNCHANGED <<settleVars, stream>>
          BY <1>7, <3>2 DEF AppendBatch
        <4>2. SettledTo(Answered)
          BY <4>1, SettleNone
        <4>3. /\ pending \in Seq(Nat) /\ Len(pending) \in Nat /\ Len(pending) = Processed - Answered
              /\ i \in Nat
          BY <1>1, <2>1, Lengths DEF Typed, Answered
        <4>4. /\ pending' \in Seq(Nat) /\ Len(pending') = Len(pending) + 1
              /\ \A k \in 1 .. Len(pending) : pending'[k] = pending[k]
              /\ pending'[Len(pending) + 1] = i
          BY <4>1, <4>3, AppendProperties
        <4>5. \A k \in 1 .. Len(pending') : pending'[k] = Answered + k
          <5>1. \A k \in 1 .. Len(pending) : pending'[k] = Answered + k
            BY <1>1, <4>4 DEF Ordered
          <5>2. pending'[Len(pending) + 1] = Answered + (Len(pending) + 1)
            BY <1>1, <2>1, <4>3, <4>4
          <5>3. QED
            BY <4>3, <4>4, <5>1, <5>2
        <4>6. stream' \in Databases /\ stream' # NoStream
          BY <1>7, <2>1, <4>1, PipelineAssumption DEF AppendBatch
        <4>7. QED
          BY <1>1, <2>1, <4>2, <4>3, <4>4, <4>5, <4>6 DEF Leaves
      <3>3. QED
        BY <3>1, <3>2
    <2>3. PICK n \in Int : Leaves(n, i)
      BY <2>2
    <2>4. IInv' /\ Answered' = n
      <3>1. /\ i \in Int /\ i = Processed + 1 /\ Len(hand) = 1 /\ hand' = <<>>
            /\ leased' = [leased EXCEPT ![Owner(i)] = @ - 1]
            /\ UNCHANGED <<queue, slots, stopping, stopper, primed, reader, lifecycle>>
            /\ flushNow' \in BOOLEAN
        BY <1>1, <1>7, <2>1 DEF AppendBatch, Typed, Release
      <3>2. QED
        BY <2>3, <3>1, WriterInv
    <2>5. QED
      BY <1>1, <1>2, <1>7, <2>1, <2>3, <2>4 DEF AppendBatch
  <1>8. ASSUME NEW i, AppendFails(i) PROVE Kept
    <2>1. i = Processed + 1 /\ Len(hand) = 1 /\ i \in 1 .. Len(ledger)
      BY <1>4, <1>8 DEF AppendFails
    <2>2. {} \cup (ToSet(pending) \cup {i}) = (Answered + 1) .. i
      BY <1>1, <2>1
    <2>3. SettledTo(i)
      BY <1>1, <1>8, <2>1, <2>2, SettleStep DEF AppendFails
    <2>4. Leaves(i, i)
      BY <1>1, <1>8, <2>1, <2>3, EmptySeq DEF AppendFails, Leaves
    <2>5. IInv' /\ Answered' = i
      <3>1. /\ i \in Int /\ i = Processed + 1 /\ Len(hand) = 1 /\ hand' = <<>>
            /\ leased' = [leased EXCEPT ![Owner(i)] = @ - 1]
            /\ UNCHANGED <<queue, slots, stopping, stopper, primed, reader, lifecycle>>
            /\ flushNow' \in BOOLEAN
        BY <1>1, <1>8, <2>1 DEF AppendFails, Typed, Release
      <3>2. QED
        BY <2>4, <3>1, WriterInv
    <2>6. QED
      BY <1>1, <1>2, <1>8, <2>1, <2>4, <2>5 DEF AppendFails
  <1>9. ASSUME \/ Flush(ToSet(pending)) \/ UNCHANGED <<settleVars, pending, stream>>,
               UNCHANGED <<readerVars, hand, slots, queue, lifecycle>>, flushNow' \in BOOLEAN
        PROVE  Kept
    <2>1. PICK n \in Int : Leaves(n, Processed)
      BY <1>1, <1>3, <1>9, FlushSettles
    <2>2. IInv' /\ Answered' = n
      BY <1>1, <1>9, <2>1, WriterInv DEF Typed
    <2>3. QED
      BY <1>1, <1>2, <1>9, <2>1, <2>2
  <1>10. CASE Tick
    BY <1>1, <1>9, <1>10 DEF Tick, Typed
  <1>11. CASE FlushRequested
    BY <1>9, <1>11 DEF FlushRequested
  <1>12. CASE WriterExits
    <2>1. SettledTo(Processed)
      BY <1>1, <1>12, SettleStep DEF WriterExits
    <2>2. Leaves(Processed, Processed)
      BY <1>1, <1>12, <2>1, EmptySeq DEF WriterExits, Leaves
    <2>3. IInv' /\ Answered' = Processed
      BY <1>1, <1>12, <2>2, WriterInv DEF WriterExits, Typed
    <2>4. QED
      BY <1>1, <1>2, <1>12, <2>2, <2>3 DEF WriterExits
  <1>13. CASE Dequeue
    BY <1>13, DequeueInv
  <1>14. QED
    BY <1>5, <1>6, <1>7, <1>8, <1>10, <1>11, <1>12, <1>13 DEF WriterStep, BatchStep

-----------------------------------------------------------------------------
(* The invariant, and what it says                                         *)

\* At the start there are no batches, and nothing is held.
LEMMA InvInit ==
  ASSUME Init
  PROVE  IInv
  <1>1. /\ ledger = <<>> /\ queue = <<>> /\ hand = <<>> /\ pending = <<>>
        /\ Len(ledger) = 0 /\ Len(queue) = 0 /\ Len(hand) = 0 /\ Len(pending) = 0
    BY DEF Init
  <1>2. Processed = 0 /\ Answered = 0 /\ 1 .. Len(ledger) = {}
    <2>1. Len(ledger) = 0 /\ Len(queue) = 0 /\ Len(hand) = 0 /\ Len(pending) = 0
      BY <1>1
    <2>2. Processed = 0
      BY <2>1 DEF Processed
    <2>3. Answered = 0
      BY <2>1, <2>2 DEF Answered
    <2>4. QED
      BY <2>1, <2>2, <2>3
  <1>3. Typed
    <2>1. ledger \in Seq(Batches) /\ queue \in Seq(Nat) /\ hand \in Seq(Nat) /\ pending \in Seq(Nat)
      BY <1>1, EmptySeq
    <2>2. slots \in Int /\ slots <= Capacity
      BY PipelineAssumption DEF Init
    <2>3. QED
      BY <2>1, <2>2 DEF Init, Typed, ReaderStates, Outcomes
  <1>4. Ordered
    BY <1>1, <1>2 DEF Ordered
  <1>5. Counted
    <2>1. /\ Cycling = {}
          /\ \A j \in Jobs : /\ InTransit(j) = {} /\ Unanswered(j) = {}
                             /\ Leases(reader[j]) = 0 /\ Owes(reader[j]) = 0
      BY <1>2 DEF Init, Cycling, Holding, InTransit, Unanswered, Leases, Owes
    <2>2. Cardinality({}) = 0
      BY FS_EmptySet
    <2>3. /\ slots = 0 /\ \A j \in Jobs : leased[j] = 0 /\ work[j] = 0
          /\ 0 + 0 = 0
      BY DEF Init
    <2>4. Cardinality(Cycling) = 0
      BY <2>1, <2>2
    <2>5. \A j \in Jobs : Cardinality(InTransit(j)) = 0 /\ Cardinality(Unanswered(j)) = 0
      BY <2>1, <2>2
    <2>6. QED
      BY <1>1, <2>1, <2>3, <2>4, <2>5 DEF Counted
  <1>6. Priming /\ Rested /\ NoFlushWithoutStream /\ NoSendAfterClose
    BY <1>1, <1>2 DEF Init, Priming, Rested, NoFlushWithoutStream, NoSendAfterClose
  <1>7. QED
    BY <1>3, <1>4, <1>5, <1>6 DEF IInv

\* Every step keeps it.
LEMMA InvStep ==
  ASSUME IInv, [Next]_vars
  PROVE  IInv'
  <1>1. ASSUME NEW j \in Jobs, Start(j) \/ StopReturns(j) PROVE IInv'
    BY <1>1, RestInv
  <1>2. ASSUME NEW j \in Jobs, ReaderStep(j) PROVE IInv'
    BY <1>2, RestInv, DrainedInv, CycleInv, TakeReplyInv, EnqueueInv DEF ReaderStep
  <1>3. CASE (\E j \in Jobs : Stop(j)) \/ Shutdown \/ CloseQueue
    BY <1>3, EndInv
  <1>4. CASE WriterStep
    BY <1>4, WriterStepInv DEF Kept
  <1>5. CASE UNCHANGED vars
    <2>1. /\ UNCHANGED <<reader, stopping, stopper, primed, leased, reply, work, state, ledger>>
          /\ UNCHANGED <<hand, pending, stream, slots, queue, flushNow, lifecycle>>
      BY <1>5 DEF vars, readerVars, settleVars, writerVars
    <2>2. QED
      BY <2>1, StillInv DEF IInv, Typed
  <1>6. QED
    BY <1>1, <1>2, <1>3, <1>4, <1>5 DEF Next

\* The invariant holds in every reachable state.
THEOREM Inductive == Spec => []IInv
  <1>1. Init => IInv
    BY InvInit
  <1>2. IInv /\ [Next]_vars => IInv'
    BY InvStep
  <1>3. QED
    BY <1>1, <1>2, PTL DEF Spec

\* What is in the queue and in the writer's hand, by Job, is what is in transit.
LEMMA TransitIsInFlight ==
  ASSUME IInv, NEW j \in Jobs
  PROVE  BatchesOf(j, InFlight) = InTransit(j)
  <1>1. /\ Typed /\ Len(ledger) \in Nat /\ Len(queue) \in Nat /\ Len(hand) \in Nat /\ Len(hand) <= 1
        /\ Processed \in Int /\ Answered \in Int /\ Processed >= 0
        /\ \A k \in 1 .. Len(hand) : hand[k] = Processed + k
        /\ \A k \in 1 .. Len(queue) : queue[k] = Processed + Len(hand) + k
        /\ Len(ledger) = Processed + Len(hand) + Len(queue)
    <2>1. /\ Typed /\ Len(ledger) \in Nat /\ Len(queue) \in Nat /\ Len(hand) \in Nat
          /\ Len(pending) \in Nat /\ Processed \in Int /\ Answered \in Int
      BY Lengths DEF IInv
    <2>2. Processed = Answered + Len(pending) /\ Answered >= 0
      BY <2>1 DEF IInv, Ordered, Answered
    <2>3. Len(ledger) = Processed + Len(hand) + Len(queue)
      BY <2>1 DEF Processed
    <2>4. QED
      BY <2>1, <2>2, <2>3 DEF IInv, Ordered
  <1>2. /\ InFlight \in Seq(Nat) /\ Len(InFlight) = Len(queue) + Len(hand)
        /\ \A k \in 1 .. Len(queue) : InFlight[k] = queue[k]
        /\ \A k \in 1 .. Len(hand) : InFlight[Len(queue) + k] = hand[k]
    <2>1. queue \in Seq(Nat) /\ hand \in Seq(Nat)
      BY <1>1 DEF Typed
    <2>2. QED
      BY <1>1, <2>1, ConcatProperties DEF InFlight
  <1>3. ToSet(InFlight) = {InFlight[k] : k \in 1 .. Len(queue) + Len(hand)}
    BY <1>2 DEF ToSet
  <1>4. ASSUME NEW i \in ToSet(InFlight)
        PROVE  i \in 1 .. Len(ledger) /\ i > Processed
    <2>1. PICK k \in 1 .. Len(queue) + Len(hand) : i = InFlight[k]
      BY <1>3
    <2>2. CASE k <= Len(queue)
      BY <1>1, <1>2, <2>1, <2>2
    <2>3. CASE k > Len(queue)
      <3>1. k - Len(queue) \in 1 .. Len(hand) /\ k = Len(queue) + (k - Len(queue))
        BY <1>1, <2>3
      <3>2. i = hand[k - Len(queue)]
        BY <1>2, <2>1, <3>1
      <3>3. QED
        BY <1>1, <3>1, <3>2
    <2>4. QED
      BY <1>1, <2>2, <2>3
  <1>5. ASSUME NEW i \in 1 .. Len(ledger), i > Processed
        PROVE  i \in ToSet(InFlight)
    <2>1. CASE i > Processed + Len(hand)
      <3>1. PICK k \in 1 .. Len(queue) : i = Processed + Len(hand) + k
        <4>1. i - (Processed + Len(hand)) \in 1 .. Len(queue)
          BY <1>1, <2>1
        <4>2. i = Processed + Len(hand) + (i - (Processed + Len(hand)))
          BY <1>1
        <4>3. QED
          BY <4>1, <4>2
      <3>2. i = InFlight[k] /\ k \in 1 .. Len(queue) + Len(hand)
        BY <1>1, <1>2, <3>1
      <3>3. QED
        BY <1>3, <3>2
    <2>2. CASE i <= Processed + Len(hand)
      <3>1. Len(hand) = 1 /\ i = Processed + 1
        <4>1. /\ i \in Int /\ Processed \in Int /\ Len(hand) \in Nat /\ Len(hand) <= 1
              /\ i > Processed /\ i <= Processed + Len(hand)
          BY <1>1, <1>5, <2>2
        <4>2. \A x, y \in Int, l \in Nat :
                l <= 1 /\ x > y /\ x <= y + l => l = 1 /\ x = y + 1
          OBVIOUS
        <4>3. QED
          BY <4>1, <4>2, Zenon
      <3>2. i = InFlight[Len(queue) + 1] /\ Len(queue) + 1 \in 1 .. Len(queue) + Len(hand)
        BY <1>1, <1>2, <3>1
      <3>3. QED
        BY <1>3, <3>2
    <2>3. QED
      BY <1>1, <2>1, <2>2
  <1>6. QED
    BY <1>4, <1>5 DEF BatchesOf, InTransit

(***************************************************************************)
(* The books of the data plane balance on every path of main.go through an *)
(* error, a cancel or a stop: a reservation is a place of the queue, so    *)
(* that a reader that has read is never turned away by a full one, every   *)
(* buffer and every place is held by somebody, and nothing is pending      *)
(* without a stream.                                                       *)
(***************************************************************************)
THEOREM BooksBalance == Spec => []Balanced
  <1>1. IInv => Balanced
    <2> SUFFICES ASSUME IInv PROVE Balanced
      OBVIOUS
    <2>1. /\ Typed /\ Len(ledger) \in Nat /\ Len(queue) \in Nat /\ Len(hand) \in Nat
          /\ Len(pending) \in Nat /\ DOMAIN ledger = 1 .. Len(ledger)
          /\ Processed \in Int /\ Answered \in Int /\ Answered >= 0 /\ Len(hand) <= 1
      BY Lengths DEF IInv, Ordered
    <2>2. IsFiniteSet(Cycling) /\ Cardinality(Cycling) \in Nat
      BY <2>1, Counts
    <2>3. slots = Len(queue) + Cardinality(Cycling)
      BY DEF IInv, Counted
    <2>4. TypeOK
      <3>1. slots \in 0 .. Capacity
        BY <2>1, <2>2, <2>3, PipelineAssumption DEF Typed
      <3>2. work \in [Jobs -> Nat] /\ leased \in [Jobs -> Nat]
        <4>1. \A j \in Jobs : work[j] \in Nat /\ leased[j] \in Nat
          BY <2>1, Counts DEF IInv, Counted, Leases, Owes
        <4>2. QED
          BY <2>1, <4>1 DEF Typed
      <3>3. \A s \in {queue, hand, pending} : s \in Seq(DOMAIN ledger)
        <4>1. /\ Len(ledger) = Processed + Len(hand) + Len(queue)
              /\ Processed = Answered + Len(pending)
          BY <2>1 DEF Processed, Answered
        <4>2. \A k \in 1 .. Len(queue) : queue[k] \in DOMAIN ledger
          BY <2>1, <4>1 DEF IInv, Ordered
        <4>3. \A k \in 1 .. Len(hand) : hand[k] \in DOMAIN ledger
          BY <2>1, <4>1 DEF IInv, Ordered
        <4>4. \A k \in 1 .. Len(pending) : pending[k] \in DOMAIN ledger
          BY <2>1, <4>1 DEF IInv, Ordered
        <4>5. \A s \in Seq(Nat) :
               (\A k \in 1 .. Len(s) : s[k] \in DOMAIN ledger) => s \in Seq(DOMAIN ledger)
          OBVIOUS
        <4>6. queue \in Seq(Nat) /\ hand \in Seq(Nat) /\ pending \in Seq(Nat)
          BY <2>1 DEF Typed
        <4>7. QED
          BY <4>2, <4>3, <4>4, <4>5, <4>6
      <3>4. QED
        BY <2>1, <3>1, <3>2, <3>3 DEF Typed, TypeOK, ReaderStates
    <2>5. ReservationIsAPlace
      <3>1. SUFFICES ASSUME NEW j \in Jobs, reader[j] = "handoff" PROVE Len(queue) < Capacity
        BY DEF ReservationIsAPlace
      <3>2. j \in Cycling
        BY <3>1 DEF Cycling, Holding
      <3>3. Cardinality(Cycling) # 0
        BY <2>2, <3>2, FS_EmptySet
      <3>4. QED
        BY <2>1, <2>2, <2>3, <3>3, PipelineAssumption DEF Typed
    <2>6. Accounted
      <3>1. \A j \in Jobs : leased[j] = Cardinality(BatchesOf(j, InFlight))
                                         + (IF reader[j] \in Holding THEN 1 ELSE 0)
        BY TransitIsInFlight DEF IInv, Counted, Leases
      <3>2. QED
        BY <2>3, <3>1 DEF Accounted, Cycling
    <2>7. QED
      BY <2>4, <2>5, <2>6 DEF IInv, Balanced
  <1>2. QED
    BY <1>1, Inductive, PTL

(***************************************************************************)
(* When stop() has returned or a Job has failed, nothing of it is left in  *)
(* the queue, in the writer's hand or in the stream, no buffer is on lease *)
(* and no work is unanswered.                                              *)
(***************************************************************************)
THEOREM StopLeavesNothing == Spec => []StopDrains
  <1>1. IInv => StopDrains
    <2> SUFFICES ASSUME IInv, NEW j \in Jobs, reader[j] \in {"off", "done"}
                 PROVE  /\ leased[j] = 0 /\ work[j] = 0 /\ reply[j] = "open"
                        /\ BatchesOf(j, InFlight \o pending) = {}
      BY DEF StopDrains
    <2>1. /\ leased[j] = 0 /\ work[j] = 0 /\ reply[j] = "open"
          /\ \A i \in 1 .. Len(ledger) : Owner(i) = j => i <= Answered
      BY RestHolds DEF AtRest
    <2>2. /\ ToSet(pending) = (Answered + 1) .. Processed
          /\ Answered \in Int /\ Processed \in Int /\ Answered <= Processed
          /\ Len(ledger) \in Nat /\ Processed <= Len(ledger) /\ Answered >= 0
      BY PendingSet DEF IInv, Ordered
    <2>3. ToSet(InFlight \o pending) = ToSet(InFlight) \cup ToSet(pending)
      <3>1. InFlight \in Seq(Nat) /\ pending \in Seq(Nat)
        BY ConcatProperties DEF IInv, Typed, InFlight
      <3>2. Range(InFlight \o pending) = Range(InFlight) \cup Range(pending)
        BY <3>1, RangeConcatenation
      <3>3. \A s : ToSet(s) = Range(s)
        BY DEF ToSet, Range
      <3>4. QED
        BY <3>2, <3>3
    <2>4. \A i \in ToSet(pending) : Owner(i) # j
      BY <2>1, <2>2
    <2>5. \A i \in ToSet(InFlight) : Owner(i) # j
      <3>1. InTransit(j) = {}
        BY <2>1, <2>2 DEF InTransit
      <3>2. QED
        BY <3>1, TransitIsInFlight DEF BatchesOf
    <2>6. QED
      BY <2>1, <2>3, <2>4, <2>5 DEF BatchesOf
  <1>2. QED
    BY <1>1, Inductive, PTL

(***************************************************************************)
(* shutdown() closes the queue when no reader can send on it any more.     *)
(***************************************************************************)
THEOREM NothingSentAfterClose == Spec => []NoSendAfterClose
  <1>1. IInv => NoSendAfterClose
    BY DEF IInv
  <1>2. QED
    BY <1>1, Inductive, PTL

-----------------------------------------------------------------------------
(* The ledger of answers                                                   *)

\* The state of BatchLedger that a state of the data plane stands for.
LogOf(l)   == [i \in DOMAIN l |-> [job |-> l[i].job, outcome |-> l[i].outcome]]
Log        == LogOf(ledger)
Collecting == {j \in Jobs : reader[j] \notin {"off", "done"}}

\* The log is a sequence, batch by batch the ledger's.
LEMMA LogIsSeq ==
  ASSUME NEW l \in Seq(Batches)
  PROVE  /\ DOMAIN LogOf(l) = 1 .. Len(l) /\ Len(l) \in Nat
         /\ LogOf(l) \in Seq([job : Jobs, outcome : Outcomes]) /\ Len(LogOf(l)) = Len(l)
         /\ \A i \in 1 .. Len(l) : LogOf(l)[i] = [job |-> l[i].job, outcome |-> l[i].outcome]
  <1>1. /\ Len(l) \in Nat /\ DOMAIN l = 1 .. Len(l)
        /\ \A i \in 1 .. Len(l) : l[i].job \in Jobs /\ l[i].outcome \in Outcomes
    <2>1. Len(l) \in Nat /\ DOMAIN l = 1 .. Len(l) /\ \A i \in 1 .. Len(l) : l[i] \in Batches
      OBVIOUS
    <2>2. QED
      BY <2>1 DEF Batches
  <1>2. LogOf(l) = [i \in 1 .. Len(l) |-> [job |-> l[i].job, outcome |-> l[i].outcome]]
    BY <1>1 DEF LogOf
  <1>3. LogOf(l) \in [1 .. Len(l) -> [job : Jobs, outcome : Outcomes]]
    BY <1>1, <1>2
  <1>4. LogOf(l) \in Seq([job : Jobs, outcome : Outcomes])
    <2>1. \A R : LogOf(l) \in [1 .. Len(l) -> R] => LogOf(l) \in Seq(R)
      BY <1>1, IsASeq
    <2>2. QED
      BY <1>3, <2>1
  <1>5. DOMAIN LogOf(l) = 1 .. Len(l) /\ Len(LogOf(l)) \in Nat
    BY <1>2, <1>4
  <1>6. Len(LogOf(l)) = Len(l)
    <2>1. DOMAIN LogOf(l) = 1 .. Len(LogOf(l))
      BY <1>4, LenProperties
    <2>2. QED
      BY <1>1, <1>5, <2>1
  <1>7. QED
    BY <1>1, <1>2, <1>4, <1>5, <1>6

\* Nothing of the ledger moves when no batch is accepted or answered and the
\* same readers run.
LEMMA LedgerStutters ==
  ASSUME UNCHANGED ledger,
         \A j \in Jobs : reader'[j] \in {"off", "done"} <=> reader[j] \in {"off", "done"}
  PROVE  UNCHANGED Ledger!ledgerVars
  BY DEF Ledger!ledgerVars

\* A reader that moves begins or ends the collecting of its Job, or neither; it
\* ends when the batches of the Job are answered.
LEMMA MoveMaps ==
  ASSUME IInv, IInv', NEW j \in Jobs, NEW from, NEW to, Move(j, from, to), UNCHANGED ledger
  PROVE  Ledger!Begin(j) \/ Ledger!End(j) \/ UNCHANGED Ledger!ledgerVars
  <1>1. /\ reader[j] = from /\ reader'[j] = to /\ Typed
        /\ \A k \in Jobs \ {j} : reader'[k] = reader[k]
    BY DEF IInv, Typed, Move
  <1>2. Log' = Log
    BY DEF Log, LogOf
  <1>3. CASE from \in {"off", "done"} /\ to \notin {"off", "done"}
    <2>1. j \notin Collecting /\ Collecting' = Collecting \cup {j}
      BY <1>1, <1>3 DEF Collecting
    <2>2. QED
      BY <1>2, <2>1 DEF Ledger!Begin, Log, LogOf, Collecting
  <1>4. CASE from \notin {"off", "done"} /\ to \in {"off", "done"}
    <2>1. j \in Collecting /\ Collecting' = Collecting \ {j}
      BY <1>1, <1>4 DEF Collecting
    <2>2. \A i \in 1 .. Len(ledger) : Owner(i) = j => ledger[i].outcome # "open"
      <3>1. SUFFICES ASSUME NEW i \in 1 .. Len(ledger), Owner(i) = j
                     PROVE  ledger[i].outcome # "open"
        OBVIOUS
      <3>2. i <= Answered' /\ (ledger'[i].outcome = "open" <=> i > Answered')
        BY <1>1, <1>4, <3>1 DEF IInv, Rested, Ordered, AtRest, Owner
      <3>3. Answered' \in Int
        BY DEF IInv, Typed, Answered, Processed
      <3>4. QED
        BY <3>2, <3>3
    <2>3. \A i \in DOMAIN Log : Log[i].job = j => ~(Log[i].outcome = "open")
      <3>1. /\ DOMAIN Log = 1 .. Len(ledger)
            /\ \A i \in 1 .. Len(ledger) : Log[i] = [job |-> ledger[i].job, outcome |-> ledger[i].outcome]
        BY <1>1, LogIsSeq DEF Typed, Log
      <3>2. \A i \in 1 .. Len(ledger) : Log[i].job = Owner(i) /\ Log[i].outcome = ledger[i].outcome
        BY <3>1 DEF Owner
      <3>3. QED
        BY <2>2, <3>1, <3>2
    <2>4. QED
      BY <1>2, <2>1, <2>3 DEF Ledger!End, Ledger!Open, Log, LogOf, Collecting
  <1>5. CASE from \in {"off", "done"} <=> to \in {"off", "done"}
    BY <1>1, <1>5, LedgerStutters
  <1>6. QED
    BY <1>3, <1>4, <1>5

\* What the queue accepts is the next batch of the log.
LEMMA EnqueueMaps ==
  ASSUME IInv, IInv', NEW j \in Jobs, Enqueue(j)
  PROVE  Ledger!Accept(j)
  <1>1. /\ Typed /\ Typed' /\ reader[j] = "handoff"
        /\ \E to \in {"wait", "priming"} : reader' = [reader EXCEPT ![j] = to]
    BY DEF IInv, Enqueue, Move
  <1>2. j \in Collecting /\ Collecting' = Collecting
    BY <1>1 DEF Typed, Collecting
  <1>3. PICK b : /\ b = [job |-> j, priming |-> ~primed[j], outcome |-> "open"]
                 /\ ledger' = Append(ledger, b)
    BY DEF Enqueue
  <1>4. PICK r : r = [job |-> j, outcome |-> "open"]
    OBVIOUS
  <1>5. /\ Len(ledger) \in Nat /\ Len(ledger') = Len(ledger) + 1
        /\ ledger'[Len(ledger) + 1] = b /\ b.job = j /\ b.outcome = "open"
        /\ \A i \in 1 .. Len(ledger) : ledger'[i] = ledger[i]
    BY <1>1, <1>3, Lengths DEF Typed
  <1>6. /\ Log' \in Seq([job : Jobs, outcome : Outcomes]) /\ Len(Log') = Len(ledger) + 1
        /\ \A i \in 1 .. Len(ledger) : Log'[i] = Log[i]
        /\ Log'[Len(ledger) + 1] = r
    <2>1. /\ Log' \in Seq([job : Jobs, outcome : Outcomes]) /\ Len(Log') = Len(ledger')
          /\ \A i \in 1 .. Len(ledger') :
               Log'[i] = [job |-> ledger'[i].job, outcome |-> ledger'[i].outcome]
      BY <1>1, LogIsSeq DEF Typed, Log
    <2>2. \A i \in 1 .. Len(ledger) : Log[i] = [job |-> ledger[i].job, outcome |-> ledger[i].outcome]
      BY <1>1, LogIsSeq DEF Typed, Log
    <2>3. \A i \in 1 .. Len(ledger) : i \in 1 .. Len(ledger') /\ Log'[i] = Log[i]
      <3>1. SUFFICES ASSUME NEW i \in 1 .. Len(ledger)
                     PROVE  i \in 1 .. Len(ledger') /\ Log'[i] = Log[i]
        OBVIOUS
      <3>2. i \in 1 .. Len(ledger') /\ ledger'[i] = ledger[i]
        BY <1>5
      <3>3. QED
        BY <2>1, <2>2, <3>2
    <2>4. Log'[Len(ledger) + 1] = r
      BY <1>4, <1>5, <2>1
    <2>5. QED
      BY <1>5, <2>1, <2>3, <2>4
  <1>7. /\ Append(Log, r) \in Seq([job : Jobs, outcome : Outcomes])
        /\ Len(Append(Log, r)) = Len(ledger) + 1
        /\ \A i \in 1 .. Len(ledger) : Append(Log, r)[i] = Log[i]
        /\ Append(Log, r)[Len(ledger) + 1] = r
    <2>1. r \in [job : Jobs, outcome : Outcomes]
      BY <1>4 DEF Outcomes
    <2>2. Log \in Seq([job : Jobs, outcome : Outcomes]) /\ Len(Log) = Len(ledger)
      BY <1>1, LogIsSeq DEF Typed, Log
    <2> HIDE DEF Log
    <2>3. QED
      BY <2>1, <2>2, AppendProperties
  <1>8. Log' = Append(Log, r)
    <2>1. \A i \in 1 .. Len(Log') : Log'[i] = Append(Log, r)[i]
      BY <1>5, <1>6, <1>7
    <2>2. QED
      BY <1>6, <1>7, <2>1, SeqEqual
  <1>9. QED
    BY <1>2, <1>4, <1>8 DEF Ledger!Accept, Log, LogOf, Collecting

\* What the writer answers is the oldest open batches of the log, if any.
LEMMA WriterMaps ==
  ASSUME IInv, WriterStep
  PROVE  (\E n \in DOMAIN Log : Ledger!Answer(n)) \/ UNCHANGED Ledger!ledgerVars
  <1>1. /\ Kept /\ Typed /\ Typed' /\ Len(ledger) \in Nat
        /\ Answered \in Int /\ Answered' \in Int /\ Answered' <= Len(ledger)
        /\ Answered >= 0
    <2>1. Kept
      BY WriterStepInv
    <2>2. IInv' /\ Len(ledger') = Len(ledger)
      BY <2>1 DEF Kept, SettledTo
    <2>3. Answered' \in Int /\ Answered' <= Len(ledger')
      BY <2>2 DEF IInv, Typed, Answered, Processed
    <2>4. QED
      BY <2>1, <2>2, <2>3, Lengths DEF IInv, Ordered
  <1>2. Collecting' = Collecting
    BY <1>1 DEF Kept, Collecting
  <1>3. PICK n \in Int : n = Answered'
    BY <1>1
  <1>4. /\ Len(ledger') = Len(ledger)
        /\ \A i \in 1 .. Len(ledger) :
             /\ ledger'[i].job = ledger[i].job
             /\ i > Answered /\ i <= n => ledger'[i].outcome \in {"stored", "failed"}
             /\ ~(i > Answered /\ i <= n) => ledger'[i].outcome = ledger[i].outcome
             /\ ledger[i].outcome = "open" <=> i > Answered
    BY <1>1, <1>3 DEF Kept, SettledTo, IInv, Ordered
  <1>5. /\ DOMAIN Log = 1 .. Len(ledger) /\ DOMAIN Log' = 1 .. Len(ledger)
        /\ \A i \in 1 .. Len(ledger) :
             /\ Log[i] = [job |-> ledger[i].job, outcome |-> ledger[i].outcome]
             /\ Log'[i] = [job |-> ledger'[i].job, outcome |-> ledger'[i].outcome]
        /\ Log' = [i \in 1 .. Len(ledger) |-> Log'[i]]
        /\ Log = [i \in 1 .. Len(ledger) |-> Log[i]]
    BY <1>1, <1>4, LogIsSeq DEF Typed, Log, LogOf
  <1>6. CASE n > Answered
    <2>1. n \in 1 .. Len(ledger) /\ Log[n].outcome = "open"
      BY <1>1, <1>3, <1>4, <1>5, <1>6
    <2>2. PICK result : result = [i \in {k \in 1 .. n : Log[k].outcome = "open"} |-> ledger'[i].outcome]
      OBVIOUS
    <2>3. \A i \in 1 .. Len(ledger) : i \in DOMAIN result <=> i > Answered /\ i <= n
      BY <1>1, <1>4, <1>5, <2>1, <2>2
    <2>4. result \in [{k \in 1 .. n : Log[k].outcome = "open"} -> {"stored", "failed"}]
      BY <1>4, <2>1, <2>2, <2>3
    <2>5. \A i \in 1 .. Len(ledger) :
            Log'[i] = IF i \in DOMAIN result THEN [Log[i] EXCEPT !.outcome = result[i]] ELSE Log[i]
      BY <1>4, <1>5, <2>2, <2>3
    <2>6. Log' = [i \in DOMAIN Log |->
                    IF i \in DOMAIN result THEN [Log[i] EXCEPT !.outcome = result[i]] ELSE Log[i]]
      BY <1>5, <2>5
    <2>7. Ledger!Answer(n)
      BY <1>2, <2>1, <2>4, <2>6 DEF Ledger!Answer, Ledger!Open, Log, LogOf, Collecting
    <2>8. QED
      BY <1>5, <2>1, <2>7
  <1>7. CASE ~(n > Answered)
    <2>1. \A i \in 1 .. Len(ledger) : Log'[i] = Log[i]
      BY <1>1, <1>3, <1>4, <1>5, <1>7
    <2>2. Log' = Log
      BY <1>5, <2>1
    <2>3. QED
      BY <1>2, <2>2 DEF Ledger!ledgerVars, Log, LogOf, Collecting
  <1>8. QED
    BY <1>6, <1>7

(***************************************************************************)
(* Whatever the readers, the writer, the stream, the stop commands and the *)
(* shutdown do, every batch the queue accepts is answered once, stored or  *)
(* failed, in the order of acceptance, and a Job is not over before its    *)
(* batches are: the data plane implements BatchLedger.                     *)
(***************************************************************************)
THEOREM PipelineImplementsLedger == Spec => AnsweredOnceInOrder
  <1>1. Init => Ledger!Init
    BY DEF Init, Ledger!Init
  <1>2. IInv /\ IInv' /\ [Next]_vars => [Ledger!Next]_(Ledger!ledgerVars)
    <2> SUFFICES ASSUME IInv, IInv', [Next]_vars
                 PROVE  [Ledger!Next]_(Ledger!ledgerVars)
      OBVIOUS
    <2> USE DEF settleVars, writerVars, readerVars
    <2>1. ASSUME NEW j \in Jobs, NEW from, NEW to, Move(j, from, to), UNCHANGED ledger
          PROVE  [Ledger!Next]_(Ledger!ledgerVars)
      BY <2>1, MoveMaps DEF Ledger!Next
    <2>2. ASSUME NEW j \in Jobs, Start(j) PROVE [Ledger!Next]_(Ledger!ledgerVars)
      BY <2>1, <2>2 DEF Start
    <2>3. ASSUME NEW j \in Jobs, StopReturns(j) PROVE [Ledger!Next]_(Ledger!ledgerVars)
      BY <2>1, <2>3 DEF StopReturns
    <2>4. ASSUME NEW j \in Jobs, ReaderStep(j) PROVE [Ledger!Next]_(Ledger!ledgerVars)
      <3>1. CASE Enqueue(j)
        BY <3>1, EnqueueMaps DEF Ledger!Next
      <3>2. CASE Started(j) \/ EnterReader(j) \/ StartFails(j) \/ StartCancelled(j) \/ FailStart(j)
        BY <2>1, <3>2 DEF Started, EnterReader, StartFails, StartCancelled, FailStart
      <3>3. CASE BeginCycle(j) \/ ReadFails(j) \/ ReadSucceeds(j) \/ HandoffFails(j)
        BY <2>1, <3>3 DEF BeginCycle, ReadFails, ReadSucceeds, HandoffFails
      <3>4. CASE TakeReply(j) \/ TimerFails(j) \/ Drained(j)
        BY <2>1, <3>4 DEF TakeReply, TimerFails, Drained
      <3>5. QED
        BY <2>4, <3>1, <3>2, <3>3, <3>4 DEF ReaderStep
    <2>5. CASE \E j \in Jobs : Stop(j)
      BY <2>5, LedgerStutters DEF Stop
    <2>6. CASE Shutdown \/ CloseQueue
      BY <2>6, LedgerStutters DEF Shutdown, CloseQueue
    <2>7. CASE WriterStep
      BY <2>7, WriterMaps DEF Ledger!Next, Log, LogOf
    <2>8. CASE UNCHANGED vars
      BY <2>8, LedgerStutters DEF vars
    <2>9. QED
      BY <2>2, <2>3, <2>4, <2>5, <2>6, <2>7, <2>8 DEF Next
  <1>3. QED
    BY <1>1, <1>2, Inductive, PTL DEF Spec, AnsweredOnceInOrder, Ledger!Spec
=============================================================================
