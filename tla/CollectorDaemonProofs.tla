------------------------ MODULE CollectorDaemonProofs ------------------------
(***************************************************************************)
(* Proofs about the two collectors: CollectorDaemon for any set of Jobs    *)
(* and, in the second part, GenericCollector.  IInv is the daemon's        *)
(* inductive invariant: it ties the step a command has reached to the      *)
(* goroutine, the table, the state and the files of its Job, and says what *)
(* shutdown() has found and what it may have missed.                       *)
(***************************************************************************)
EXTENDS CollectorDaemon, Integers, Sequences, FiniteSetTheorems, TLAPS

-----------------------------------------------------------------------------
(* The inductive invariant                                                 *)

\* The goroutine that prepares or collects.
Working(j) == worker[j] \in {"preparing", "requested", "running"}
Alive(j)   == Working(j) \/ worker[j] = "failing"
Closed     == phase \in {"closed", "draining"}

\* A start between its check and the return of its reply.
Starting(j) == command[j].at \in {"checkpoint", "undo", "unpublish"}

\* Nothing runs in no process, and nothing but the restoration of the
\* active Jobs while the control socket is not served.
Quiet ==
  \A j \in Jobs :
    /\ phase = "down" => command[j] = Idle /\ worker[j] = "none"
    /\ phase = "restoring" => command[j].op \in {"restore", "none"}

\* What the command of a Job has done to the Job when it is at a step.
StartsInOrder ==
  \A j \in Jobs :
    /\ command[j].at \in {"persist", "publish"} => ~Alive(j)
    /\ command[j].at \in {"publish", "checkpoint"} => j \in active \ stopped
    /\ Starting(j) => worker[j] = "none" /\ (j \in table \/ phase = "draining")
    /\ At(j, "checkpoint") => state[j] = "starting"
    /\ command[j].at \in {"undo", "unpublish"} => j \in undone
    /\ At(j, "unpublish") => j \notin accepted

StopsInOrder ==
  \A j \in Jobs :
    /\ command[j].at \in {"cancel", "wait", "confirm"} => j \notin active
    /\ At(j, "wait") => worker[j] # "none"
    /\ At(j, "confirm") => worker[j] = "done"

\* A goroutine that has not ended is in the table until the queue is closed,
\* and what it says, and what was last checkpointed of it, is busy.
TableKnows ==
  \A j \in Jobs :
    /\ Alive(j) => j \in table \/ phase = "draining"
    /\ j \in table => worker[j] # "none" \/ Starting(j)
    /\ Working(j) => state[j] \in Busy /\ checkpoint[j] \in Busy

\* What shutdown() has found in the table, and the starts it has missed.
ShutdownKnows ==
  \A j \in Jobs :
    /\ phase = "closed" /\ worker[j] \in {"requested", "running"} => j \in awaited
    /\ phase = "draining" => worker[j] \notin {"requested", "running"}
    /\ Closed /\ (At(j, "checkpoint") \/ worker[j] = "preparing") => j \in cancelled \cup late

\* A stop has ended the goroutine, or left one that finds the daemon closed.
StopEnds ==
  \A j \in stopped : /\ j \notin active
                     /\ worker[j] \notin {"requested", "running"}
                     /\ worker[j] = "preparing" => phase = "draining"

IInv ==
  /\ TypeOK
  /\ Quiet
  /\ StartsInOrder
  /\ StopsInOrder
  /\ TableKnows
  /\ ShutdownKnows
  /\ StopEnds
  /\ BusyIsInTable
  /\ SurvivesUnlessLate
  /\ WaitsForAWorker

-----------------------------------------------------------------------------
(* The initial state                                                       *)

\* Before the first process nothing runs, and IInv holds.
LEMMA InvInit == Init => IInv
  <1> USE DEF Idle, States, Ops, Steps, NoJobs, SetActive, Checkpoint, Publish,
              At, Step, Return, Refuse, Become, FailStart, files, history,
              Quiet, StartsInOrder, StopsInOrder, TableKnows, ShutdownKnows, StopEnds,
              BusyIsInTable, SurvivesUnlessLate, WaitsForAWorker, Busy, Working, Alive,
              Closed, Starting
  <1>1. QED
    BY DEF Init, IInv, TypeOK

-----------------------------------------------------------------------------
(* Type correctness                                                        *)

\* A step of the command of a Job keeps the types.
LEMMA TypeCommand ==
  ASSUME TypeOK, NEW j \in Jobs, CommandStep(j)
  PROVE  TypeOK'
  <1> USE DEF TypeOK, Idle, States, Ops, Steps, NoJobs, SetActive, Checkpoint, Publish,
              At, Step, Return, Refuse, Become, FailStart, files, history
  <1>1. CASE StartRefused(j)
    BY <1>1 DEF StartRefused
  <1>2. CASE StartCheck(j)
    BY <1>2 DEF StartCheck
  <1>3. CASE StartPersist(j)
    BY <1>3 DEF StartPersist
  <1>4. CASE StartPublish(j)
    BY <1>4 DEF StartPublish
  <1>5. CASE StartCheckpoint(j)
    BY <1>5 DEF StartCheckpoint
  <1>6. CASE StartUndo(j)
    BY <1>6 DEF StartUndo
  <1>7. CASE StartUnpublish(j)
    BY <1>7 DEF StartUnpublish
  <1>8. CASE StopPersist(j)
    BY <1>8 DEF StopPersist
  <1>9. CASE StopCancel(j)
    BY <1>9 DEF StopCancel, Stopped
  <1>10. CASE StopWait(j)
    BY <1>10 DEF StopWait
  <1>11. CASE StopConfirm(j)
    BY <1>11 DEF StopConfirm, Stopped
  <1> HIDE DEF TypeOK
  <1>12. QED
    BY <1>1, <1>2, <1>3, <1>4, <1>5, <1>6, <1>7, <1>8, <1>9, <1>10, <1>11 DEF CommandStep

\* A step of the goroutine of a Job keeps the types.
LEMMA TypeWorker ==
  ASSUME TypeOK, NEW j \in Jobs, WorkerStep(j)
  PROVE  TypeOK'
  <1> USE DEF TypeOK, Idle, States, Ops, Steps, NoJobs, SetActive, Checkpoint, Publish,
              At, Step, Return, Refuse, Become, FailStart, files, history
  <1>1. CASE Prepare(j)
    BY <1>1 DEF Prepare
  <1>2. CASE Prepared(j)
    BY <1>2 DEF Prepared
  <1>3. CASE Fail(j)
    BY <1>3 DEF Fail
  <1>4. CASE Failed(j)
    BY <1>4 DEF Failed
  <1>5. CASE Ended(j)
    BY <1>5 DEF Ended
  <1>6. CASE RecordError(j)
    BY <1>6 DEF RecordError
  <1> HIDE DEF TypeOK
  <1>7. QED
    BY <1>1, <1>2, <1>3, <1>4, <1>5, <1>6 DEF WorkerStep

\* Boot, shutdown, the end of the process and its checkpoints keep the types.
LEMMA TypeProcess ==
  ASSUME TypeOK, Boot \/ Serve \/ Shutdown \/ ShutdownCloses \/ Exit \/ Crash \/ CheckpointTick
  PROVE  TypeOK'
  <1> USE DEF TypeOK, Idle, States, Ops, Steps, NoJobs, SetActive, Checkpoint, Publish,
              At, Step, Return, Refuse, Become, FailStart, files, history
  <1>1. CASE Boot
    BY <1>1 DEF Boot
  <1>2. CASE Serve
    BY <1>2 DEF Serve, Restoring
  <1>3. CASE Shutdown
    BY <1>3 DEF Shutdown
  <1>4. CASE ShutdownCloses
    BY <1>4 DEF ShutdownCloses
  <1>5. CASE Exit
    BY <1>5 DEF Exit, Down
  <1>6. CASE Crash
    BY <1>6 DEF Crash, Down
  <1>7. CASE CheckpointTick
    BY <1>7 DEF CheckpointTick
  <1> HIDE DEF TypeOK
  <1>8. QED
    BY <1>1, <1>2, <1>3, <1>4, <1>5, <1>6, <1>7

\* A command that arrives, and a Job that is to be restored, keep the types.
LEMMA TypeArrival ==
  ASSUME TypeOK, NEW j \in Jobs,
         RestoreNext(j) \/ \E op \in {"start", "stop", "reload"} : Receive(j, op)
  PROVE  TypeOK'
  <1> USE DEF TypeOK, Idle, States, Ops, Steps, NoJobs, SetActive, Checkpoint, Publish,
              At, Step, Return, Refuse, Become, FailStart, files, history
  <1>1. CASE RestoreNext(j)
    BY <1>1 DEF RestoreNext, Restoring
  <1>2. CASE \E op \in {"start", "stop", "reload"} : Receive(j, op)
    BY <1>2 DEF Receive
  <1> HIDE DEF TypeOK
  <1>3. QED
    BY <1>1, <1>2

\* Every step keeps the types.
LEMMA TypeStep == TypeOK /\ [Next]_vars => TypeOK'
  <1>1. CASE UNCHANGED vars
    BY <1>1 DEF vars, files, history, TypeOK, IInv,
              Quiet, StartsInOrder, StopsInOrder, TableKnows, ShutdownKnows, StopEnds,
              BusyIsInTable, SurvivesUnlessLate, WaitsForAWorker, Busy, Working, Alive,
              Closed, Starting, At
  <1>2. QED
    BY <1>1, TypeCommand, TypeWorker, TypeProcess, TypeArrival DEF Next

-----------------------------------------------------------------------------
(* The inductive step: under each action one step per part of IInv, where  *)
(* the command moves                                                       *)

\* A step of the command of a Job keeps IInv.
LEMMA InvCommand ==
  ASSUME IInv, NEW j \in Jobs, CommandStep(j)
  PROVE  IInv'
  <1>0. TypeOK'
    BY TypeCommand DEF IInv
  <1> USE <1>0 DEF IInv, TypeOK, Idle, States, Ops, Steps, NoJobs, SetActive, Checkpoint, Publish,
              At, Step, Return, Refuse, Become, FailStart, files, history,
              Quiet, StartsInOrder, StopsInOrder, TableKnows, ShutdownKnows, StopEnds,
              BusyIsInTable, SurvivesUnlessLate, WaitsForAWorker, Busy, Working, Alive,
              Closed, Starting
  <1>1. CASE StartRefused(j)
    <2>1. Quiet'
      BY <1>1 DEF StartRefused
    <2>2. StopsInOrder'
      BY <1>1 DEF StartRefused
    <2>3. StartsInOrder'
      BY <1>1 DEF StartRefused
    <2>4. TableKnows'
      BY <1>1 DEF StartRefused
    <2>5. BusyIsInTable'
      BY <1>1 DEF StartRefused
    <2>6. ShutdownKnows'
      BY <1>1 DEF StartRefused
    <2>7. WaitsForAWorker'
      BY <1>1 DEF StartRefused
    <2>8. StopEnds' /\ SurvivesUnlessLate'
      BY <1>1 DEF StartRefused
    <2> HIDE DEF Quiet, StartsInOrder, StopsInOrder, TableKnows, ShutdownKnows, StopEnds,
                 BusyIsInTable, SurvivesUnlessLate, WaitsForAWorker, TypeOK
    <2>9. QED
      BY <2>1, <2>2, <2>3, <2>4, <2>5, <2>6, <2>7, <2>8
  <1>2. CASE StartCheck(j)
    <2>1. Quiet'
      BY <1>2 DEF StartCheck
    <2>2. StopsInOrder'
      BY <1>2 DEF StartCheck
    <2>3. StartsInOrder'
      BY <1>2 DEF StartCheck
    <2>4. TableKnows'
      BY <1>2 DEF StartCheck
    <2>5. BusyIsInTable'
      BY <1>2 DEF StartCheck
    <2>6. ShutdownKnows'
      BY <1>2 DEF StartCheck
    <2>7. WaitsForAWorker'
      BY <1>2 DEF StartCheck
    <2>8. StopEnds' /\ SurvivesUnlessLate'
      BY <1>2 DEF StartCheck
    <2> HIDE DEF Quiet, StartsInOrder, StopsInOrder, TableKnows, ShutdownKnows, StopEnds,
                 BusyIsInTable, SurvivesUnlessLate, WaitsForAWorker, TypeOK
    <2>9. QED
      BY <2>1, <2>2, <2>3, <2>4, <2>5, <2>6, <2>7, <2>8
  <1>3. CASE StartPersist(j)
    <2>1. Quiet'
      BY <1>3 DEF StartPersist
    <2>2. StopsInOrder'
      BY <1>3 DEF StartPersist
    <2>3. StartsInOrder'
      BY <1>3 DEF StartPersist
    <2>4. TableKnows'
      BY <1>3 DEF StartPersist
    <2>5. BusyIsInTable'
      BY <1>3 DEF StartPersist
    <2>6. ShutdownKnows'
      BY <1>3 DEF StartPersist
    <2>7. WaitsForAWorker'
      BY <1>3 DEF StartPersist
    <2>8. StopEnds' /\ SurvivesUnlessLate'
      BY <1>3 DEF StartPersist
    <2> HIDE DEF Quiet, StartsInOrder, StopsInOrder, TableKnows, ShutdownKnows, StopEnds,
                 BusyIsInTable, SurvivesUnlessLate, WaitsForAWorker, TypeOK
    <2>9. QED
      BY <2>1, <2>2, <2>3, <2>4, <2>5, <2>6, <2>7, <2>8
  <1>4. CASE StartPublish(j)
    BY <1>4 DEF StartPublish
  <1>5. CASE StartCheckpoint(j)
    <2>1. Quiet'
      BY <1>5 DEF StartCheckpoint
    <2>2. StopsInOrder'
      BY <1>5 DEF StartCheckpoint
    <2>3. StartsInOrder'
      BY <1>5 DEF StartCheckpoint
    <2>4. TableKnows'
      BY <1>5 DEF StartCheckpoint
    <2>5. BusyIsInTable'
      BY <1>5 DEF StartCheckpoint
    <2>6. ShutdownKnows'
      BY <1>5 DEF StartCheckpoint
    <2>7. WaitsForAWorker'
      BY <1>5 DEF StartCheckpoint
    <2>8. StopEnds' /\ SurvivesUnlessLate'
      BY <1>5 DEF StartCheckpoint
    <2> HIDE DEF Quiet, StartsInOrder, StopsInOrder, TableKnows, ShutdownKnows, StopEnds,
                 BusyIsInTable, SurvivesUnlessLate, WaitsForAWorker, TypeOK
    <2>9. QED
      BY <2>1, <2>2, <2>3, <2>4, <2>5, <2>6, <2>7, <2>8
  <1>6. CASE StartUndo(j)
    BY <1>6 DEF StartUndo
  <1>7. CASE StartUnpublish(j)
    <2>1. Quiet'
      BY <1>7 DEF StartUnpublish
    <2>2. StopsInOrder'
      BY <1>7 DEF StartUnpublish
    <2>3. StartsInOrder'
      BY <1>7 DEF StartUnpublish
    <2>4. TableKnows'
      BY <1>7 DEF StartUnpublish
    <2>5. BusyIsInTable'
      BY <1>7 DEF StartUnpublish
    <2>6. ShutdownKnows'
      BY <1>7 DEF StartUnpublish
    <2>7. WaitsForAWorker'
      BY <1>7 DEF StartUnpublish
    <2>8. StopEnds' /\ SurvivesUnlessLate'
      BY <1>7 DEF StartUnpublish
    <2> HIDE DEF Quiet, StartsInOrder, StopsInOrder, TableKnows, ShutdownKnows, StopEnds,
                 BusyIsInTable, SurvivesUnlessLate, WaitsForAWorker, TypeOK
    <2>9. QED
      BY <2>1, <2>2, <2>3, <2>4, <2>5, <2>6, <2>7, <2>8
  <1>8. CASE StopPersist(j)
    <2>1. Quiet'
      BY <1>8 DEF StopPersist
    <2>2. StopsInOrder'
      BY <1>8 DEF StopPersist
    <2>3. StartsInOrder'
      BY <1>8 DEF StopPersist
    <2>4. TableKnows'
      BY <1>8 DEF StopPersist
    <2>5. BusyIsInTable'
      BY <1>8 DEF StopPersist
    <2>6. ShutdownKnows'
      BY <1>8 DEF StopPersist
    <2>7. WaitsForAWorker'
      BY <1>8 DEF StopPersist
    <2>8. StopEnds' /\ SurvivesUnlessLate'
      BY <1>8 DEF StopPersist
    <2> HIDE DEF Quiet, StartsInOrder, StopsInOrder, TableKnows, ShutdownKnows, StopEnds,
                 BusyIsInTable, SurvivesUnlessLate, WaitsForAWorker, TypeOK
    <2>9. QED
      BY <2>1, <2>2, <2>3, <2>4, <2>5, <2>6, <2>7, <2>8
  <1>9. CASE StopCancel(j)
    <2>1. Quiet'
      BY <1>9 DEF StopCancel, Stopped
    <2>2. StopsInOrder'
      BY <1>9 DEF StopCancel, Stopped
    <2>3. StartsInOrder'
      BY <1>9 DEF StopCancel, Stopped
    <2>4. TableKnows'
      BY <1>9 DEF StopCancel, Stopped
    <2>5. BusyIsInTable'
      BY <1>9 DEF StopCancel, Stopped
    <2>6. ShutdownKnows'
      BY <1>9 DEF StopCancel, Stopped
    <2>7. WaitsForAWorker'
      BY <1>9 DEF StopCancel, Stopped
    <2>8. StopEnds' /\ SurvivesUnlessLate'
      BY <1>9 DEF StopCancel, Stopped
    <2> HIDE DEF Quiet, StartsInOrder, StopsInOrder, TableKnows, ShutdownKnows, StopEnds,
                 BusyIsInTable, SurvivesUnlessLate, WaitsForAWorker, TypeOK
    <2>9. QED
      BY <2>1, <2>2, <2>3, <2>4, <2>5, <2>6, <2>7, <2>8
  <1>10. CASE StopWait(j)
    BY <1>10 DEF StopWait
  <1>11. CASE StopConfirm(j)
    <2>1. Quiet'
      BY <1>11 DEF StopConfirm, Stopped
    <2>2. StopsInOrder'
      BY <1>11 DEF StopConfirm, Stopped
    <2>3. StartsInOrder'
      BY <1>11 DEF StopConfirm, Stopped
    <2>4. TableKnows'
      BY <1>11 DEF StopConfirm, Stopped
    <2>5. BusyIsInTable'
      BY <1>11 DEF StopConfirm, Stopped
    <2>6. ShutdownKnows'
      BY <1>11 DEF StopConfirm, Stopped
    <2>7. WaitsForAWorker'
      BY <1>11 DEF StopConfirm, Stopped
    <2>8. StopEnds' /\ SurvivesUnlessLate'
      BY <1>11 DEF StopConfirm, Stopped
    <2> HIDE DEF Quiet, StartsInOrder, StopsInOrder, TableKnows, ShutdownKnows, StopEnds,
                 BusyIsInTable, SurvivesUnlessLate, WaitsForAWorker, TypeOK
    <2>9. QED
      BY <2>1, <2>2, <2>3, <2>4, <2>5, <2>6, <2>7, <2>8
  <1> HIDE DEF IInv
  <1>12. QED
    BY <1>1, <1>2, <1>3, <1>4, <1>5, <1>6, <1>7, <1>8, <1>9, <1>10, <1>11 DEF CommandStep

\* A step of the goroutine of a Job keeps IInv.
LEMMA InvWorker ==
  ASSUME IInv, NEW j \in Jobs, WorkerStep(j)
  PROVE  IInv'
  <1>0. TypeOK'
    BY TypeWorker DEF IInv
  <1> USE <1>0 DEF IInv, TypeOK, Idle, States, Ops, Steps, NoJobs, SetActive, Checkpoint, Publish,
              At, Step, Return, Refuse, Become, FailStart, files, history,
              Quiet, StartsInOrder, StopsInOrder, TableKnows, ShutdownKnows, StopEnds,
              BusyIsInTable, SurvivesUnlessLate, WaitsForAWorker, Busy, Working, Alive,
              Closed, Starting
  <1>1. CASE Prepare(j)
    BY <1>1 DEF Prepare
  <1>2. CASE Prepared(j)
    BY <1>2 DEF Prepared
  <1>3. CASE Fail(j)
    BY <1>3 DEF Fail
  <1>4. CASE Failed(j)
    BY <1>4 DEF Failed
  <1>5. CASE Ended(j)
    BY <1>5 DEF Ended
  <1>6. CASE RecordError(j)
    BY <1>6 DEF RecordError
  <1> HIDE DEF IInv
  <1>7. QED
    BY <1>1, <1>2, <1>3, <1>4, <1>5, <1>6 DEF WorkerStep

\* Boot, shutdown, the end of the process and its checkpoints keep IInv.
LEMMA InvProcess ==
  ASSUME IInv, Boot \/ Serve \/ Shutdown \/ ShutdownCloses \/ Exit \/ Crash \/ CheckpointTick
  PROVE  IInv'
  <1>0. TypeOK'
    BY TypeProcess DEF IInv
  <1> USE <1>0 DEF IInv, TypeOK, Idle, States, Ops, Steps, NoJobs, SetActive, Checkpoint, Publish,
              At, Step, Return, Refuse, Become, FailStart, files, history,
              Quiet, StartsInOrder, StopsInOrder, TableKnows, ShutdownKnows, StopEnds,
              BusyIsInTable, SurvivesUnlessLate, WaitsForAWorker, Busy, Working, Alive,
              Closed, Starting
  <1>1. CASE Boot
    BY <1>1 DEF Boot
  <1>2. CASE Serve
    BY <1>2 DEF Serve, Restoring
  <1>3. CASE Shutdown
    BY <1>3 DEF Shutdown
  <1>4. CASE ShutdownCloses
    BY <1>4 DEF ShutdownCloses
  <1>5. CASE Exit
    BY <1>5 DEF Exit, Down
  <1>6. CASE Crash
    BY <1>6 DEF Crash, Down
  <1>7. CASE CheckpointTick
    BY <1>7 DEF CheckpointTick
  <1> HIDE DEF IInv
  <1>8. QED
    BY <1>1, <1>2, <1>3, <1>4, <1>5, <1>6, <1>7

\* A command that arrives, and a Job that is to be restored, keep IInv.
LEMMA InvArrival ==
  ASSUME IInv, NEW j \in Jobs,
         RestoreNext(j) \/ \E op \in {"start", "stop", "reload"} : Receive(j, op)
  PROVE  IInv'
  <1>0. TypeOK'
    BY TypeArrival DEF IInv
  <1> USE <1>0 DEF IInv, TypeOK, Idle, States, Ops, Steps, NoJobs, SetActive, Checkpoint, Publish,
              At, Step, Return, Refuse, Become, FailStart, files, history,
              Quiet, StartsInOrder, StopsInOrder, TableKnows, ShutdownKnows, StopEnds,
              BusyIsInTable, SurvivesUnlessLate, WaitsForAWorker, Busy, Working, Alive,
              Closed, Starting
  <1>1. CASE RestoreNext(j)
    BY <1>1 DEF RestoreNext, Restoring
  <1>2. CASE \E op \in {"start", "stop", "reload"} : Receive(j, op)
    BY <1>2 DEF Receive
  <1> HIDE DEF IInv
  <1>3. QED
    BY <1>1, <1>2

\* Every step keeps IInv.
LEMMA InvStep == IInv /\ [Next]_vars => IInv'
  <1>1. CASE UNCHANGED vars
    BY <1>1 DEF vars, files, history, TypeOK, IInv,
              Quiet, StartsInOrder, StopsInOrder, TableKnows, ShutdownKnows, StopEnds,
              BusyIsInTable, SurvivesUnlessLate, WaitsForAWorker, Busy, Working, Alive,
              Closed, Starting, At
  <1>2. QED
    BY <1>1, InvCommand, InvWorker, InvProcess, InvArrival DEF Next

-----------------------------------------------------------------------------
(* Theorems                                                                *)

\* IInv holds in every state of every behaviour.
LEMMA Inductive == Spec => []IInv
  <1>1. QED
    BY InvInit, InvStep, PTL DEF Spec

\* Every state is well typed: a command stands at a step of its operation,
\* every set names Jobs and every runtime state is one the daemon publishes.
THEOREM TypeCorrect == Spec => []TypeOK
  <1>1. IInv => TypeOK
    BY DEF IInv
  <1>2. QED
    BY <1>1, Inductive, PTL

\* For any set of Jobs the two files name every Job that prepares or
\* collects, and a Job said to be busy is in the table of the daemon, except
\* after an undone start: a database profile is never replaced under a
\* Job, whichever writes of the files have failed.
THEOREM FilesAndTableTellTruth == Spec => []StateTellsTruth
  <1>1. IInv => StateTellsTruth
    BY DEF IInv, StateTellsTruth, BlockersCoverWorkers, DatabaseChangeBlockers, TableKnows, Working
  <1>2. QED
    BY <1>1, Inductive, PTL

\* For any set of Jobs a stop that has succeeded is final until the next
\* start: no late step of the goroutine, no shutdown and no restart
\* collects the Job again.
THEOREM StopHolds == Spec => []StopIsFinal
  <1>1. IInv => StopIsFinal
    BY DEF IInv, StopIsFinal, StopEnds
  <1>2. QED
    BY <1>1, Inductive, PTL

\* For any set of Jobs an accepted start stays in the active file, and so
\* survives every exit and crash, until it is stopped or fails, except when
\* shutdown() had begun before it was published.
THEOREM StartSurvives == Spec => []SurvivesUnlessLate
  <1>1. IInv => SurvivesUnlessLate
    BY DEF IInv
  <1>2. QED
    BY <1>1, Inductive, PTL

\* For any set of Jobs neither stop() nor shutdown() waits for a goroutine
\* that no one will create, except for a start that was undone.
THEOREM WaitsEnd == Spec => []WaitsForAWorker
  <1>1. IInv => WaitsForAWorker
    BY DEF IInv
  <1>2. QED
    BY <1>1, Inductive, PTL

-----------------------------------------------------------------------------
(***************************************************************************)
(* The other collector, GenericCollector, for any Jobs the validator       *)
(* accepts, any number of cycles and any limit of its buffer.              *)
(***************************************************************************)
CONSTANTS GenericJobs, MaxCycles, MaxBuffered
VARIABLES job, stream, bus, cycle, at, buffer, counts, failed, tagTable,
          results, last, failures, halted, summary, told, unsure
GC == INSTANCE GenericCollector WITH Jobs <- GenericJobs, table <- tagTable, stopped <- halted

\* The instance has its own copy of Cardinality.
LEMMA SameSize == \A S : GC!Cardinality(S) = Cardinality(S)
  BY DEF GC!Cardinality, Cardinality, GC!IsFiniteSet, IsFiniteSet

LEMMA SeqIs ==
  ASSUME NEW s, GC!IsSeq(s)
  PROVE  /\ Len(s) \in Nat /\ DOMAIN s = 1..Len(s) /\ IsFiniteSet(DOMAIN s)
         /\ \A i \in DOMAIN s : s[i] \in GC!Range(s)
         /\ \A x \in GC!Range(s) : \E i \in DOMAIN s : s[i] = x
         /\ s = << >> <=> Len(s) = 0
  <1>1. s \in Seq(GC!Range(s))
    BY DEF GC!IsSeq
  <1>2. Len(s) \in Nat /\ DOMAIN s = 1..Len(s) /\ (s = << >> <=> Len(s) = 0)
    BY <1>1
  <1>3. IsFiniteSet(1..Len(s))
    BY <1>2, FS_Interval
  <1>4. /\ \A i \in DOMAIN s : s[i] \in GC!Range(s)
        /\ \A x \in GC!Range(s) : \E i \in DOMAIN s : s[i] = x
    BY DEF GC!Range
  <1>5. QED
    BY <1>2, <1>3, <1>4

\* A sequence of values as a call yields them.
Wholes(vs) == GC!IsSeq(vs) /\ \A t \in DOMAIN vs : GC!Whole(vs[t])

LEMMA OneWhole ==
  ASSUME NEW v, GC!Whole(v)
  PROVE  Wholes(<<v>>) /\ Len(<<v>>) = 1 /\ <<v>>[1] = v /\ DOMAIN <<v>> = {1} /\ <<v>> # << >>
  <1>1. GC!Range(<<v>>) = {v}
    BY DEF GC!Range
  <1>2. <<v>> \in Seq({v})
    OBVIOUS
  <1>3. QED
    BY <1>1, <1>2 DEF Wholes, GC!IsSeq

LEMMA NoneWhole == Wholes(<< >>)
  <1>1. << >> \in Seq(GC!Range(<< >>))
    OBVIOUS
  <1>2. QED
    BY <1>1 DEF Wholes, GC!IsSeq

LEMMA ListWhole ==
  ASSUME NEW v, GC!Shaped(v), v.k = "list"
  PROVE  Wholes(v.of)
  BY SeqIs DEF Wholes, GC!Shaped

\* The values of a selection: as many as its tags, or none.
LEMMA DecodedIs ==
  ASSUME NEW call, GC!CallFits(call), NEW sel \in GC!Range(call.sels), NEW body \in GC!Answers(call)
  PROVE  /\ Wholes(GC!Decoded(sel, body, call.types))
         /\ \/ GC!Decoded(sel, body, call.types) = << >>
            \/ Len(GC!Decoded(sel, body, call.types)) = Len(sel.tags)
         /\ GC!StorageType(sel, call.types[sel.src]) = "numeric" =>
              \A t \in DOMAIN GC!Decoded(sel, body, call.types) : GC!Decoded(sel, body, call.types)[t].k = "num"
  <1>1. /\ GC!SelectionFits(sel, call.types) /\ sel.src \in DOMAIN call.types
        /\ \A o \in DOMAIN call.types : \A v \in call.answers[o] : GC!AnswerFits(v, call.types[o])
    BY DEF GC!CallFits, GC!SelectionFits
  <1>2. PICK raw : raw = body[sel.src] /\ GC!AnswerFits(raw, call.types[sel.src])
    BY <1>1 DEF GC!Answers
  <1>3. PICK v : v = IF sel.json THEN raw.of ELSE raw
    OBVIOUS
  <1>4. PICK bad \in BOOLEAN : bad <=> sel.json /\ raw.k # "json"
    OBVIOUS
  <1>5. ~bad => GC!Shaped(v)
    BY <1>2, <1>3, <1>4 DEF GC!AnswerFits
  <1>6. PICK type, kind : type = call.types[sel.src] /\ kind = GC!Kind(sel, type)
    OBVIOUS
  <1>7. PICK vs : vs = CASE bad -> << >>
                         [] ~bad /\ sel.mode = "single" -> <<v>>
                         [] ~bad /\ sel.mode = "each" -> IF v.k = "list" THEN v.of ELSE << >>
                         [] ~bad /\ sel.mode = "none" /\ kind = "array" ->
                              IF v.k = "list" /\ \A i \in DOMAIN v.of : GC!Fits(v.of[i], sel.elem) THEN v.of ELSE << >>
                         [] OTHER -> IF GC!Fits(v, kind) THEN <<v>> ELSE << >>
    OBVIOUS
  <1>8. GC!Decoded(sel, body, call.types) = IF Len(vs) = Len(sel.tags) THEN vs ELSE << >>
    <2>1. GC!Decoded(sel, body, call.types) = LET w == vs IN IF Len(w) = Len(sel.tags) THEN w ELSE << >>
      BY <1>2, <1>3, <1>4, <1>6, <1>7 DEF GC!Decoded
    <2>2. QED
      BY <2>1
  <1>9. \/ vs = << >>
        \/ vs = <<v>> /\ ~bad
        \/ vs = v.of /\ v.k = "list" /\ ~bad
    <2>1. CASE bad
      BY <1>7, <2>1
    <2>2. CASE ~bad /\ sel.mode = "single"
      BY <1>7, <2>2
    <2>3. CASE ~bad /\ sel.mode = "each"
      BY <1>7, <2>3
    <2>4. CASE ~bad /\ sel.mode = "none" /\ kind = "array"
      BY <1>7, <2>4
    <2>5. CASE ~bad /\ sel.mode = "none" /\ kind # "array"
      <3>1. vs = IF GC!Fits(v, kind) THEN <<v>> ELSE << >>
        BY <1>7, <2>5
      <3>2. QED
        BY <2>5, <3>1
    <2>6. QED
      BY <1>1, <2>1, <2>2, <2>3, <2>4, <2>5 DEF GC!SelectionFits
  <1>10. Wholes(vs)
    <2>1. CASE vs = << >>
      BY <2>1, NoneWhole
    <2>2. CASE vs = <<v>> /\ ~bad
      BY <1>5, <2>2, OneWhole DEF GC!Shaped
    <2>3. CASE vs = v.of /\ v.k = "list" /\ ~bad
      BY <1>5, <2>3, ListWhole
    <2>4. QED
      BY <1>9, <2>1, <2>2, <2>3
  <1>11. ASSUME GC!StorageType(sel, type) = "numeric", NEW t \in DOMAIN vs
         PROVE  vs[t].k = "num"
    <2>1. \/ sel.type = "array" /\ sel.elem = "numeric"
          \/ sel.type = "numeric"
          \/ sel.type = "none" /\ type \in GC!NumericTypes
      BY <1>1, <1>11 DEF GC!StorageType, GC!SelectionFits
    <2>2. CASE sel.type = "none" /\ type \in GC!NumericTypes
      <3>1. raw.k = "num" /\ (~bad => v = raw) /\ kind = "numeric"
        BY <1>2, <1>3, <1>4, <1>6, <2>2 DEF GC!AnswerFits, GC!Kind, GC!Native, GC!NumericTypes, GC!StringTypes
      <3>2. vs = << >> \/ (vs = <<v>> /\ ~bad)
        BY <1>9, <3>1
      <3>3. QED
        BY <1>11, <3>1, <3>2, OneWhole
    <2>3. CASE sel.type = "numeric"
      <3>1. kind = "numeric" /\ sel.mode = "none"
        BY <1>1, <1>6, <2>3 DEF GC!Kind, GC!SelectionFits
      <3>2. vs = << >> \/ (vs = <<v>> /\ v.k = "num")
        BY <1>4, <1>7, <3>1 DEF GC!Fits
      <3>3. QED
        BY <1>11, <3>2
    <2>4. CASE sel.type = "array" /\ sel.elem = "numeric"
      <3>1. kind = "array" /\ sel.mode = "none"
        BY <1>1, <1>6, <2>4 DEF GC!Kind, GC!SelectionFits
      <3>2. vs = << >> \/ (vs = v.of /\ \A i \in DOMAIN v.of : v.of[i].k = "num")
        BY <1>4, <1>7, <2>4, <3>1 DEF GC!Fits
      <3>3. QED
        BY <1>11, <3>2
    <2>5. QED
      BY <2>1, <2>2, <2>3, <2>4
  <1>12. CASE Len(vs) = Len(sel.tags)
    BY <1>6, <1>8, <1>10, <1>11, <1>12
  <1>13. CASE Len(vs) # Len(sel.tags)
    BY <1>8, <1>13, NoneWhole
  <1>14. QED
    BY <1>12, <1>13

LEMMA DecodedOutputIs ==
  ASSUME NEW call, GC!CallFits(call), NEW body \in GC!Answers(call), NEW n
  PROVE  /\ Wholes(GC!DecodedOutput(body, n))
         /\ GC!DecodedOutput(body, n) = << >> \/ Len(GC!DecodedOutput(body, n)) = n
         /\ (\A o \in DOMAIN call.types : call.types[o] \in GC!NumericTypes) =>
              \A t \in DOMAIN GC!DecodedOutput(body, n) : GC!DecodedOutput(body, n)[t].k = "num"
  <1>1. /\ DOMAIN body = DOMAIN call.types
        /\ \A o \in DOMAIN body : GC!AnswerFits(body[o], call.types[o])
    BY DEF GC!Answers, GC!CallFits
  <1>2. DOMAIN body = 1..Len(call.types) /\ Len(call.types) \in Nat /\ Len(call.types) # 0
    BY <1>1, SeqIs DEF GC!CallFits
  <1>3. GC!IsSeq(body) /\ Len(body) = Len(call.types)
    <2>1. body = [o \in 1..Len(call.types) |-> body[o]]
      BY <1>2 DEF GC!Answers
    <2>2. \A o \in 1..Len(call.types) : body[o] \in GC!Range(body)
      BY <1>2 DEF GC!Range
    <2>3. body \in Seq(GC!Range(body))
      BY <1>2, <2>1, <2>2
    <2>4. QED
      BY <1>2, <2>3 DEF GC!IsSeq
  <1>4. PICK v : v = IF Len(body) = 1 THEN body[1] ELSE GC!List(body)
    OBVIOUS
  <1>5. PICK vs : vs = IF v.k = "list" THEN v.of ELSE <<v>>
    OBVIOUS
  <1>6. GC!DecodedOutput(body, n) = IF Len(vs) = n THEN vs ELSE << >>
    BY <1>4, <1>5 DEF GC!DecodedOutput
  <1>7. Wholes(vs) /\ ((\A o \in DOMAIN call.types : call.types[o] \in GC!NumericTypes) =>
                        \A t \in DOMAIN vs : vs[t].k = "num")
    <2>1. CASE Len(body) = 1
      <3>1. v = body[1] /\ GC!AnswerFits(v, call.types[1]) /\ 1 \in DOMAIN call.types
        BY <1>1, <1>2, <1>3, <1>4, <2>1
      <3>2. CASE v.k = "list"
        <4>1. Wholes(vs)
          BY <1>5, <3>1, <3>2, ListWhole DEF GC!AnswerFits
        <4>2. call.types[1] \notin GC!NumericTypes
          BY <3>1, <3>2 DEF GC!AnswerFits
        <4>3. QED
          BY <3>1, <4>1, <4>2
      <3>3. CASE v.k # "list"
        <4>1. vs = <<v>> /\ GC!Whole(v)
          BY <1>5, <3>1, <3>3 DEF GC!AnswerFits, GC!Shaped
        <4>2. call.types[1] \in GC!NumericTypes => v.k = "num"
          BY <3>1 DEF GC!AnswerFits
        <4>3. QED
          BY <3>1, <4>1, <4>2, OneWhole
      <3>4. QED
        BY <3>2, <3>3
    <2>2. CASE Len(body) # 1
      <3>1. vs = body
        BY <1>4, <1>5, <2>2 DEF GC!List
      <3>2. \A o \in DOMAIN body : GC!Whole(body[o])
        BY <1>1 DEF GC!AnswerFits, GC!Shaped
      <3>3. \A o \in DOMAIN body : call.types[o] \in GC!NumericTypes => body[o].k = "num"
        BY <1>1 DEF GC!AnswerFits
      <3>4. QED
        BY <1>1, <1>3, <3>1, <3>2, <3>3 DEF Wholes
    <2>3. QED
      BY <2>1, <2>2
  <1>8. CASE Len(vs) = n
    BY <1>6, <1>7, <1>8
  <1>9. CASE Len(vs) # n
    BY <1>6, <1>9, NoneWhole
  <1>10. QED
    BY <1>8, <1>9

-----------------------------------------------------------------------------
(* Rows                                                                      *)

\* A tag that cannot make a fraction of a whole number does not (in quarters).
LEMMA TransformedWhole ==
  ASSUME NEW n \in Int, NEW t, t.bias \in Int, t.mult \in Int, t.first \in {"bias", "mult"}, ~GC!MayBeFractional(t)
  PROVE  GC!Transformed(n, t) % 4 = 0
  <1>1. t.mult % 2 = 0
    BY DEF GC!MayBeFractional
  <1>2. PICK k \in Int : t.mult = 2 * k
    <2>1. t.mult = 2 * (t.mult \div 2)
      BY <1>1
    <2>2. t.mult \div 2 \in Int
      OBVIOUS
    <2>3. QED
      BY <2>1, <2>2
  <1>3. CASE t.first = "bias"
    <2>1. (t.bias * t.mult) % 4 = 0
      BY <1>3 DEF GC!MayBeFractional
    <2>2. PICK x \in Int : x = t.bias * t.mult
      OBVIOUS
    <2>3. x = 4 * (x \div 4) /\ x \div 4 \in Int
      BY <2>1, <2>2
    <2>4. PICK y \in Int : x = 4 * y
      BY <2>3
    <2>5. (2 * n + t.bias) * t.mult = 2 * n * t.mult + t.bias * t.mult
      OBVIOUS
    <2>6. 2 * n * t.mult = 4 * (n * k)
      BY <1>2
    <2>7. GC!Transformed(n, t) = 4 * (n * k + y) /\ n * k + y \in Int
      BY <1>3, <2>2, <2>4, <2>5, <2>6 DEF GC!Transformed
    <2>8. PICK z \in Int : GC!Transformed(n, t) = 4 * z
      BY <2>7
    <2>9. QED
      BY <2>8
  <1>4. CASE t.first # "bias"
    <2>1. GC!Transformed(n, t) = 2 * n * t.mult + 2 * t.bias
      BY <1>4 DEF GC!Transformed
    <2>2. CASE t.first = "mult"
      <3>1. t.bias % 2 = 0
        BY <2>2 DEF GC!MayBeFractional
      <3>2. PICK b \in Int : t.bias = 2 * b
        <4>1. t.bias = 2 * (t.bias \div 2) /\ t.bias \div 2 \in Int
          BY <3>1
        <4>2. QED
          BY <4>1
      <3>3. 2 * n * t.mult = 4 * (n * k)
        BY <1>2
      <3>4. GC!Transformed(n, t) = 4 * (n * k + b) /\ n * k + b \in Int
        BY <2>1, <3>2, <3>3
      <3>5. PICK z \in Int : GC!Transformed(n, t) = 4 * z
        BY <3>4
      <3>6. QED
        BY <3>5
    <2>3. QED
      BY <1>4, <2>2
  <1>5. QED
    BY <1>3, <1>4

LEMMA PlainIs ==
  ASSUME NEW i, NEW tag, NEW v, GC!Whole(v)
  PROVE  /\ GC!Plain(i, tag, v).call = i /\ GC!Plain(i, tag, v).tag = tag.name
         /\ v.k = "num" => /\ GC!Plain(i, tag, v).kind = "num" /\ v.n \in Int
                           /\ GC!Plain(i, tag, v).n = GC!Transformed(v.n, tag)
         /\ v.k # "num" => GC!Plain(i, tag, v).kind \in {"str", "odd"}
  <1>1. CASE v.k = "num"
    <2>1. GC!Plain(i, tag, v) = GC!Row(i, tag, "num", GC!Transformed(v.n, tag))
      BY <1>1 DEF GC!Plain, GC!IsText
    <2>2. v.n \in Int
      BY <1>1 DEF GC!Whole
    <2>3. QED
      BY <1>1, <2>1, <2>2 DEF GC!Row
  <1>2. CASE v.k # "num"
    <2>1. GC!Plain(i, tag, v) = GC!Row(i, tag, "str", 0) \/ GC!Plain(i, tag, v) = GC!Row(i, tag, "odd", 0)
      BY <1>2 DEF GC!Plain, GC!IsText
    <2>2. QED
      BY <1>2, <2>1 DEF GC!Row
  <1>3. QED
    BY <1>1, <1>2

\* The rows of as many values as tags.
Whole4(rows) == \A r \in rows : r.kind = "num" => r.n % 4 = 0
RowsFit(G, i, tags) ==
  /\ IsFiniteSet(G) /\ \A r \in G : r.call = i
  /\ (\A t \in tags : ~GC!MayBeFractional(t)) => Whole4(G)
Named(G, tags) == {r.tag : r \in G} = {t.name : t \in tags}
NoText(G) == \A r \in G : r.kind # "str"
Grouped(i, tags, vs, rows) ==
  /\ GC!IsSeq(tags) /\ Wholes(vs) /\ (vs = << >> \/ Len(vs) = Len(tags))
  /\ \A t \in GC!Range(tags) : t.bias \in Int /\ t.mult \in Int /\ t.first \in {"bias", "mult"}
  /\ DOMAIN rows = DOMAIN vs
  /\ \A t \in DOMAIN vs : rows[t] \in {GC!Plain(i, tags[t], vs[t]), GC!Row(i, tags[t], "str", 0)}
LEMMA GroupIs ==
  ASSUME NEW i, NEW tags, NEW vs, NEW rows, Grouped(i, tags, vs, rows),
         NEW G, G = {rows[t] : t \in DOMAIN vs}
  PROVE  /\ RowsFit(G, i, GC!Range(tags))
         /\ vs = << >> => G = {}
         /\ vs # << >> => G # {} /\ Named(G, GC!Range(tags))
         /\ (\A t \in DOMAIN vs : vs[t].k = "num" /\ rows[t] = GC!Plain(i, tags[t], vs[t])) => NoText(G)
  <1> USE DEF Grouped
  <1>1. IsFiniteSet(G)
    <2>1. PICK f : f = [t \in DOMAIN vs |-> rows[t]]
      OBVIOUS
    <2>2. f \in Surjection(DOMAIN vs, G)
      BY <2>1 DEF Surjection
    <2>3. IsFiniteSet(DOMAIN vs)
      BY SeqIs DEF Wholes
    <2>4. QED
      BY <2>2, <2>3, FS_Surjection
  <1>2. ASSUME NEW t \in DOMAIN vs
        PROVE  /\ t \in DOMAIN tags /\ tags[t] \in GC!Range(tags) /\ GC!Whole(vs[t])
               /\ rows[t].call = i /\ rows[t].tag = tags[t].name
               /\ rows[t].kind = "num" => rows[t].n % 4 = 0 \/ GC!MayBeFractional(tags[t])
               /\ vs[t].k = "num" /\ rows[t] = GC!Plain(i, tags[t], vs[t]) => rows[t].kind # "str"
    <2>1. vs # << >>
      BY <1>2
    <2>2. t \in DOMAIN tags /\ tags[t] \in GC!Range(tags) /\ GC!Whole(vs[t])
      BY <1>2, <2>1, SeqIs DEF Wholes
    <2>3. CASE rows[t] = GC!Plain(i, tags[t], vs[t])
      <3>1. /\ rows[t].call = i /\ rows[t].tag = tags[t].name
            /\ vs[t].k = "num" => rows[t].kind = "num" /\ vs[t].n \in Int /\ rows[t].n = GC!Transformed(vs[t].n, tags[t])
            /\ vs[t].k # "num" => rows[t].kind \in {"str", "odd"}
        BY <2>2, <2>3, PlainIs
      <3>2. vs[t].k = "num" => rows[t].n % 4 = 0 \/ GC!MayBeFractional(tags[t])
        BY <2>2, <3>1, TransformedWhole
      <3>3. QED
        BY <2>2, <3>1, <3>2
    <2>4. CASE rows[t] = GC!Row(i, tags[t], "str", 0)
      <3>1. rows[t].call = i /\ rows[t].tag = tags[t].name /\ rows[t].kind = "str"
        BY <2>4 DEF GC!Row
      <3>2. vs[t].k = "num" => GC!Plain(i, tags[t], vs[t]).kind = "num"
        BY <2>2, PlainIs
      <3>3. QED
        BY <2>2, <3>1, <3>2
    <2>5. QED
      BY <2>3, <2>4
  <1>3. ASSUME vs # << >> PROVE G # {} /\ Named(G, GC!Range(tags))
    <2>1. DOMAIN vs = DOMAIN tags /\ 1 \in DOMAIN vs
      BY <1>3, SeqIs DEF Wholes
    <2>2. \A t \in DOMAIN tags : rows[t] \in G /\ rows[t].tag = tags[t].name /\ tags[t] \in GC!Range(tags)
      BY <1>2, <2>1
    <2>3. \A x \in GC!Range(tags) : \E t \in DOMAIN tags : tags[t] = x
      BY SeqIs
    <2>4. ASSUME NEW r \in G PROVE \E t \in GC!Range(tags) : t.name = r.tag
      BY <2>1, <2>2
    <2>5. ASSUME NEW t \in GC!Range(tags) PROVE \E r \in G : r.tag = t.name
      <3>1. PICK k \in DOMAIN tags : tags[k] = t
        BY <2>3
      <3>2. rows[k] \in G /\ rows[k].tag = t.name
        BY <2>2, <3>1
      <3>3. QED
        BY <3>2
    <2>6. G # {}
      BY <2>1, <2>2
    <2>7. QED
      BY <2>4, <2>5, <2>6 DEF Named
  <1>4. vs = << >> => G = {}
    OBVIOUS
  <1>5. (\A t \in GC!Range(tags) : ~GC!MayBeFractional(t)) => Whole4(G)
    BY <1>2 DEF Whole4
  <1>6. QED
    BY <1>1, <1>2, <1>3, <1>4, <1>5 DEF RowsFit, NoText

\* What asks for no column of strings.
Numeric(call) == IF call.sels = << >> THEN \A o \in DOMAIN call.types : call.types[o] \in GC!NumericTypes
                 ELSE \A sel \in GC!Range(call.sels) : GC!StorageType(sel, call.types[sel.src]) = "numeric"

LEMMA SelectionRows ==
  ASSUME NEW i, NEW call, GC!CallFits(call), call.sels # << >>, NEW body \in GC!Answers(call),
         NEW sel \in GC!Range(call.sels), NEW vs, vs = GC!Decoded(sel, body, call.types),
         NEW G, G = GC!RowsOfSelection(i, sel, vs, call.types[sel.src])
  PROVE  /\ RowsFit(G, i, GC!Range(sel.tags))
         /\ vs # << >> => G # {} /\ Named(G, GC!Range(sel.tags))
         /\ Numeric(call) => NoText(G)
  <1>1. PICK s \in DOMAIN call.sels : call.sels[s] = sel
    BY DEF GC!Range
  <1>2. GC!SelectionFits(sel, call.types) /\ GC!IsSeq(sel.tags)
    BY DEF GC!CallFits, GC!SelectionFits
  <1>3. \A t \in GC!Range(sel.tags) : t.bias \in Int /\ t.mult \in Int /\ t.first \in {"bias", "mult"}
    <2>1. GC!Range(sel.tags) \subseteq GC!Tags(call)
      BY <1>1 DEF GC!Tags
    <2>2. QED
      BY <2>1 DEF GC!CallFits
  <1>4. /\ Wholes(vs) /\ (vs = << >> \/ Len(vs) = Len(sel.tags))
        /\ GC!StorageType(sel, call.types[sel.src]) = "numeric" => \A t \in DOMAIN vs : vs[t].k = "num"
    BY DecodedIs
  <1>5. PICK type : type = call.types[sel.src]
    OBVIOUS
  <1>6. PICK rows : rows = [t \in DOMAIN vs |-> IF sel.mode # "none" \/ GC!ValueType(sel, type) = "numeric"
                                               THEN GC!Plain(i, sel.tags[t], vs[t]) ELSE GC!Row(i, sel.tags[t], "str", 0)]
    OBVIOUS
  <1>7. G = {rows[t] : t \in DOMAIN vs}
    BY <1>5, <1>6 DEF GC!RowsOfSelection
  <1>8. /\ DOMAIN rows = DOMAIN vs
        /\ \A t \in DOMAIN vs : rows[t] \in {GC!Plain(i, sel.tags[t], vs[t]), GC!Row(i, sel.tags[t], "str", 0)}
    BY <1>6
  <1>9. /\ RowsFit(G, i, GC!Range(sel.tags))
        /\ vs # << >> => G # {} /\ Named(G, GC!Range(sel.tags))
        /\ (\A t \in DOMAIN vs : vs[t].k = "num" /\ rows[t] = GC!Plain(i, sel.tags[t], vs[t])) => NoText(G)
    <2>1. Grouped(i, sel.tags, vs, rows)
      BY <1>2, <1>3, <1>4, <1>8 DEF Grouped
    <2>2. QED
      BY <1>7, <2>1, GroupIs
  <1>10. ASSUME Numeric(call)
         PROVE  \A t \in DOMAIN vs : vs[t].k = "num" /\ rows[t] = GC!Plain(i, sel.tags[t], vs[t])
    <2>1. GC!StorageType(sel, type) = "numeric"
      BY <1>5, <1>10 DEF Numeric
    <2>2. sel.mode # "none" \/ GC!ValueType(sel, type) = "numeric"
      BY <1>2, <2>1 DEF GC!StorageType, GC!ValueType, GC!SelectionFits
    <2>3. QED
      BY <1>4, <1>5, <1>6, <2>1, <2>2
  <1>11. QED
    BY <1>9, <1>10

LEMMA RowsOfIs ==
  ASSUME NEW i, NEW call, GC!CallFits(call), NEW body \in GC!Answers(call), NEW got, got = GC!RowsOf(i, call, body)
  PROVE  /\ RowsFit(got, i, GC!Tags(call))
         /\ got # {} => Named(got, GC!Tags(call))
         /\ Numeric(call) => NoText(got)
  <1>1. CASE call.sels = << >>
    <2>1. PICK vs : vs = GC!DecodedOutput(body, Len(call.tags))
      OBVIOUS
    <2>2. PICK rows : rows = [t \in DOMAIN vs |-> GC!Plain(i, call.tags[t], vs[t])]
      OBVIOUS
    <2>3. got = {rows[t] : t \in DOMAIN vs}
      BY <1>1, <2>1, <2>2 DEF GC!RowsOf
    <2>4. GC!Tags(call) = GC!Range(call.tags) /\ GC!IsSeq(call.tags)
      BY <1>1 DEF GC!Tags, GC!CallFits
    <2>5. \A t \in GC!Range(call.tags) : t.bias \in Int /\ t.mult \in Int /\ t.first \in {"bias", "mult"}
      BY <2>4 DEF GC!CallFits
    <2>6. /\ Wholes(vs) /\ (vs = << >> \/ Len(vs) = Len(call.tags))
          /\ Numeric(call) => \A t \in DOMAIN vs : vs[t].k = "num"
      BY <1>1, <2>1, DecodedOutputIs DEF Numeric
    <2>7. /\ DOMAIN rows = DOMAIN vs
          /\ \A t \in DOMAIN vs : rows[t] = GC!Plain(i, call.tags[t], vs[t])
      BY <2>2
    <2>8. /\ RowsFit(got, i, GC!Range(call.tags))
          /\ vs = << >> => got = {}
          /\ vs # << >> => got # {} /\ Named(got, GC!Range(call.tags))
          /\ (\A t \in DOMAIN vs : vs[t].k = "num" /\ rows[t] = GC!Plain(i, call.tags[t], vs[t])) => NoText(got)
      <3>1. Grouped(i, call.tags, vs, rows)
        BY <2>4, <2>5, <2>6, <2>7 DEF Grouped
      <3>2. PICK G : G = {rows[t] : t \in DOMAIN vs}
        OBVIOUS
      <3>3. /\ RowsFit(G, i, GC!Range(call.tags))
            /\ vs = << >> => G = {}
            /\ vs # << >> => G # {} /\ Named(G, GC!Range(call.tags))
            /\ (\A t \in DOMAIN vs : vs[t].k = "num" /\ rows[t] = GC!Plain(i, call.tags[t], vs[t])) => NoText(G)
        BY <3>1, <3>2, GroupIs
      <3>4. G = got
        BY <2>3, <3>2
      <3>5. QED
        BY <3>3, <3>4
    <2>9. QED
      BY <2>4, <2>6, <2>7, <2>8
  <1>2. CASE call.sels # << >>
    <2>1. PICK vs : vs = [s \in DOMAIN call.sels |-> GC!Decoded(call.sels[s], body, call.types)]
      OBVIOUS
    <2>2. PICK Gs : Gs = [s \in DOMAIN call.sels |->
                            GC!RowsOfSelection(i, call.sels[s], vs[s], call.types[call.sels[s].src])]
      OBVIOUS
    <2>3. got = IF \E s \in DOMAIN call.sels : vs[s] = << >> THEN {} ELSE UNION {Gs[s] : s \in DOMAIN call.sels}
      BY <1>2, <2>1, <2>2 DEF GC!RowsOf
    <2>4. ASSUME NEW s \in DOMAIN call.sels
          PROVE  /\ RowsFit(Gs[s], i, GC!Range(call.sels[s].tags))
                 /\ vs[s] # << >> => Gs[s] # {} /\ Named(Gs[s], GC!Range(call.sels[s].tags))
                 /\ Numeric(call) => NoText(Gs[s])
      <3>1. call.sels[s] \in GC!Range(call.sels)
        BY DEF GC!Range
      <3>2. /\ vs[s] = GC!Decoded(call.sels[s], body, call.types)
            /\ Gs[s] = GC!RowsOfSelection(i, call.sels[s], vs[s], call.types[call.sels[s].src])
        BY <2>1, <2>2
      <3>3. QED
        BY <1>2, <3>1, <3>2, SelectionRows
    <2>5. GC!Tags(call) = UNION {GC!Range(call.sels[s].tags) : s \in DOMAIN call.sels}
      BY <1>2 DEF GC!Tags
    <2>6. CASE \E s \in DOMAIN call.sels : vs[s] = << >>
      BY <2>3, <2>6, FS_EmptySet DEF Whole4, RowsFit, NoText
    <2>7. CASE ~\E s \in DOMAIN call.sels : vs[s] = << >>
      <3>1. got = UNION {Gs[s] : s \in DOMAIN call.sels}
        BY <2>3, <2>7
      <3>2. IsFiniteSet(got)
        <4>1. PICK U : U = {Gs[s] : s \in DOMAIN call.sels}
          OBVIOUS
        <4>2. PICK f : f = [s \in DOMAIN call.sels |-> Gs[s]]
          OBVIOUS
        <4>3. f \in Surjection(DOMAIN call.sels, U) /\ IsFiniteSet(DOMAIN call.sels)
          BY <4>1, <4>2, SeqIs DEF Surjection, GC!CallFits
        <4>4. IsFiniteSet(U)
          BY <4>3, FS_Surjection
        <4>5. \A T \in U : IsFiniteSet(T)
          BY <2>4, <4>1 DEF RowsFit
        <4>6. IsFiniteSet(UNION U)
          BY <4>4, <4>5, FS_UNION
        <4>7. QED
          BY <3>1, <4>1, <4>6
      <3>3. Named(got, GC!Tags(call))
        <4>1. ASSUME NEW r \in got PROVE \E t \in GC!Tags(call) : t.name = r.tag
          <5>1. PICK s \in DOMAIN call.sels : r \in Gs[s]
            BY <3>1
          <5>2. r.tag \in {t.name : t \in GC!Range(call.sels[s].tags)}
            BY <2>4, <2>7, <5>1 DEF Named
          <5>3. QED
            BY <2>5, <5>2
        <4>2. ASSUME NEW t \in GC!Tags(call) PROVE \E r \in got : r.tag = t.name
          <5>1. PICK s \in DOMAIN call.sels : t \in GC!Range(call.sels[s].tags)
            BY <2>5
          <5>2. t.name \in {r.tag : r \in Gs[s]}
            BY <2>4, <2>7, <5>1 DEF Named
          <5>3. QED
            BY <3>1, <5>2
        <4>3. QED
          BY <4>1, <4>2 DEF Named
      <3>4. (\A t \in GC!Tags(call) : ~GC!MayBeFractional(t)) => Whole4(got)
        BY <2>4, <2>5, <3>1 DEF Whole4, RowsFit
      <3>5. (\A r \in got : r.call = i) /\ (Numeric(call) => NoText(got))
        BY <2>4, <3>1 DEF RowsFit, NoText
      <3>6. QED
        BY <3>2, <3>3, <3>4, <3>5 DEF RowsFit
    <2>8. QED
      BY <2>6, <2>7
  <1>3. QED
    BY <1>1, <1>2

-----------------------------------------------------------------------------
(* The inductive invariant                                                   *)

Places(rows) == {<<r.call, r.tag>> : r \in rows}
Due(n)       == UNION {{<<i, t.name>> : t \in GC!Tags(GC!Calls[i])} : i \in {i \in DOMAIN GC!Calls : i < n}}
Gentle       == ~GC!NeedsStrings(GC!Calls) /\ \A i \in DOMAIN GC!Calls : GC!FirstSpeaks(GC!Calls[i])

CycleTyped ==
  /\ job \in GenericJobs /\ cycle \in Nat /\ at \in 0..Len(GC!Calls) + 1 /\ failed \in 0..Len(GC!Calls) + 1
  /\ results \in Seq({"success", "partial", "failed"})
  /\ Len(results) = IF at = 0 THEN cycle ELSE cycle - 1
  /\ last.stored \in Nat /\ last.stored <= Len(results)
  /\ unsure \subseteq 1..cycle /\ \A r \in tagTable : r.cycle \in 1..cycle

\* While a cycle runs: what is counted is in the table, what is not due yet is
\* not there, and of a Job whose values all have a column everything that is due
\* is in the table or in the buffer.
Running ==
  at # 0 =>
    /\ counts \in [DOMAIN GC!Calls -> Nat] /\ \A i \in DOMAIN GC!Calls : counts[i] > 0 => i < at
    /\ cycle \in unsure => failed # 0
    /\ cycle \notin unsure => (GC!RowsIn(cycle) = {} <=> GC!Stored = {})
    /\ job.policy = "perMethod" => buffer = {}
    /\ job.policy # "perMethod" /\ GC!Stored # {} => failed = 0 /\ at = Len(GC!Calls) + 1 /\ buffer = {}
    /\ IsFiniteSet(buffer) /\ \A r \in buffer : r.call \in DOMAIN GC!Calls
    /\ Gentle /\ cycle \notin unsure => Places(buffer) \cup Places(GC!RowsIn(cycle)) = Due(at)

\* What the log has yet to tell is the failures of its summary but the first.
Pending == IF summary.failed > 1 THEN summary.failed - 1 ELSE 0
Bad     == {c \in DOMAIN results : results[c] # "success"}
Tells   == /\ summary.failed \in Nat /\ told \in Nat /\ told + Pending = Cardinality(Bad)
           /\ halted => at = 0 /\ summary.failed = 0

Numbers == ~GC!Fractional(GC!Calls) => Whole4(tagTable) /\ Whole4(buffer)
Past    == GC!ResultTellsRows /\ GC!NothingDropped

CycleInv == GC!ConstantsFit /\ CycleTyped /\ Running /\ Tells /\ Numbers /\ Past

-----------------------------------------------------------------------------
(* What the actions have in common                                           *)

LEMMA CallsAre ==
  ASSUME GC!ConstantsFit, job \in GenericJobs
  PROVE  /\ GC!IsSeq(GC!Calls) /\ Len(GC!Calls) \in Nat /\ DOMAIN GC!Calls = 1..Len(GC!Calls) /\ IsFiniteSet(DOMAIN GC!Calls)
         /\ \A i \in DOMAIN GC!Calls : GC!CallFits(GC!Calls[i])
  <1>1. GC!IsSeq(GC!Calls) /\ \A call \in GC!Range(GC!Calls) : GC!CallFits(call)
    BY DEF GC!ConstantsFit, GC!Calls
  <1>2. QED
    BY <1>1, SeqIs

LEMMA GentleIs ==
  ASSUME GC!ConstantsFit, job \in GenericJobs, Gentle, NEW i \in DOMAIN GC!Calls
  PROVE  Numeric(GC!Calls[i])
  <1>1. PICK call : call = GC!Calls[i] /\ GC!CallFits(call) /\ GC!FirstSpeaks(call)
    BY CallsAre DEF Gentle
  <1>2. IF call.sels = << >> THEN call.types[1] \in GC!NumericTypes
        ELSE \A s \in DOMAIN call.sels : GC!StorageType(call.sels[s], call.types[call.sels[s].src]) # "string"
    BY <1>1 DEF Gentle, GC!NeedsStrings
  <1>3. CASE call.sels = << >>
    BY <1>1, <1>2, <1>3 DEF GC!FirstSpeaks, Numeric
  <1>4. CASE call.sels # << >>
    <2>1. ASSUME NEW sel \in GC!Range(call.sels) PROVE GC!StorageType(sel, call.types[sel.src]) = "numeric"
      <3>1. PICK s \in DOMAIN call.sels : call.sels[s] = sel
        BY DEF GC!Range
      <3>2. GC!StorageType(sel, call.types[sel.src]) # "string"
        BY <1>2, <1>4, <3>1
      <3>3. GC!StorageType(sel, call.types[sel.src]) \in {"numeric", "string"}
        BY DEF GC!StorageType
      <3>4. QED
        BY <3>2, <3>3
    <2>2. QED
      BY <1>1, <1>4, <2>1 DEF Numeric
  <1>5. QED
    BY <1>3, <1>4

LEMMA CallRows ==
  ASSUME GC!ConstantsFit, job \in GenericJobs, NEW i \in DOMAIN GC!Calls, NEW body \in GC!Answers(GC!Calls[i]),
         NEW got, got = GC!RowsOf(i, GC!Calls[i], body), NEW rows, rows = GC!Writable(got)
  PROVE  /\ IsFiniteSet(rows) /\ \A r \in rows : r.call = i
         /\ ~GC!Fractional(GC!Calls) => Whole4(rows)
         /\ Gentle /\ got # {} => Places(rows) = {<<i, t.name>> : t \in GC!Tags(GC!Calls[i])}
  <1>1. GC!CallFits(GC!Calls[i])
    BY CallsAre
  <1>2. /\ RowsFit(got, i, GC!Tags(GC!Calls[i]))
        /\ got # {} => Named(got, GC!Tags(GC!Calls[i]))
        /\ Numeric(GC!Calls[i]) => NoText(got)
    BY <1>1, RowsOfIs
  <1>3. rows \in SUBSET got
    BY DEF GC!Writable
  <1>4. IsFiniteSet(rows) /\ \A r \in rows : r.call = i
    BY <1>2, <1>3, FS_Subset DEF RowsFit
  <1>5. ASSUME ~GC!Fractional(GC!Calls) PROVE Whole4(rows)
    <2>1. \A t \in GC!Tags(GC!Calls[i]) : ~GC!MayBeFractional(t)
      BY <1>5 DEF GC!Fractional
    <2>2. Whole4(got)
      BY <1>2, <2>1 DEF RowsFit
    <2>3. QED
      BY <1>3, <2>2 DEF Whole4
  <1>6. ASSUME Gentle, got # {} PROVE Places(rows) = {<<i, t.name>> : t \in GC!Tags(GC!Calls[i])}
    <2>1. rows = got
      BY <1>2, <1>6, GentleIs DEF NoText, GC!Writable
    <2>2. \A r \in got : r.call = i
      BY <1>2 DEF RowsFit
    <2>3. {r.tag : r \in got} = {t.name : t \in GC!Tags(GC!Calls[i])}
      BY <1>2, <1>6 DEF Named
    <2>4. ASSUME NEW r \in got PROVE \E t \in GC!Tags(GC!Calls[i]) : <<r.call, r.tag>> = <<i, t.name>>
      <3>1. r.tag \in {t.name : t \in GC!Tags(GC!Calls[i])}
        BY <2>3
      <3>2. QED
        BY <2>2, <3>1
    <2>5. ASSUME NEW t \in GC!Tags(GC!Calls[i]) PROVE \E r \in got : <<r.call, r.tag>> = <<i, t.name>>
      <3>1. t.name \in {r.tag : r \in got}
        BY <2>3
      <3>2. QED
        BY <2>2, <3>1
    <2>6. QED
      BY <2>1, <2>4, <2>5 DEF Places
  <1>7. QED
    BY <1>4, <1>5, <1>6

\* What is due when one more call has been answered.
LEMMA DueGrows ==
  ASSUME GC!ConstantsFit, job \in GenericJobs, NEW i \in DOMAIN GC!Calls
  PROVE  Due(i + 1) = Due(i) \cup {<<i, t.name>> : t \in GC!Tags(GC!Calls[i])}
  <1>1. i \in Nat /\ \A k \in DOMAIN GC!Calls : k \in Nat
    BY CallsAre
  <1>2. {k \in DOMAIN GC!Calls : k < i + 1} = {k \in DOMAIN GC!Calls : k < i} \cup {i}
    BY <1>1
  <1>3. PICK D : D = [k \in DOMAIN GC!Calls |-> {<<k, t.name>> : t \in GC!Tags(GC!Calls[k])}]
    OBVIOUS
  <1>4. /\ Due(i) = UNION {D[k] : k \in {k \in DOMAIN GC!Calls : k < i}}
        /\ Due(i + 1) = UNION {D[k] : k \in {k \in DOMAIN GC!Calls : k < i + 1}}
        /\ D[i] = {<<i, t.name>> : t \in GC!Tags(GC!Calls[i])}
    BY <1>3 DEF Due
  <1>5. QED
    BY <1>2, <1>4

LEMMA DueEnds ==
  ASSUME GC!ConstantsFit, job \in GenericJobs
  PROVE  Due(Len(GC!Calls) + 1) = GC!AllTags /\ Due(1) = {}
  <1>1. \A k \in DOMAIN GC!Calls : k \in Nat /\ k < Len(GC!Calls) + 1 /\ ~(k < 1)
    BY CallsAre
  <1>2. {k \in DOMAIN GC!Calls : k < Len(GC!Calls) + 1} = DOMAIN GC!Calls /\ {k \in DOMAIN GC!Calls : k < 1} = {}
    BY <1>1
  <1>3. QED
    BY <1>2 DEF Due, GC!AllTags

LEMMA Stamped ==
  ASSUME NEW rows
  PROVE  /\ Places(GC!Stamp(rows)) = Places(rows)
         /\ GC!Stamp(rows) = {} <=> rows = {}
         /\ \A r \in GC!Stamp(rows) : r.cycle = cycle
         /\ Whole4(rows) => Whole4(GC!Stamp(rows))
  <1>1. PICK f : f = [r \in rows |-> [cycle |-> cycle, call |-> r.call, tag |-> r.tag, kind |-> r.kind, n |-> r.n]]
    OBVIOUS
  <1>2. GC!Stamp(rows) = {f[r] : r \in rows}
    BY <1>1 DEF GC!Stamp
  <1>3. \A r \in rows : /\ f[r].call = r.call /\ f[r].tag = r.tag /\ f[r].cycle = cycle
                        /\ f[r].kind = r.kind /\ f[r].n = r.n
    BY <1>1
  <1>4. Places(GC!Stamp(rows)) = Places(rows)
    BY <1>2, <1>3 DEF Places
  <1>5. (GC!Stamp(rows) = {} <=> rows = {}) /\ \A r \in GC!Stamp(rows) : r.cycle = cycle
    BY <1>2, <1>3
  <1>6. ASSUME Whole4(rows) PROVE Whole4(GC!Stamp(rows))
    <2>1. ASSUME NEW x \in GC!Stamp(rows), x.kind = "num" PROVE x.n % 4 = 0
      <3>1. PICK r \in rows : x = f[r]
        BY <1>2
      <3>2. r.kind = "num" /\ x.n = r.n
        BY <1>3, <2>1, <3>1
      <3>3. QED
        BY <1>6, <3>1, <3>2 DEF Whole4
    <2>2. QED
      BY <2>1 DEF Whole4
  <1>7. QED
    BY <1>4, <1>5, <1>6

\* The rows of a cycle, when rows of the cycle that runs are appended.
LEMMA Appended ==
  ASSUME NEW kept, tagTable' = tagTable \cup GC!Stamp(kept), NEW c
  PROVE  GC!RowsIn(c)' = IF c = cycle THEN GC!RowsIn(c) \cup GC!Stamp(kept) ELSE GC!RowsIn(c)
  <1>1. GC!RowsIn(c)' = {r \in tagTable' : r.cycle = c} /\ GC!RowsIn(c) = {r \in tagTable : r.cycle = c}
    BY DEF GC!RowsIn
  <1>2. \A r \in GC!Stamp(kept) : r.cycle = cycle
    BY Stamped
  <1>3. QED
    BY <1>1, <1>2

\* While a cycle runs, what was reported stays true.
LEMMA PastStays ==
  ASSUME CycleTyped, Past, at # 0, UNCHANGED <<job, results, last>>, unsure \subseteq unsure',
         \A c \in Nat : c # cycle => GC!RowsIn(c)' = GC!RowsIn(c)
  PROVE  Past'
  <1>1. \A c \in DOMAIN results : c \in Nat /\ c # cycle
    BY DEF CycleTyped
  <1>2. \A c \in DOMAIN results : GC!RowsIn(c)' = GC!RowsIn(c)
    BY <1>1
  <1>3. GC!ResultTellsRows'
    BY <1>2 DEF Past, GC!ResultTellsRows
  <1>4. GC!NothingDropped'
    BY <1>2 DEF Past, GC!NothingDropped, GC!AllTags, GC!Calls
  <1>5. QED
    BY <1>3, <1>4 DEF Past

-----------------------------------------------------------------------------
(* The actions                                                               *)

\* A report: one more result, and a log that tells as much as before.
LEMMA Reported ==
  ASSUME CycleTyped, Tells, NEW status \in {"success", "partial", "failed"}, NEW c, NEW n, GC!Report(status, c, n),
         ~halted, UNCHANGED halted
  PROVE  /\ results' = Append(results, status) /\ Tells'
         /\ last'.stored = IF n > 0 THEN c ELSE last.stored
  <1>1. PICK bad, f, first : /\ bad = IF status = "success" THEN 0 ELSE 1
                             /\ f = summary.failed + bad
                             /\ first = IF bad = 1 /\ f = 1 THEN 1 ELSE 0
    OBVIOUS
  <1>2. /\ results' = Append(results, status)
        /\ last' = [run |-> c, error |-> bad = 1, success |-> IF bad = 0 THEN c ELSE last.success,
                    stored |-> IF n > 0 THEN c ELSE last.stored]
        /\ \/ /\ told' = told + first + GC!Flush(f, summary.retries)
              /\ summary' = [failed |-> 0, retries |-> bad]
           \/ /\ told' = told + first
              /\ summary' = [failed |-> f, retries |-> summary.retries + bad]
    BY <1>1 DEF GC!Report
  <1>3. bad \in {0, 1} /\ f \in Nat /\ first \in {0, 1}
    BY <1>1 DEF Tells
  <1>4. GC!Flush(f, summary.retries) = IF f > 1 THEN f - 1 ELSE 0
    BY DEF GC!Flush
  <1>5. summary'.failed \in Nat /\ told' \in Nat /\ told' + Pending' = told + Pending + bad
    <2>1. CASE told' = told + first + GC!Flush(f, summary.retries) /\ summary'.failed = 0
      BY <1>1, <1>3, <1>4, <2>1 DEF Tells, Pending
    <2>2. CASE told' = told + first /\ summary'.failed = f
      BY <1>1, <1>3, <2>2 DEF Tells, Pending
    <2>3. QED
      BY <1>2, <2>1, <2>2
  <1>6. IsFiniteSet(Bad) /\ Cardinality(Bad') = Cardinality(Bad) + bad
    <2>1. Len(results) \in Nat /\ DOMAIN results = 1..Len(results)
      BY DEF CycleTyped
    <2>2. /\ DOMAIN results' = DOMAIN results \cup {Len(results) + 1}
          /\ results'[Len(results) + 1] = status /\ \A i \in DOMAIN results : results'[i] = results[i]
      BY <1>2, <2>1 DEF CycleTyped
    <2>3. IsFiniteSet(Bad)
      <3>1. IsFiniteSet(1..Len(results))
        BY <2>1, FS_Interval
      <3>2. Bad \in SUBSET (1..Len(results))
        BY <2>1 DEF Bad
      <3>3. QED
        BY <3>1, <3>2, FS_Subset
    <2>4. Len(results) + 1 \notin Bad /\ Len(results) + 1 \notin DOMAIN results
      BY <2>1 DEF Bad
    <2>5. CASE status = "success"
      <3>1. Bad' = Bad
        BY <2>2, <2>4, <2>5 DEF Bad
      <3>2. Cardinality(Bad) \in Nat
        BY <2>3, FS_CardinalityType
      <3>3. QED
        BY <1>1, <2>3, <2>5, <3>1, <3>2
    <2>6. CASE status # "success"
      <3>1. Bad' = Bad \cup {Len(results) + 1}
        BY <2>2, <2>4, <2>6 DEF Bad
      <3>2. Cardinality(Bad') = Cardinality(Bad) + 1
        BY <2>3, <2>4, <3>1, FS_AddElement
      <3>3. QED
        BY <1>1, <2>3, <2>6, <3>2
    <2>7. QED
      BY <2>5, <2>6
  <1>7. Tells'
    BY <1>5, <1>6 DEF Tells
  <1>8. last'.stored = IF n > 0 THEN c ELSE last.stored
    BY <1>2
  <1>9. QED
    BY <1>2, <1>7, <1>8

\* What is reported of a cycle that is over is what the table has.
LEMMA PastGrows ==
  ASSUME CycleTyped, Past, NEW status \in {"success", "partial", "failed"}, NEW c, c = Len(results) + 1,
         results' = Append(results, status), UNCHANGED <<job, tagTable, unsure>>,
         last'.stored \in Nat, last.stored <= last'.stored, last'.stored <= c,
         c \notin unsure => /\ status = "failed" => GC!RowsIn(c) = {}
                            /\ status = "partial" => GC!RowsIn(c) # {} /\ job.policy = "perMethod"
                            /\ last'.stored = c \/ GC!RowsIn(c) = {},
         Gentle /\ status = "success" => Places(GC!RowsIn(c)) = GC!AllTags
  PROVE  Past'
  <1>1. Len(results) \in Nat /\ DOMAIN results = 1..Len(results) /\ c \in Nat
    BY DEF CycleTyped
  <1>2. /\ DOMAIN results' = DOMAIN results \cup {c}
        /\ results'[c] = status /\ \A i \in DOMAIN results : results'[i] = results[i] /\ i # c /\ i \in Nat
    BY <1>1 DEF CycleTyped
  <1>3. \A i : GC!RowsIn(i)' = GC!RowsIn(i)
    BY DEF GC!RowsIn
  <1>4. last.stored \in Nat
    BY DEF CycleTyped
  <1>5. GC!ResultTellsRows'
    <2>1. ASSUME NEW i \in DOMAIN results', i \notin unsure
          PROVE  /\ results'[i] = "failed" => GC!RowsIn(i) = {}
                 /\ results'[i] = "partial" => GC!RowsIn(i) # {} /\ job.policy = "perMethod"
                 /\ last'.stored >= i \/ GC!RowsIn(i) = {}
      <3>1. CASE i = c
        <4>1. c \notin unsure /\ results'[i] = status
          BY <1>2, <2>1, <3>1
        <4>2. /\ status = "failed" => GC!RowsIn(c) = {}
              /\ status = "partial" => GC!RowsIn(c) # {} /\ job.policy = "perMethod"
              /\ last'.stored = c \/ GC!RowsIn(c) = {}
          BY <4>1
        <4>3. last'.stored = c => last'.stored >= c
          BY <1>1
        <4>4. /\ status = "failed" => GC!RowsIn(c) = {}
              /\ status = "partial" => GC!RowsIn(c) # {} /\ job.policy = "perMethod"
              /\ last'.stored >= c \/ GC!RowsIn(c) = {}
          BY <4>2, <4>3
        <4>5. QED
          BY <3>1, <4>1, <4>4
      <3>2. CASE i \in DOMAIN results
        <4>1. last.stored >= i \/ GC!RowsIn(i) = {}
          BY <2>1, <3>2 DEF Past, GC!ResultTellsRows
        <4>2. last.stored >= i => last'.stored >= i
          BY <1>2, <1>4, <3>2
        <4>3. QED
          BY <1>2, <2>1, <3>2, <4>1, <4>2 DEF Past, GC!ResultTellsRows
      <3>3. QED
        BY <1>2, <3>1, <3>2
    <2>2. QED
      BY <1>3, <2>1 DEF GC!ResultTellsRows
  <1>6. GC!NothingDropped'
    <2>1. SUFFICES ASSUME Gentle, NEW i \in DOMAIN results', results'[i] = "success"
                   PROVE  Places(GC!RowsIn(i)) = GC!AllTags
      BY <1>3 DEF GC!NothingDropped, Gentle, Places, GC!AllTags, GC!Calls
    <2>2. CASE i = c
      BY <1>2, <2>1, <2>2
    <2>3. CASE i \in DOMAIN results
      BY <1>2, <2>1, <2>3 DEF Past, GC!NothingDropped, Gentle, Places
    <2>4. QED
      BY <1>2, <2>2, <2>3
  <1>7. QED
    BY <1>5, <1>6 DEF Past

LEMMA NewCycleIsEmpty ==
  ASSUME CycleTyped, at = 0
  PROVE  /\ GC!RowsIn(cycle + 1) = {} /\ cycle + 1 \notin unsure /\ cycle + 1 = Len(results) + 1
  BY DEF CycleTyped, GC!RowsIn

LEMMA OpenFailsKeeps ==
  ASSUME CycleInv, GC!Idle, ~halted, GC!OpenFails
  PROVE  CycleInv'
  <1> USE DEF GC!Idle
  <1>1. /\ GC!Report("failed", cycle + 1, 0) /\ cycle' = cycle + 1
        /\ UNCHANGED <<job, stream, bus, at, buffer, counts, failed, tagTable, halted, unsure>>
    BY DEF GC!OpenFails
  <1>2. results' = Append(results, "failed") /\ Tells' /\ last'.stored = last.stored
    BY <1>1, Reported DEF CycleInv
  <1>3. GC!RowsIn(cycle + 1) = {} /\ cycle + 1 \notin unsure /\ cycle + 1 = Len(results) + 1
    BY NewCycleIsEmpty DEF CycleInv
  <1>4. Past'
    <2>1. last'.stored \in Nat /\ last.stored <= last'.stored /\ last'.stored <= cycle + 1
      BY <1>2, <1>3 DEF CycleInv, CycleTyped
    <2>2. QED
      BY <1>1, <1>2, <1>3, <2>1, PastGrows DEF CycleInv
  <1>5. CycleTyped'
    <2>1. results' \in Seq({"success", "partial", "failed"}) /\ Len(results') = Len(results) + 1
      BY <1>2 DEF CycleInv, CycleTyped
    <2>2. \A x \in 1..cycle : x \in 1..cycle'
      BY <1>1 DEF CycleInv, CycleTyped
    <2>3. QED
      BY <1>1, <1>2, <2>1, <2>2 DEF CycleInv, CycleTyped, GC!Calls
  <1>6. Running' /\ Numbers'
    BY <1>1 DEF CycleInv, Running, Numbers, GC!Calls
  <1>7. QED
    BY <1>2, <1>4, <1>5, <1>6 DEF CycleInv

LEMMA BeginKeeps ==
  ASSUME CycleInv, GC!Idle, ~halted, GC!Begin
  PROVE  CycleInv'
  <1> USE DEF GC!Idle
  <1>1. /\ cycle' = cycle + 1 /\ at' = 1 /\ buffer' = {} /\ counts' = [i \in DOMAIN GC!Calls |-> 0]
        /\ failed' = 0 /\ UNCHANGED <<job, bus, tagTable, results, last, failures, summary, told, halted, unsure>>
    BY DEF GC!Begin, GC!reports
  <1>2. GC!RowsIn(cycle + 1) = {} /\ cycle + 1 \notin unsure
    BY NewCycleIsEmpty DEF CycleInv
  <1>3. CycleTyped'
    <2>1. Len(GC!Calls) \in Nat
      BY CallsAre DEF CycleInv, CycleTyped
    <2>2. \A x \in 1..cycle : x \in 1..cycle'
      BY <1>1 DEF CycleInv, CycleTyped
    <2>3. QED
      BY <1>1, <2>1, <2>2 DEF CycleInv, CycleTyped, GC!Calls
  <1>4. Running'
    <2>1. GC!Stored' = {}
      BY <1>1 DEF GC!Stored
    <2>2. GC!RowsIn(cycle)' = {}
      BY <1>1, <1>2 DEF GC!RowsIn
    <2>3. Due(at)' = {}
      BY <1>1, DueEnds DEF CycleInv, CycleTyped, Due, GC!Calls
    <2>4. QED
      BY <1>1, <1>2, <2>1, <2>2, <2>3, FS_EmptySet DEF Running, GC!Calls, Places
  <1>5. Tells'
    <2>1. Bad' = Bad /\ Pending' = Pending
      BY <1>1 DEF Bad, Pending
    <2>2. QED
      BY <1>1, <2>1 DEF CycleInv, Tells
  <1>6. Numbers'
    BY <1>1 DEF CycleInv, Numbers, Whole4, GC!Calls
  <1>7. Past'
    BY <1>1 DEF CycleInv, Past, GC!ResultTellsRows, GC!NothingDropped, GC!RowsIn, GC!AllTags, GC!Calls
  <1>8. QED
    BY <1>3, <1>4, <1>5, <1>6, <1>7 DEF CycleInv

\* A call that fails leaves what was there.
LEMMA CallBreaks ==
  ASSUME CycleInv, at \in DOMAIN GC!Calls, failed = 0, failed' = at,
         UNCHANGED <<job, cycle, at, buffer, counts, tagTable, GC!reports, halted, unsure>>
  PROVE  CycleInv'
  <1>1. UNCHANGED <<job, cycle, at, buffer, counts, tagTable, results, last, failures, summary, told, halted, unsure>>
    BY DEF GC!reports
  <1>2. Len(GC!Calls) \in Nat /\ at \in 1..Len(GC!Calls) /\ at # Len(GC!Calls) + 1
    BY CallsAre DEF CycleInv, CycleTyped
  <1>3. CycleTyped'
    BY <1>1, <1>2 DEF CycleInv, CycleTyped, GC!Calls
  <1>4. Running'
    <2>1. GC!Calls' = GC!Calls /\ GC!Stored' = GC!Stored /\ GC!RowsIn(cycle)' = GC!RowsIn(cycle) /\ Due(at)' = Due(at)
      BY <1>1 DEF GC!Calls, GC!Stored, GC!RowsIn, Due
    <2>2. Gentle' = Gentle
      BY <2>1 DEF Gentle
    <2>3. at # 0 /\ failed' # 0
      BY <1>2
    <2>4. job.policy # "perMethod" => GC!Stored = {}
      BY <1>2, <2>3 DEF CycleInv, Running
    <2>5. QED
      BY <1>1, <2>1, <2>2, <2>3, <2>4 DEF CycleInv, Running
  <1>5. Tells'
    BY <1>1 DEF CycleInv, Tells, Bad, Pending
  <1>6. Numbers' /\ Past'
    BY <1>1 DEF CycleInv, Numbers, Whole4, Past, GC!ResultTellsRows, GC!NothingDropped, GC!RowsIn, GC!AllTags, GC!Calls
  <1>7. QED
    BY <1>3, <1>4, <1>5, <1>6 DEF CycleInv

\* An append that breaks off may leave any part of the rows.
LEMMA AppendBreaks ==
  ASSUME CycleInv, at # 0, failed' = at, NEW rows, NEW kept \in SUBSET rows, ~GC!Fractional(GC!Calls) => Whole4(rows),
         tagTable' = tagTable \cup GC!Stamp(kept), unsure' = unsure \cup {cycle}, counts' = counts,
         buffer' = buffer \/ buffer' = {}, job.policy # "perMethod" => GC!Stored = {},
         UNCHANGED <<job, cycle, at, GC!reports, halted>>
  PROVE  CycleInv'
  <1>1. UNCHANGED <<job, cycle, at, results, last, failures, summary, told, halted>>
    BY DEF GC!reports
  <1>2. cycle \in 1..cycle
    BY DEF CycleInv, CycleTyped
  <1>3. \A r \in GC!Stamp(kept) : r.cycle = cycle
    BY Stamped
  <1>4. CycleTyped'
    BY <1>1, <1>2, <1>3 DEF CycleInv, CycleTyped, GC!Calls
  <1>5. Running'
    <2>1. GC!Calls' = GC!Calls /\ GC!Stored' = GC!Stored
      BY <1>1 DEF GC!Calls, GC!Stored
    <2>2. IsFiniteSet(buffer') /\ \A r \in buffer' : r.call \in DOMAIN GC!Calls
      BY FS_EmptySet DEF CycleInv, Running
    <2>3. QED
      BY <1>1, <2>1, <2>2 DEF CycleInv, Running
  <1>6. Tells'
    BY <1>1 DEF CycleInv, Tells, Bad, Pending
  <1>7. Numbers'
    <2>1. ASSUME ~GC!Fractional(GC!Calls) PROVE Whole4(tagTable') /\ Whole4(buffer')
      <3>1. Whole4(kept)
        BY <2>1 DEF Whole4
      <3>2. Whole4(GC!Stamp(kept))
        BY <3>1, Stamped
      <3>3. QED
        BY <2>1, <3>2 DEF CycleInv, Numbers, Whole4
    <2>2. QED
      BY <1>1, <2>1 DEF Numbers, GC!Calls, Whole4
  <1>8. Past'
    <2>1. \A c \in Nat : c # cycle => GC!RowsIn(c)' = GC!RowsIn(c)
      BY Appended
    <2>2. QED
      BY <1>1, <2>1, PastStays DEF CycleInv
  <1>9. QED
    BY <1>4, <1>5, <1>6, <1>7, <1>8 DEF CycleInv

\* Method by Method: the rows of a call are appended when it has answered.
LEMMA RowsStored ==
  ASSUME CycleInv, at \in DOMAIN GC!Calls, failed = 0, job.policy = "perMethod",
         NEW body \in GC!Answers(GC!Calls[at]), NEW got, got = GC!RowsOf(at, GC!Calls[at], body), got # {},
         NEW rows, rows = GC!Writable(got),
         tagTable' = tagTable \cup GC!Stamp(rows), counts' = [counts EXCEPT ![at] = GC!Cardinality(rows)], at' = at + 1,
         UNCHANGED <<job, cycle, failed, buffer, GC!reports, halted, unsure>>
  PROVE  CycleInv'
  <1>1. UNCHANGED <<job, cycle, failed, buffer, results, last, failures, summary, told, halted, unsure>>
    BY DEF GC!reports
  <1>2. Len(GC!Calls) \in Nat /\ DOMAIN GC!Calls = 1..Len(GC!Calls) /\ at # 0
    BY CallsAre DEF CycleInv, CycleTyped
  <1>3. /\ IsFiniteSet(rows) /\ (~GC!Fractional(GC!Calls) => Whole4(rows))
        /\ Gentle => Places(rows) = {<<at, t.name>> : t \in GC!Tags(GC!Calls[at])}
    BY CallRows DEF CycleInv, CycleTyped
  <1>4. GC!Cardinality(rows) \in Nat /\ (GC!Cardinality(rows) = 0 <=> rows = {})
    BY <1>3, SameSize, FS_CardinalityType, FS_EmptySet
  <1>5. /\ Places(GC!Stamp(rows)) = Places(rows) /\ (GC!Stamp(rows) = {} <=> rows = {})
        /\ \A r \in GC!Stamp(rows) : r.cycle = cycle
    BY Stamped
  <1>6. CycleTyped'
    <2>1. cycle \in 1..cycle
      BY <1>2 DEF CycleInv, CycleTyped
    <2>2. \A r \in tagTable' : r.cycle \in 1..cycle
      BY <1>5, <2>1 DEF CycleInv, CycleTyped
    <2>3. QED
      BY <1>1, <1>2, <2>2 DEF CycleInv, CycleTyped, GC!Calls
  <1>7. Running'
    <2>1. GC!Calls' = GC!Calls /\ (Gentle' <=> Gentle)
      BY <1>1 DEF GC!Calls, Gentle
    <2>2. GC!RowsIn(cycle)' = GC!RowsIn(cycle) \cup GC!Stamp(rows)
      BY <1>1, Appended DEF GC!RowsIn
    <2>3. counts \in [DOMAIN GC!Calls -> Nat] /\ \A i \in DOMAIN GC!Calls : counts[i] > 0 => i < at
      BY <1>2 DEF CycleInv, Running
    <2>4. counts' \in [DOMAIN GC!Calls -> Nat] /\ \A i \in DOMAIN GC!Calls : counts'[i] > 0 => i < at'
      BY <1>2, <1>4, <2>3
    <2>5. GC!Stored' = IF rows = {} THEN GC!Stored ELSE GC!Stored \cup {at}
      <3>1. GC!Stored' = {i \in DOMAIN GC!Calls : counts'[i] > 0} /\ GC!Stored = {i \in DOMAIN GC!Calls : counts[i] > 0}
        BY <2>3, <2>4 DEF GC!Stored
      <3>2. counts[at] = 0 /\ counts'[at] = GC!Cardinality(rows) /\ \A i \in DOMAIN GC!Calls : i # at => counts'[i] = counts[i]
        BY <1>2, <2>3
      <3>3. QED
        BY <1>4, <3>1, <3>2
    <2>6. cycle \notin unsure /\ buffer = {} /\ (GC!RowsIn(cycle) = {} <=> GC!Stored = {})
      BY <1>2 DEF CycleInv, Running
    <2>7. GC!RowsIn(cycle)' = {} <=> GC!Stored' = {}
      BY <1>5, <2>2, <2>5, <2>6
    <2>8. ASSUME Gentle PROVE Places(buffer)' \cup Places(GC!RowsIn(cycle)') = Due(at + 1)
      <3>1. Places(buffer) \cup Places(GC!RowsIn(cycle)) = Due(at)
        BY <1>2, <2>6, <2>8 DEF CycleInv, Running
      <3>2. Places(GC!RowsIn(cycle)') = Places(GC!RowsIn(cycle)) \cup Places(GC!Stamp(rows))
        BY <2>2 DEF Places
      <3>3. Due(at + 1) = Due(at) \cup {<<at, t.name>> : t \in GC!Tags(GC!Calls[at])}
        BY DueGrows DEF CycleInv, CycleTyped
      <3>4. QED
        BY <1>1, <1>3, <1>5, <2>8, <3>1, <3>2, <3>3
    <2>9. Due(at)' = Due(at + 1) /\ GC!RowsIn(cycle)' = GC!RowsIn(cycle)'
      BY <2>1 DEF Due
    <2>10. IsFiniteSet(buffer') /\ \A r \in buffer' : r.call \in DOMAIN GC!Calls
      BY <1>1, <2>6, FS_EmptySet
    <2>11. Places(buffer)' \cup Places(GC!RowsIn(cycle)') = Places(buffer') \cup Places(GC!RowsIn(cycle)')
      BY DEF Places
    <2>12. QED
      BY <1>1, <2>1, <2>4, <2>6, <2>7, <2>8, <2>9, <2>10, <2>11 DEF Running, Places, GC!RowsIn
  <1>8. Tells'
    <2>1. ~halted
      BY <1>2 DEF CycleInv, Tells
    <2>2. QED
      BY <1>1, <2>1 DEF CycleInv, Tells, Bad, Pending
  <1>9. Numbers'
    <2>1. ASSUME ~GC!Fractional(GC!Calls) PROVE Whole4(tagTable')
      <3>1. Whole4(GC!Stamp(rows))
        BY <1>3, <2>1, Stamped
      <3>2. QED
        BY <2>1, <3>1 DEF CycleInv, Numbers, Whole4
    <2>2. QED
      BY <1>1, <2>1 DEF CycleInv, Numbers, GC!Calls, Whole4
  <1>10. Past'
    <2>1. \A c \in Nat : c # cycle => GC!RowsIn(c)' = GC!RowsIn(c)
      BY Appended
    <2>2. QED
      BY <1>1, <1>2, <2>1, PastStays DEF CycleInv
  <1>11. QED
    BY <1>6, <1>7, <1>8, <1>9, <1>10 DEF CycleInv

\* All at the end: the rows of a call wait in the buffer.
LEMMA RowsBuffered ==
  ASSUME CycleInv, at \in DOMAIN GC!Calls, failed = 0, job.policy # "perMethod",
         NEW body \in GC!Answers(GC!Calls[at]), NEW got, got = GC!RowsOf(at, GC!Calls[at], body), got # {},
         NEW rows, rows = GC!Writable(got), buffer' = buffer \cup rows, at' = at + 1,
         UNCHANGED <<job, cycle, failed, tagTable, counts, GC!reports, halted, unsure>>
  PROVE  CycleInv'
  <1>1. UNCHANGED <<job, cycle, failed, tagTable, counts, results, last, failures, summary, told, halted, unsure>>
    BY DEF GC!reports
  <1>2. Len(GC!Calls) \in Nat /\ DOMAIN GC!Calls = 1..Len(GC!Calls) /\ at # 0 /\ at # Len(GC!Calls) + 1
    BY CallsAre DEF CycleInv, CycleTyped
  <1>3. /\ IsFiniteSet(rows) /\ (\A r \in rows : r.call = at) /\ (~GC!Fractional(GC!Calls) => Whole4(rows))
        /\ Gentle => Places(rows) = {<<at, t.name>> : t \in GC!Tags(GC!Calls[at])}
    BY CallRows DEF CycleInv, CycleTyped
  <1>4. CycleTyped'
    BY <1>1, <1>2 DEF CycleInv, CycleTyped, GC!Calls
  <1>5. Running'
    <2>1. GC!Calls' = GC!Calls /\ (Gentle' <=> Gentle) /\ GC!Stored' = GC!Stored /\ GC!RowsIn(cycle)' = GC!RowsIn(cycle)
      BY <1>1 DEF GC!Calls, Gentle, GC!Stored, GC!RowsIn
    <2>2. counts' \in [DOMAIN GC!Calls -> Nat] /\ \A i \in DOMAIN GC!Calls : counts'[i] > 0 => i < at'
      BY <1>1, <1>2 DEF CycleInv, Running
    <2>3. cycle \notin unsure /\ GC!Stored = {} /\ (GC!RowsIn(cycle) = {} <=> GC!Stored = {})
      BY <1>2 DEF CycleInv, Running
    <2>4. IsFiniteSet(buffer') /\ \A r \in buffer' : r.call \in DOMAIN GC!Calls
      BY <1>2, <1>3, FS_Union DEF CycleInv, Running
    <2>5. ASSUME Gentle PROVE Places(buffer') \cup Places(GC!RowsIn(cycle)) = Due(at + 1)
      <3>1. Places(buffer) \cup Places(GC!RowsIn(cycle)) = Due(at)
        BY <1>2, <2>3, <2>5 DEF CycleInv, Running
      <3>2. Places(buffer') = Places(buffer) \cup Places(rows)
        BY DEF Places
      <3>3. Due(at + 1) = Due(at) \cup {<<at, t.name>> : t \in GC!Tags(GC!Calls[at])}
        BY DueGrows DEF CycleInv, CycleTyped
      <3>4. QED
        BY <1>3, <2>5, <3>1, <3>2, <3>3
    <2>6. Due(at)' = Due(at + 1) /\ Places(GC!RowsIn(cycle))' = Places(GC!RowsIn(cycle)) /\ Places(buffer)' = Places(buffer')
      BY <2>1 DEF Due, Places
    <2>7. QED
      BY <1>1, <2>1, <2>2, <2>3, <2>4, <2>5, <2>6 DEF Running
  <1>6. Tells'
    <2>1. ~halted
      BY <1>2 DEF CycleInv, Tells
    <2>2. QED
      BY <1>1, <2>1 DEF CycleInv, Tells, Bad, Pending
  <1>7. Numbers'
    <2>1. ASSUME ~GC!Fractional(GC!Calls) PROVE Whole4(buffer')
      BY <1>3, <2>1 DEF CycleInv, Numbers, Whole4
    <2>2. QED
      BY <1>1, <2>1 DEF CycleInv, Numbers, GC!Calls, Whole4
  <1>8. Past'
    BY <1>1 DEF CycleInv, Past, GC!ResultTellsRows, GC!NothingDropped, GC!RowsIn, GC!AllTags, GC!Calls
  <1>9. QED
    BY <1>4, <1>5, <1>6, <1>7, <1>8 DEF CycleInv

LEMMA CallFailsKeeps ==
  ASSUME CycleInv, GC!CallFails
  PROVE  CycleInv'
  BY CallBreaks DEF GC!CallFails

LEMMA CalledKeeps ==
  ASSUME CycleInv, GC!Called
  PROVE  CycleInv'
  <1>1. PICK body \in GC!Answers(GC!Calls[at]) :
          LET got == GC!RowsOf(at, GC!Calls[at], body) IN
            IF got = {}
            THEN failed' = at /\ UNCHANGED <<at, stream, buffer, counts, tagTable, unsure>>
            ELSE LET rows == GC!Writable(got) IN
                 IF job.policy = "perMethod"
                 THEN /\ GC!AppendRows(rows) /\ UNCHANGED buffer
                      /\ IF failed' = 0 THEN counts' = [counts EXCEPT ![at] = GC!Cardinality(rows)] /\ at' = at + 1
                         ELSE UNCHANGED <<counts, at>>
                 ELSE IF GC!Cardinality(buffer) + GC!Cardinality(rows) > MaxBuffered
                 THEN failed' = at /\ UNCHANGED <<at, stream, buffer, counts, tagTable, unsure>>
                 ELSE buffer' = buffer \cup rows /\ at' = at + 1
                      /\ UNCHANGED <<failed, stream, counts, tagTable, unsure>>
    BY DEF GC!Called
  <1>2. at \in DOMAIN GC!Calls /\ failed = 0 /\ UNCHANGED <<job, cycle, GC!reports, halted>>
    BY DEF GC!Called
  <1>3. at # 0 /\ at # Len(GC!Calls) + 1
    BY <1>2, CallsAre DEF CycleInv, CycleTyped
  <1>4. PICK got, rows : got = GC!RowsOf(at, GC!Calls[at], body) /\ rows = GC!Writable(got)
    OBVIOUS
  <1>5. CASE failed' = at /\ UNCHANGED <<at, stream, buffer, counts, tagTable, unsure>>
    BY <1>2, <1>5, CallBreaks
  <1>6. CASE got # {} /\ job.policy = "perMethod"
    <2>1. /\ GC!AppendRows(rows) /\ UNCHANGED buffer
          /\ IF failed' = 0 THEN counts' = [counts EXCEPT ![at] = GC!Cardinality(rows)] /\ at' = at + 1
             ELSE UNCHANGED <<counts, at>>
      BY <1>1, <1>4, <1>6
    <2>2. CASE tagTable' = tagTable \cup GC!Stamp(rows) /\ UNCHANGED <<stream, unsure, failed>>
      BY <1>2, <1>4, <1>6, <2>1, <2>2, RowsStored
    <2>3. CASE (\E kept \in SUBSET rows : tagTable' = tagTable \cup GC!Stamp(kept)) /\ unsure' = unsure \cup {cycle} /\ failed' = at
      <3>1. PICK kept \in SUBSET rows : tagTable' = tagTable \cup GC!Stamp(kept)
        BY <2>3
      <3>2. ~GC!Fractional(GC!Calls) => Whole4(rows)
        BY <1>2, <1>4, CallRows DEF CycleInv, CycleTyped
      <3>3. QED
        BY <1>2, <1>3, <1>6, <2>1, <2>3, <3>1, <3>2, AppendBreaks
    <2>4. QED
      BY <2>1, <2>2, <2>3 DEF GC!AppendRows
  <1>7. CASE /\ got # {} /\ job.policy # "perMethod" /\ buffer' = buffer \cup rows /\ at' = at + 1
             /\ UNCHANGED <<failed, stream, counts, tagTable, unsure>>
    BY <1>2, <1>4, <1>7, RowsBuffered
  <1>8. QED
    BY <1>1, <1>4, <1>5, <1>6, <1>7

\* The end of the calls, when the buffer is appended whole.
LEMMA BufferStored ==
  ASSUME CycleInv, at = Len(GC!Calls) + 1, failed = 0, job.policy # "perMethod", buffer # {},
         tagTable' = tagTable \cup GC!Stamp(buffer), buffer' = {},
         counts' = [i \in DOMAIN GC!Calls |-> GC!Cardinality({r \in buffer : r.call = i})],
         UNCHANGED <<job, cycle, at, failed, GC!reports, halted, unsure>>
  PROVE  CycleInv'
  <1>1. UNCHANGED <<job, cycle, at, failed, results, last, failures, summary, told, halted, unsure>>
    BY DEF GC!reports
  <1>2. Len(GC!Calls) \in Nat /\ DOMAIN GC!Calls = 1..Len(GC!Calls) /\ at # 0
    BY CallsAre DEF CycleInv, CycleTyped
  <1>3. /\ Places(GC!Stamp(buffer)) = Places(buffer) /\ (GC!Stamp(buffer) = {} <=> buffer = {})
        /\ \A r \in GC!Stamp(buffer) : r.cycle = cycle
    BY Stamped
  <1>4. CycleTyped'
    <2>1. cycle \in 1..cycle
      BY <1>2 DEF CycleInv, CycleTyped
    <2>2. \A r \in tagTable' : r.cycle \in 1..cycle
      BY <1>3, <2>1 DEF CycleInv, CycleTyped
    <2>3. QED
      BY <1>1, <2>2 DEF CycleInv, CycleTyped, GC!Calls
  <1>5. Running'
    <2>1. GC!Calls' = GC!Calls /\ (Gentle' <=> Gentle)
      BY <1>1 DEF GC!Calls, Gentle
    <2>2. GC!RowsIn(cycle)' = GC!RowsIn(cycle) \cup GC!Stamp(buffer)
      BY <1>1, Appended DEF GC!RowsIn
    <2>3. /\ cycle \notin unsure /\ IsFiniteSet(buffer) /\ \A r \in buffer : r.call \in DOMAIN GC!Calls
          /\ Gentle => Places(buffer) \cup Places(GC!RowsIn(cycle)) = Due(at)
      BY <1>2 DEF CycleInv, Running
    <2>4. ASSUME NEW i \in DOMAIN GC!Calls
          PROVE  counts'[i] \in Nat /\ (counts'[i] = 0 <=> {r \in buffer : r.call = i} = {})
      <3>1. IsFiniteSet({r \in buffer : r.call = i})
        BY <2>3, FS_Subset
      <3>2. counts'[i] = GC!Cardinality({r \in buffer : r.call = i})
        OBVIOUS
      <3>3. QED
        BY <3>1, <3>2, SameSize, FS_CardinalityType, FS_EmptySet
    <2>5. counts' \in [DOMAIN GC!Calls -> Nat] /\ \A i \in DOMAIN GC!Calls : i < at'
      BY <1>1, <1>2, <2>4
    <2>6. GC!Stored' # {}
      <3>1. PICK r \in buffer : r.call \in DOMAIN GC!Calls
        BY <2>3
      <3>2. counts'[r.call] > 0 /\ r.call \in DOMAIN counts'
        BY <2>4, <2>5, <3>1
      <3>3. QED
        BY <3>2 DEF GC!Stored
    <2>7. GC!RowsIn(cycle)' # {}
      BY <1>3, <2>2
    <2>8. Places(GC!RowsIn(cycle)') = Places(GC!RowsIn(cycle)) \cup Places(buffer) /\ Places(buffer') = {}
      BY <1>3, <2>2 DEF Places
    <2>9. /\ Due(at)' = Due(at) /\ Places(GC!RowsIn(cycle))' = Places(GC!RowsIn(cycle)')
          /\ Places(buffer)' = Places(buffer') /\ IsFiniteSet(buffer')
      BY <1>1, <2>1, FS_EmptySet DEF Due, Places
    <2>10. QED
      BY <1>1, <1>2, <2>1, <2>3, <2>5, <2>6, <2>7, <2>8, <2>9 DEF Running
  <1>6. Tells'
    BY <1>1 DEF CycleInv, Tells, Bad, Pending
  <1>7. Numbers'
    <2>1. ASSUME ~GC!Fractional(GC!Calls) PROVE Whole4(tagTable')
      <3>1. Whole4(GC!Stamp(buffer))
        BY <2>1, Stamped DEF CycleInv, Numbers
      <3>2. QED
        BY <2>1, <3>1 DEF CycleInv, Numbers, Whole4
    <2>2. QED
      BY <1>1, <2>1 DEF CycleInv, Numbers, GC!Calls, Whole4
  <1>8. Past'
    <2>1. \A c \in Nat : c # cycle => GC!RowsIn(c)' = GC!RowsIn(c)
      BY Appended
    <2>2. QED
      BY <1>1, <1>2, <2>1, PastStays DEF CycleInv
  <1>9. QED
    BY <1>4, <1>5, <1>6, <1>7, <1>8 DEF CycleInv

LEMMA FinishKeeps ==
  ASSUME CycleInv, GC!Finish
  PROVE  CycleInv'
  <1>1. /\ at = Len(GC!Calls) + 1 /\ failed = 0 /\ job.policy = "afterAllMethods" /\ buffer # {}
        /\ GC!AppendRows(buffer) /\ buffer' = {} /\ UNCHANGED <<job, bus, cycle, at, GC!reports, halted>>
        /\ counts' = IF failed' = 0 THEN [i \in DOMAIN GC!Calls |-> GC!Cardinality({r \in buffer : r.call = i})] ELSE counts
    BY DEF GC!Finish
  <1>2. at # 0 /\ GC!Stored = {}
    BY <1>1, CallsAre DEF CycleInv, CycleTyped, Running
  <1>3. CASE tagTable' = tagTable \cup GC!Stamp(buffer) /\ UNCHANGED <<stream, unsure, failed>>
    BY <1>1, <1>3, BufferStored
  <1>4. CASE (\E kept \in SUBSET buffer : tagTable' = tagTable \cup GC!Stamp(kept)) /\ unsure' = unsure \cup {cycle} /\ failed' = at
    <2>1. PICK kept \in SUBSET buffer : tagTable' = tagTable \cup GC!Stamp(kept)
      BY <1>4
    <2>2. ~GC!Fractional(GC!Calls) => Whole4(buffer)
      BY DEF CycleInv, Numbers
    <2>3. QED
      BY <1>1, <1>2, <1>4, <2>1, <2>2, AppendBreaks
  <1>5. QED
    BY <1>1, <1>3, <1>4 DEF GC!AppendRows

LEMMA CompleteKeeps ==
  ASSUME CycleInv, GC!Complete
  PROVE  CycleInv'
  <1>1. PICK n, status : n = GC!Cardinality(GC!Stored) /\ status = GC!Status(n)
    OBVIOUS
  <1>2. /\ at # 0 /\ (failed # 0 \/ (at = Len(GC!Calls) + 1 /\ (job.policy = "perMethod" \/ buffer = {})))
        /\ GC!Report(status, cycle, n) /\ at' = 0 /\ buffer' = {}
        /\ UNCHANGED <<job, cycle, failed, tagTable, halted, unsure>>
    BY <1>1 DEF GC!Complete
  <1>3. n \in Nat /\ (n > 0 <=> GC!Stored # {})
    <2>1. IsFiniteSet(GC!Stored)
      <3>1. GC!Stored \in SUBSET DOMAIN GC!Calls
        BY <1>2 DEF CycleInv, Running, GC!Stored
      <3>2. QED
        BY <3>1, CallsAre, FS_Subset DEF CycleInv, CycleTyped
    <2>2. QED
      BY <1>1, <2>1, SameSize, FS_CardinalityType, FS_EmptySet
  <1>4. status = IF failed # 0 THEN IF n > 0 THEN "partial" ELSE "failed" ELSE "success"
    BY <1>1 DEF GC!Status
  <1>5. ~halted
    BY <1>2 DEF CycleInv, Tells
  <1>6. /\ results' = Append(results, status) /\ Tells'
        /\ last'.stored = IF n > 0 THEN cycle ELSE last.stored
    BY <1>2, <1>4, <1>5, Reported DEF CycleInv
  <1>7. cycle = Len(results) + 1 /\ last.stored <= cycle /\ last.stored \in Nat /\ cycle \in Nat
    BY <1>2 DEF CycleInv, CycleTyped
  <1>8. Past'
    <2>1. cycle \notin unsure => /\ status = "failed" => GC!RowsIn(cycle) = {}
                                 /\ status = "partial" => GC!RowsIn(cycle) # {} /\ job.policy = "perMethod"
                                 /\ last'.stored = cycle \/ GC!RowsIn(cycle) = {}
      BY <1>2, <1>3, <1>4, <1>6 DEF CycleInv, Running
    <2>2. ASSUME Gentle, status = "success" PROVE Places(GC!RowsIn(cycle)) = GC!AllTags
      <3>1. failed = 0
        BY <1>4, <2>2
      <3>2. at = Len(GC!Calls) + 1 /\ buffer = {} /\ cycle \notin unsure
        BY <1>2, <3>1 DEF CycleInv, Running
      <3>3. Places(buffer) \cup Places(GC!RowsIn(cycle)) = Due(at)
        BY <1>2, <2>2, <3>2 DEF CycleInv, Running
      <3>4. Places(buffer) = {}
        BY <3>2 DEF Places
      <3>5. QED
        BY <3>2, <3>3, <3>4, DueEnds DEF CycleInv, CycleTyped
    <2>3. last'.stored \in Nat /\ last.stored <= last'.stored /\ last'.stored <= cycle
      BY <1>6, <1>7
    <2>4. QED
      BY <1>2, <1>4, <1>6, <1>7, <2>1, <2>2, <2>3, PastGrows DEF CycleInv
  <1>9. CycleTyped'
    <2>1. results' \in Seq({"success", "partial", "failed"}) /\ Len(results') = Len(results) + 1
      BY <1>4, <1>6 DEF CycleInv, CycleTyped
    <2>2. 0 \in 0..Len(GC!Calls) + 1 /\ failed \in 0..Len(GC!Calls) + 1
      BY CallsAre DEF CycleInv, CycleTyped
    <2>3. QED
      BY <1>2, <1>6, <1>7, <2>1, <2>2 DEF CycleInv, CycleTyped, GC!Calls
  <1>10. Running' /\ Numbers'
    BY <1>2 DEF CycleInv, Running, Numbers, GC!Calls, Whole4
  <1>11. QED
    BY <1>6, <1>8, <1>9, <1>10 DEF CycleInv

LEMMA ShutdownKeeps ==
  ASSUME CycleInv, GC!Shutdown
  PROVE  CycleInv'
  <1>1. /\ at = 0 /\ halted' = TRUE /\ told' = told + GC!Flush(summary.failed, summary.retries)
        /\ summary' = [failed |-> 0, retries |-> 0]
        /\ UNCHANGED <<job, cycle, at, buffer, counts, failed, tagTable, results, last, failures, unsure>>
    BY DEF GC!Shutdown, GC!Idle
  <1>2. GC!Flush(summary.failed, summary.retries) = Pending
    BY DEF GC!Flush, Pending, CycleInv, Tells
  <1>3. Pending \in Nat /\ Pending' = 0
    BY <1>1 DEF Pending, CycleInv, Tells
  <1>4. Tells'
    BY <1>1, <1>2, <1>3 DEF CycleInv, Tells, Bad
  <1>5. CycleTyped' /\ Running' /\ Numbers'
    BY <1>1 DEF CycleInv, CycleTyped, Running, Numbers, GC!Calls, Whole4
  <1>6. Past'
    BY <1>1 DEF CycleInv, Past, GC!ResultTellsRows, GC!NothingDropped, GC!RowsIn, GC!AllTags, GC!Calls
  <1>7. QED
    BY <1>4, <1>5, <1>6 DEF CycleInv

LEMMA InitHolds ==
  ASSUME GC!ConstantsFit, GC!Init
  PROVE  CycleInv
  <1>1. CycleTyped
    BY CallsAre DEF GC!Init, CycleTyped
  <1>2. Running /\ Numbers
    BY DEF GC!Init, Running, Numbers, Whole4
  <1>3. Tells
    BY FS_EmptySet DEF GC!Init, Tells, Bad, Pending
  <1>4. Past
    BY DEF GC!Init, Past, GC!ResultTellsRows, GC!NothingDropped
  <1>5. QED
    BY <1>1, <1>2, <1>3, <1>4 DEF CycleInv

LEMMA StepKeeps ==
  ASSUME CycleInv, [GC!Next]_GC!vars
  PROVE  CycleInv'
  <1>1. CASE GC!Execute
    BY <1>1, OpenFailsKeeps, BeginKeeps DEF GC!Execute
  <1>2. CASE UNCHANGED GC!vars
    <2>1. UNCHANGED <<job, stream, bus, cycle, at, buffer, counts, failed, tagTable,
                      results, last, failures, halted, summary, told, unsure>>
      BY <1>2 DEF GC!vars
    <2>2. CycleTyped' /\ Tells' /\ Numbers'
      BY <2>1 DEF CycleInv, CycleTyped, Tells, Bad, Pending, Numbers, Whole4, GC!Calls
    <2>3. Running'
      BY <2>1 DEF CycleInv, Running, GC!Stored, GC!RowsIn, Places, Due, Gentle, GC!Calls
    <2>4. Past'
      BY <2>1 DEF CycleInv, Past, GC!ResultTellsRows, GC!NothingDropped, GC!RowsIn, GC!AllTags, GC!Calls
    <2>5. QED
      BY <2>2, <2>3, <2>4 DEF CycleInv
  <1>3. QED
    BY <1>1, <1>2, CallFailsKeeps, CalledKeeps, FinishKeeps, CompleteKeeps, ShutdownKeeps DEF GC!Next

LEMMA CyclesInductive ==
  ASSUME GC!ConstantsFit
  PROVE  GC!Spec => []CycleInv
  BY InitHolds, StepKeeps, PTL DEF GC!Spec

(* What a finished cycle reports (cycle.js, entry.js) is what it left in the *)
(* table: failed, nothing; partial, something, and only Method by Method.    *)
THEOREM CyclesTellTheirRows ==
  ASSUME GC!ConstantsFit
  PROVE  GC!Spec => []GC!ResultTellsRows
  <1>1. CycleInv => GC!ResultTellsRows
    BY DEF CycleInv, Past
  <1>2. QED
    BY <1>1, CyclesInductive, PTL

(* The log of a collector that was stopped tells of every failed cycle, the  *)
(* first of a run of failures at once and the others in a summary            *)
(* (createLogSummary of entry.js).                                           *)
THEOREM TheLogTellsAll ==
  ASSUME GC!ConstantsFit
  PROVE  GC!Spec => []GC!FailuresTold
  <1>1. CycleInv => GC!FailuresTold
    BY SameSize DEF CycleInv, Tells, Pending, Bad, GC!FailuresTold
  <1>2. QED
    BY <1>1, CyclesInductive, PTL

(* No value is lost for want of a column for strings: what                   *)
(* jobNeedsStringValueColumn finds when the Job is saved agrees with what    *)
(* decodeSelection and rowsForSelection make of every answer.                *)
THEOREM NoValueIsLost ==
  ASSUME GC!ConstantsFit
  PROVE  GC!Spec => []GC!NothingDropped
  <1>1. CycleInv => GC!NothingDropped
    BY DEF CycleInv, Past
  <1>2. QED
    BY <1>1, CyclesInductive, PTL

(* A Job saved as producing whole numbers only                               *)
(* (jobMayProduceFractionalValue) stores no other (transformValue).          *)
THEOREM WholeTables ==
  ASSUME GC!ConstantsFit
  PROVE  GC!Spec => []GC!WholeNumbersStayWhole
  <1>1. CycleInv => GC!WholeNumbersStayWhole
    BY DEF CycleInv, Numbers, Whole4, GC!WholeNumbersStayWhole
  <1>2. QED
    BY <1>1, CyclesInductive, PTL
=============================================================================
