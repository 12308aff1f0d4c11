--------------------------- MODULE CollectorDaemon ---------------------------
(***************************************************************************)
(* The control plane of the LS collector daemon                            *)
(* (collector-go/cmd/neo-dbus-collector/main.go): the commands of the      *)
(* control socket, the goroutine of each started Job, shutdown, crash and  *)
(* the restoration of the active Jobs by the next process.                 *)
(*                                                                         *)
(* Two files outlive the process: the active-Job file and the checkpoint   *)
(* of the runtime states.  A mutex per Job name serialises its commands,   *)
(* so a Job has one command at a time; the commands of different Jobs, the *)
(* goroutines and shutdown interleave between any two critical sections.   *)
(* A write of either file may fail; what is collected is                   *)
(* CollectorPipeline's.                                                    *)
(***************************************************************************)
EXTENDS FiniteSets

CONSTANT Jobs

VARIABLES
  phase,     (* of the process; the queue is closed from "draining" on     *)
  restore,   (* the active Jobs that are still to be restored              *)
  table,     (* d.jobs: the Jobs with an activeJob                         *)
  command,   (* the command of each Job and its next step                  *)
  worker,    (* the goroutine of each Job's latest activeJob               *)
  cancelled, (* the Jobs whose context is cancelled                        *)
  awaited,   (* the Jobs shutdown() waits for                              *)
  state,     (* the runtime state of each Job                              *)
  active,    (* file: the Jobs that are to run                             *)
  checkpoint,(* file: the runtime states                                   *)
  accepted,  (* history: starts that were accepted, and neither stopped    *)
             (* nor failed since                                           *)
  stopped,   (* history: stops that succeeded, and no start since          *)
  late,      (* history: starts published after shutdown() had begun       *)
  undone     (* history: starts undone because of a checkpoint             *)

history  == <<accepted, stopped, late, undone>>
files    == <<active, checkpoint>>
vars == <<phase, restore, table, command, worker, cancelled, awaited, state, files, history>>

States == {"none", "starting", "running", "stopping", "stopped", "failed"}
Ops    == {"start", "restore", "stop", "reload"}
Steps  == {"check", "persist", "publish", "checkpoint", "undo", "unpublish",
           "deactivate", "cancel", "wait", "confirm"}
Idle   == [op |-> "none", at |-> "none"]

TypeOK ==
  /\ phase \in {"down", "restoring", "up", "closed", "draining"}
  /\ {restore, table, cancelled, awaited, active, accepted, stopped, late, undone}
       \subseteq SUBSET Jobs
  /\ command \in [Jobs -> [op : Ops, at : Steps] \cup {Idle}]
  /\ worker \in [Jobs -> {"none", "preparing", "requested", "running", "failing", "done"}]
  /\ state \in [Jobs -> States] /\ checkpoint \in [Jobs -> States]

NoJobs == [j \in Jobs |-> "none"]

Init ==
  /\ phase = "down" /\ restore = {}
  /\ table = {} /\ command = [j \in Jobs |-> Idle]
  /\ worker = NoJobs /\ cancelled = {} /\ awaited = {}
  /\ state = NoJobs /\ active = {} /\ checkpoint = NoJobs
  /\ accepted = {} /\ stopped = {} /\ late = {} /\ undone = {}

-----------------------------------------------------------------------------
(* Files and commands                                                      *)

\* setActive() under activeMu, which may fail.
SetActive(new, ok) == active' = IF ok THEN new ELSE active

\* forceRuntimeCheckpoint(), which may fail.
Checkpoint(ok) == checkpoint' = IF ok THEN state ELSE checkpoint

Publish(j, s) == state' = [state EXCEPT ![j] = s]

At(j, step) == command[j].at = step

Step(j, next) == command' = [command EXCEPT ![j].at = next]

\* The reply to the client, or the next name of restoreActiveJobs.
Return(j) == command' = [command EXCEPT ![j] = Idle]

\* A failed start: restoreActiveJobs then drops the Job from the file.
Refuse(j) ==
  IF command[j].op = "restore"
  THEN Return(j) /\ \E ok \in BOOLEAN : SetActive(active \ {j}, ok)
  ELSE Return(j) /\ UNCHANGED active

\* apply(): the commands of the control socket, served once the Jobs are
\* restored and until the process ends.
Receive(j, op) ==
  /\ phase \in {"up", "closed", "draining"}
  /\ command[j] = Idle
  /\ op = "reload" => j \in table
  /\ command' = [command EXCEPT ![j] =
                   [op |-> op, at |-> IF op = "start" THEN "check" ELSE "deactivate"]]
  /\ UNCHANGED <<phase, restore, table, worker, cancelled, awaited, state, files, history>>

-----------------------------------------------------------------------------
(* start()                                                                 *)

\* The Job is unregistered or its configuration invalid.
StartRefused(j) ==
  /\ At(j, "check")
  /\ Refuse(j)
  /\ accepted' = IF command[j].op = "restore" THEN accepted \ {j} ELSE accepted
  /\ UNCHANGED <<phase, restore, table, worker, cancelled, awaited, state, checkpoint,
                 stopped, late, undone>>

StartCheck(j) ==
  /\ At(j, "check")
  /\ IF j \in table \/ phase \in {"closed", "draining"} THEN Return(j) ELSE Step(j, "persist")
  /\ UNCHANGED <<phase, restore, table, worker, cancelled, awaited, state, files, history>>

\* Mutant: the desired state is not persisted.
StartPersist_Skipped(j) ==
  /\ At(j, "persist")
  /\ Step(j, "publish")
  /\ UNCHANGED <<phase, restore, table, worker, cancelled, awaited, state, files, history>>

StartPersist(j) ==
  /\ At(j, "persist")
  /\ \/ /\ SetActive(active \cup {j}, TRUE)
        /\ Step(j, "publish")
        /\ stopped' = stopped \ {j}
        /\ UNCHANGED accepted
     \/ /\ Refuse(j)
        /\ accepted' = IF command[j].op = "restore" THEN accepted \ {j} ELSE accepted
        /\ UNCHANGED stopped
  /\ UNCHANGED <<phase, restore, table, worker, cancelled, awaited, state, checkpoint,
                 late, undone>>

\* A new activeJob; whether the daemon is closed is not looked at again.
StartPublish(j) ==
  /\ At(j, "publish")
  /\ Step(j, "checkpoint")
  /\ table' = table \cup {j}
  /\ worker' = [worker EXCEPT ![j] = "none"]
  /\ cancelled' = cancelled \ {j}
  /\ Publish(j, "starting")
  /\ late' = IF phase \in {"closed", "draining"} THEN late \cup {j} ELSE late \ {j}
  /\ undone' = undone \ {j}
  /\ UNCHANGED <<phase, restore, awaited, files, accepted, stopped>>

\* Mutant: an error of the checkpoint is ignored.
StartCheckpoint_Ignored(j) ==
  /\ At(j, "checkpoint")
  /\ \E ok \in BOOLEAN : Checkpoint(ok)
  /\ Return(j)
  /\ worker' = [worker EXCEPT ![j] = "preparing"]
  /\ accepted' = accepted \cup {j}
  /\ UNCHANGED <<phase, restore, table, cancelled, awaited, state, active,
                 stopped, late, undone>>

\* STARTING is durable before the start is accepted and its goroutine runs.
StartCheckpoint(j) ==
  /\ At(j, "checkpoint")
  /\ \/ /\ Checkpoint(TRUE)
        /\ Return(j)
        /\ worker' = [worker EXCEPT ![j] = "preparing"]
        /\ accepted' = accepted \cup {j}
        /\ UNCHANGED undone
     \/ /\ Step(j, "undo")
        /\ undone' = undone \cup {j}
        /\ UNCHANGED <<worker, checkpoint, accepted>>
  /\ UNCHANGED <<phase, restore, table, cancelled, awaited, state, active, stopped, late>>

StartUndo(j) ==
  /\ At(j, "undo")
  /\ Step(j, "unpublish")
  /\ \E ok \in BOOLEAN : SetActive(active \ {j}, ok)
  /\ accepted' = accepted \ {j}
  /\ UNCHANGED <<phase, restore, table, worker, cancelled, awaited, state, checkpoint,
                 stopped, late, undone>>

\* Mutant: the activeJob is not deleted.
StartUnpublish_StaysInTable(j) ==
  /\ At(j, "unpublish")
  /\ Refuse(j)
  /\ cancelled' = cancelled \cup {j}
  /\ UNCHANGED <<phase, restore, table, worker, awaited, state, checkpoint, history>>

\* The activeJob is deleted, and the state it was published with stays.
StartUnpublish(j) ==
  /\ At(j, "unpublish")
  /\ Refuse(j)
  /\ table' = table \ {j}
  /\ cancelled' = cancelled \cup {j}
  /\ UNCHANGED <<phase, restore, worker, awaited, state, checkpoint, history>>

-----------------------------------------------------------------------------
(* stop() and reload()                                                     *)

\* The Job is not to run any more, or the command fails.
StopPersist(j) ==
  /\ At(j, "deactivate")
  /\ \/ SetActive(active \ {j}, TRUE) /\ Step(j, "cancel") /\ accepted' = accepted \ {j}
     \/ Return(j) /\ UNCHANGED <<active, accepted>>
  /\ UNCHANGED <<phase, restore, table, worker, cancelled, awaited, state, checkpoint,
                 stopped, late, undone>>

\* A stop that has succeeded returns; a reload goes on to start.
Stopped(j) ==
  IF command[j].op = "reload"
  THEN Step(j, "check") /\ UNCHANGED stopped
  ELSE Return(j) /\ stopped' = stopped \cup {j}

StopCancel(j) ==
  /\ At(j, "cancel")
  /\ IF j \in table
     THEN /\ Publish(j, "stopping")
          /\ cancelled' = cancelled \cup {j}
          /\ Step(j, "wait")
          /\ UNCHANGED stopped
     ELSE /\ Stopped(j)
          /\ UNCHANGED <<state, cancelled>>
  /\ UNCHANGED <<phase, restore, table, worker, awaited, files, accepted, late, undone>>

\* Mutant: stop() does not wait for the goroutine.
StopWait_Skipped(j) ==
  /\ At(j, "wait")
  /\ Step(j, "confirm")
  /\ table' = table \ {j}
  /\ Publish(j, "stopped")
  /\ UNCHANGED <<phase, restore, worker, cancelled, awaited, files, history>>

\* <-a.done, and the Job leaves the table.
StopWait(j) ==
  /\ At(j, "wait") /\ worker[j] = "done"
  /\ Step(j, "confirm")
  /\ table' = table \ {j}
  /\ Publish(j, "stopped")
  /\ UNCHANGED <<phase, restore, worker, cancelled, awaited, files, history>>

StopConfirm(j) ==
  /\ At(j, "confirm")
  /\ \E ok \in BOOLEAN :
       /\ Checkpoint(ok)
       /\ IF ok THEN Stopped(j) ELSE Return(j) /\ UNCHANGED stopped
  /\ UNCHANGED <<phase, restore, table, worker, cancelled, awaited, state, active,
                 accepted, late, undone>>

-----------------------------------------------------------------------------
(* The goroutine of a Job: startJob() and the reader                       *)

Become(j, from, to) == worker[j] = from /\ worker' = [worker EXCEPT ![j] = to]

\* failStart() begins with the active file.
FailStart(j, from) ==
  /\ Become(j, from, "failing")
  /\ \E ok \in BOOLEAN : SetActive(active \ {j}, ok)

\* ensureAppenderReady looks whether the daemon is closed, and then asks.
Prepare(j) ==
  /\ \/ /\ phase \notin {"closed", "draining"}
        /\ Become(j, "preparing", "requested")
        /\ UNCHANGED active
     \/ /\ phase \in {"closed", "draining"}
        /\ IF j \in cancelled
           THEN Become(j, "preparing", "done") /\ UNCHANGED active
           ELSE FailStart(j, "preparing")
  /\ UNCHANGED <<phase, restore, table, command, cancelled, awaited, state, checkpoint, history>>

\* The stream and the tags are ready: RUNNING.
Prepared(j) ==
  /\ j \in table \ cancelled
  /\ Become(j, "requested", "running")
  /\ Publish(j, "running")
  /\ UNCHANGED <<phase, restore, table, command, cancelled, awaited, files, history>>

\* It cannot be prepared or scheduled; a Job that has just become RUNNING may
\* fail although it is being stopped.
Fail(j) ==
  /\ \/ j \notin cancelled /\ FailStart(j, "requested")
     \/ FailStart(j, "running")
  /\ accepted' = accepted \ {j}
  /\ UNCHANGED <<phase, restore, table, command, cancelled, awaited, state, checkpoint,
                 stopped, late, undone>>

\* The rest of failStart().
Failed(j) ==
  /\ Become(j, "failing", "done")
  /\ table' = table \ {j}
  /\ IF j \in table THEN Publish(j, "failed") ELSE UNCHANGED state
  /\ UNCHANGED <<phase, restore, command, cancelled, awaited, files, history>>

\* Cancelled, the goroutine ends and leaves the rest to stop() or shutdown().
Ended(j) ==
  /\ j \in cancelled
  /\ \E from \in {"requested", "running"} : Become(j, from, "done")
  /\ UNCHANGED <<phase, restore, table, command, cancelled, awaited, state, files, history>>

\* recordError(), also for a Job that is being stopped.
RecordError(j) ==
  /\ worker[j] = "running"
  /\ Publish(j, "running")
  /\ UNCHANGED <<phase, restore, table, command, worker, cancelled, awaited, files, history>>

-----------------------------------------------------------------------------
(* The process                                                             *)

\* runtimeCheckpointWriter: the ticker, and the end of the process.
CheckpointTick ==
  /\ phase # "down"
  /\ Checkpoint(TRUE)
  /\ UNCHANGED <<phase, restore, table, command, worker, cancelled, awaited, state, active, history>>

\* runDaemon(): the states of the last process are overwritten.
Boot ==
  /\ phase = "down"
  /\ phase' = "restoring"
  /\ restore' = active
  /\ checkpoint' = NoJobs
  /\ UNCHANGED <<table, command, worker, cancelled, awaited, state, active, history>>

Restoring == \E j \in Jobs : command[j].op = "restore"

\* restoreActiveJobs() starts them one by one.
RestoreNext(j) ==
  /\ phase = "restoring" /\ ~Restoring
  /\ j \in restore
  /\ restore' = restore \ {j}
  /\ command' = [command EXCEPT ![j] = [op |-> "restore", at |-> "check"]]
  /\ UNCHANGED <<phase, table, worker, cancelled, awaited, state, files, history>>

Serve ==
  /\ phase = "restoring" /\ ~Restoring /\ restore = {}
  /\ phase' = "up"
  /\ UNCHANGED <<restore, table, command, worker, cancelled, awaited, state, files, history>>

\* shutdown(): a signal, or the parent process has gone.
Shutdown ==
  /\ phase = "up"
  /\ phase' = "closed"
  /\ cancelled' = cancelled \cup table
  /\ awaited' = table
  /\ UNCHANGED <<restore, table, command, worker, state, files, history>>

\* It has waited for the Jobs it found, and closes the queue.
ShutdownCloses ==
  /\ phase = "closed"
  /\ \A j \in awaited : worker[j] = "done"
  /\ phase' = "draining"
  /\ table' = {} /\ awaited' = {}
  /\ UNCHANGED <<restore, command, worker, cancelled, state, files, history>>

\* What the process leaves behind is its files.
Down ==
  /\ phase' = "down"
  /\ restore' = {} /\ table' = {}
  /\ command' = [j \in Jobs |-> Idle]
  /\ worker' = NoJobs /\ cancelled' = {} /\ awaited' = {}
  /\ state' = NoJobs
  /\ undone' = {}
  /\ UNCHANGED <<active, accepted, stopped, late>>

\* d.wg.Wait(): every goroutine has ended; a command may be under way.
Exit ==
  /\ phase = "draining"
  /\ \A j \in Jobs : worker[j] \in {"none", "done"}
  /\ Checkpoint(TRUE) \/ UNCHANGED checkpoint
  /\ Down

Crash ==
  /\ phase # "down"
  /\ UNCHANGED checkpoint
  /\ Down

CommandStep(j) ==
  \/ StartRefused(j) \/ StartCheck(j) \/ StartPersist(j) \/ StartPublish(j)
  \/ StartCheckpoint(j) \/ StartUndo(j) \/ StartUnpublish(j)
  \/ StopPersist(j) \/ StopCancel(j) \/ StopWait(j) \/ StopConfirm(j)

WorkerStep(j) ==
  Prepare(j) \/ Prepared(j) \/ Fail(j) \/ Failed(j) \/ Ended(j) \/ RecordError(j)

Next ==
  \/ \E j \in Jobs :
       \/ \E op \in {"start", "stop", "reload"} : Receive(j, op)
       \/ CommandStep(j) \/ WorkerStep(j) \/ RestoreNext(j)
  \/ Boot \/ Serve \/ Shutdown \/ ShutdownCloses \/ Exit \/ Crash
  \/ CheckpointTick

Spec == Init /\ [][Next]_vars

-----------------------------------------------------------------------------
(* Properties                                                              *)

Busy == {"starting", "running", "stopping"}

\* The names databaseChangeBlockers() of ls-runtime.js reads from the files.
DatabaseChangeBlockers == active \cup {j \in Jobs : checkpoint[j] \in Busy}

(***************************************************************************)
(* The files name every Job that prepares or collects, whatever writes of  *)
(* them have failed, so a database profile is never replaced under a Job.  *)
(***************************************************************************)
BlockersCoverWorkers ==
  \A j \in Jobs :
    worker[j] \in {"preparing", "requested", "running"} => j \in DatabaseChangeBlockers

(***************************************************************************)
(* A stop that has succeeded is final: until the next start the Job is not *)
(* being collected, and no late step of its goroutine, no shutdown and no  *)
(* restart brings it back.                                                 *)
(***************************************************************************)
StopIsFinal ==
  \A j \in stopped : j \notin active /\ worker[j] \notin {"requested", "running"}

(***************************************************************************)
(* An accepted start is in the active file until it is stopped or fails by *)
(* itself, so every later process restores it, except when shutdown() had  *)
(* begun between the check of start() and its publication.                 *)
(***************************************************************************)
SurvivesUnlessLate == accepted \ late \subseteq active

(***************************************************************************)
(* stop() and shutdown() wait for a goroutine that exists, or that a start *)
(* is about to create, so that the wait can end; except that shutdown()    *)
(* may have found an activeJob whose start is then undone.                 *)
(***************************************************************************)
WaitsForAWorker ==
  \A j \in Jobs : j \in awaited \ undone \/ At(j, "wait") =>
    worker[j] # "none" \/ At(j, "checkpoint")

(***************************************************************************)
(* The runtime state tells the truth: a Job said to be starting, running   *)
(* or stopping is in the daemon's table, except after an undone start.     *)
(***************************************************************************)
BusyIsInTable ==
  phase # "draining" => \A j \in Jobs \ undone : state[j] \in Busy => j \in table

(***************************************************************************)
(* What others are told of the daemon is true: the two files cover every   *)
(* worker, and what is said to be busy is in the table.                    *)
(***************************************************************************)
StateTellsTruth == TypeOK /\ BlockersCoverWorkers /\ BusyIsInTable

(***************************************************************************)
(* The desired state is persisted before STARTING is published, so that a  *)
(* process that exits during the preparation leaves a Job that the next    *)
(* one restores (the comment in start()).                                  *)
(***************************************************************************)
StartSurvivesExit == accepted \subseteq active

(***************************************************************************)
(* After a stop command has succeeded the Job is not said to be busy.      *)
(***************************************************************************)
StoppedIsPublished == \A j \in stopped : state[j] \notin Busy

=============================================================================
