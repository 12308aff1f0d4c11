--------------------------- MODULE MCLockRecovery ---------------------------
(* What the survivors of a crash do with the files it left behind.         *)
EXTENDS OperationLock

(***************************************************************************)
(* Recovery: the first process has run alone and died before the call      *)
(* `there' of its acquire() or while it held the lock; the others take it  *)
(* from there.                                                             *)
(***************************************************************************)
CONSTANTS First, Survivor

DiedBefore(there) ==
  /\ pc = [p \in Procs |-> IF p = First THEN there ELSE "idle"]
  /\ dead = {First}
  /\ handle = (IF there \in {"checkGuard", "rmdir", "hold"} THEN {First} ELSE {})
  /\ local = [p \in Procs |-> NoLocals]
  /\ guardDir = (there # "hold")
  /\ guardDoc = [e \in Entries |->
       IF e # OwnerJson \/ there \in {"createOwner", "rmdir", "hold"} THEN NoDoc
       ELSE IF there = "writeOwner" THEN Partial(First) ELSE Full(First)]
  /\ guardStale = FALSE
  /\ lock = (IF there = "writeLock" THEN Partial(First)
             ELSE IF there \in {"checkGuard", "rmdir", "hold"} THEN Full(First) ELSE NoDoc)
  /\ lockStale = FALSE
  /\ stolen = FALSE

RecoveryInit ==
  \E there \in {"createOwner", "writeOwner", "inspectLock", "writeLock",
                "checkGuard", "rmdir", "hold"} : DiedBefore(there)

RecoverySpec == RecoveryInit /\ [][Next]_vars /\ Fairness(Survivor)

(***************************************************************************)
(* Whatever a dead process has left in the guard or in the lock, a process *)
(* that keeps asking while nobody else is alive gets the lock in the end:  *)
(* the leftovers of acquire() are removed once their lease is over.        *)
(***************************************************************************)
SurvivorAcquires ==
  (dead = Procs \ {Survivor}) ~> (Survivor \in handle \cup dead)
=============================================================================
