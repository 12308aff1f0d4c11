------------------------- MODULE OperationLockProofs -------------------------
(***************************************************************************)
(* Proofs about OperationLock for any set of processes, any number of      *)
(* attempts and any number of crashes.                                     *)
(***************************************************************************)
EXTENDS OperationLock, TLAPS

USE DEF Entries, Pcs, LookPcs, GuardPcs, HoldPcs, Live, guardVars, lockVars

-----------------------------------------------------------------------------
(* Documents and locals                                                    *)

\* A document names its writer and is full or partial, and is never NoDoc.
LEMMA DocFacts ==
  /\ NoDoc \notin Docs
  /\ OwnerJson \notin Procs
  /\ \A d \in Docs : d.by \in Procs /\ d.complete \in BOOLEAN
  /\ \A p \in Procs :
       /\ Full(p) \in Docs /\ Full(p).by = p /\ Full(p).complete
       /\ Partial(p) \in Docs /\ Partial(p).by = p /\ ~Partial(p).complete
  BY NamesAssumption DEF Docs, Full, Partial

\* The fields of the locals.
LEMMA LocalFields ==
  \A m \in Locals : /\ m.attempt \in 0 .. MaxAttempts
                    /\ m.entry \in Entries
                    /\ m.doc \in Docs \cup {NoDoc}
  BY DEF Locals

\* The locals at the start of acquire(), of an attempt and inside the guard.
LEMMA FreshLocals ==
  /\ NoLocals \in Locals
  /\ \A n \in 0 .. MaxAttempts : [NoLocals EXCEPT !.attempt = n] \in Locals
  /\ \A e \in Entries : /\ [NoLocals EXCEPT !.entry = e] \in Locals
                        /\ [NoLocals EXCEPT !.entry = e].entry = e
  <1>1. NoLocals \in Locals
    BY AttemptsAssumption DEF Locals, NoLocals
  <1>2. \A n \in 0 .. MaxAttempts : [NoLocals EXCEPT !.attempt = n] \in Locals
    BY AttemptsAssumption DEF Locals, NoLocals
  <1>3. \A e \in Entries : /\ [NoLocals EXCEPT !.entry = e] \in Locals
                           /\ [NoLocals EXCEPT !.entry = e].entry = e
    BY AttemptsAssumption DEF Locals, NoLocals
  <1>4. QED
    BY <1>1, <1>2, <1>3

\* Remembering what an inspection of the guard or of the lock returned.
LEMMA SeenLocals ==
  ASSUME NEW m \in Locals, NEW e \in Entries, NEW d \in Docs \cup {NoDoc}
  PROVE  /\ [m EXCEPT !.entry = e, !.doc = d] \in Locals
         /\ [m EXCEPT !.entry = e, !.doc = d].entry = e
         /\ [m EXCEPT !.entry = e, !.doc = d].doc = d
         /\ [m EXCEPT !.doc = d] \in Locals
         /\ [m EXCEPT !.doc = d].entry = m.entry
  BY DEF Locals

-----------------------------------------------------------------------------
(* Type correctness                                                        *)

\* The initial state is well typed: nobody has called acquire() yet.
LEMMA TypeInit == Init => TypeOK
  BY FreshLocals DEF Init, TypeOK

\* Every file-system call of a process, its death and the passing of a
\* lease keep the types of the variables.
LEMMA TypeStep == TypeOK /\ [Next]_vars => TypeOK'
  <1> SUFFICES ASSUME TypeOK, [Next]_vars PROVE TypeOK'
    OBVIOUS
  <1> USE DEF TypeOK, At, Goto, Remember, Leave, Touch, Enter
  <1>1. ASSUME NEW p \in Procs, Request(p) PROVE TypeOK'
    BY <1>1 DEF Request
  <1>2. ASSUME NEW p \in Procs, MakeGuard(p) PROVE TypeOK'
    <2>1. local[p].attempt + 1 \in 0 .. MaxAttempts
      BY <1>2, LocalFields, AttemptsAssumption DEF MakeGuard
    <2>2. local' \in [Procs -> Locals]
      BY <1>2, <2>1, FreshLocals DEF MakeGuard
    <2>3. guardStale' \in BOOLEAN
      BY <1>2 DEF MakeGuard
    <2>4. QED
      BY <1>2, <2>2, <2>3 DEF MakeGuard
  <1>3. ASSUME NEW p \in Procs, GiveUp(p) PROVE TypeOK'
    BY <1>3, FreshLocals DEF GiveUp
  <1>4. ASSUME NEW p \in Procs, InspectGuard(p) PROVE TypeOK'
    <2>1. pc' \in [Procs -> Pcs]
      BY <1>4 DEF InspectGuard
    <2>2. CASE \E e \in Present : Remember(p, [local[p] EXCEPT !.entry = e, !.doc = guardDoc[e]])
      <3>1. PICK e \in Entries : local' = [local EXCEPT ![p] =
                                   [local[p] EXCEPT !.entry = e, !.doc = guardDoc[e]]]
        BY <2>2 DEF Present
      <3>2. local[p] \in Locals /\ guardDoc[e] \in Docs \cup {NoDoc}
        OBVIOUS
      <3>3. [local[p] EXCEPT !.entry = e, !.doc = guardDoc[e]] \in Locals
        BY <3>2, SeenLocals
      <3>4. local' \in [Procs -> Locals]
        BY <3>1, <3>3
      <3>5. QED
        BY <1>4, <2>1, <3>4 DEF InspectGuard
    <2>3. CASE UNCHANGED local \/ Leave(p)
      <3>1. local' \in [Procs -> Locals]
        BY <2>3, FreshLocals
      <3>2. QED
        BY <1>4, <2>1, <3>1 DEF InspectGuard
    <2>4. QED
      BY <1>4, <2>2, <2>3 DEF InspectGuard
  <1>5. ASSUME NEW p \in Procs, InspectGuardAgain(p) PROVE TypeOK'
    BY <1>5, FreshLocals DEF InspectGuardAgain, Present
  <1>6. ASSUME NEW p \in Procs, UnlinkClaim(p) PROVE TypeOK'
    BY <1>6, LocalFields DEF UnlinkClaim
  <1>7. ASSUME NEW p \in Procs, RenameOwner(p) PROVE TypeOK'
    BY <1>7 DEF RenameOwner
  <1>8. ASSUME NEW p \in Procs, WriteClaim(p) PROVE TypeOK'
    BY <1>8, FreshLocals, DocFacts DEF WriteClaim
  <1>9. ASSUME NEW p \in Procs, CreateOwner(p) PROVE TypeOK'
    <2>1. guardDoc' \in [Entries -> Docs \cup {NoDoc}] /\ guardStale' \in BOOLEAN
      <3>1. CASE guardDir /\ guardDoc[OwnerJson] = NoDoc
        <4>1. guardDoc' = [guardDoc EXCEPT ![OwnerJson] = Partial(p)] /\ guardStale' = FALSE
          BY <1>9, <3>1, Zenon DEF CreateOwner
        <4>2. QED
          BY <4>1, DocFacts
      <3>2. CASE ~(guardDir /\ guardDoc[OwnerJson] = NoDoc)
        BY <1>9, <3>2 DEF CreateOwner
      <3>3. QED
        BY <3>1, <3>2
    <2>2. pc' \in [Procs -> Pcs]
      BY <1>9 DEF CreateOwner
    <2>3. QED
      BY <1>9, <2>1, <2>2 DEF CreateOwner
  <1>10. ASSUME NEW p \in Procs, WriteOwner(p) PROVE TypeOK'
    BY <1>10, FreshLocals, DocFacts DEF WriteOwner
  <1>11. ASSUME NEW p \in Procs, WriteOwnerFails(p) PROVE TypeOK'
    BY <1>11, FreshLocals, DocFacts DEF WriteOwnerFails
  <1>12. ASSUME NEW p \in Procs, InspectLock(p) PROVE TypeOK'
    <2>1. [local[p] EXCEPT !.doc = lock] \in Locals
      BY SeenLocals, LocalFields
    <2>2. local' \in [Procs -> Locals]
      BY <1>12, <2>1 DEF InspectLock
    <2>3. QED
      BY <1>12, <2>2 DEF InspectLock
  <1>13. ASSUME NEW p \in Procs, InspectLockAgain(p) PROVE TypeOK'
    BY <1>13 DEF InspectLockAgain
  <1>14. ASSUME NEW p \in Procs, UnlinkLock(p) PROVE TypeOK'
    BY <1>14 DEF UnlinkLock
  <1>15. ASSUME NEW p \in Procs, CreateLock(p) PROVE TypeOK'
    BY <1>15, DocFacts DEF CreateLock
  <1>16. ASSUME NEW p \in Procs, WriteLock(p) PROVE TypeOK'
    BY <1>16, DocFacts DEF WriteLock
  <1>17. ASSUME NEW p \in Procs, WriteLockFails(p) PROVE TypeOK'
    BY <1>17 DEF WriteLockFails
  <1>18. ASSUME NEW p \in Procs, CheckGuard(p) PROVE TypeOK'
    BY <1>18, FreshLocals DEF CheckGuard
  <1>19. ASSUME NEW p \in Procs, UnlinkGuard(p) PROVE TypeOK'
    BY <1>19, FreshLocals, LocalFields DEF UnlinkGuard
  <1>20. ASSUME NEW p \in Procs, RemoveGuard(p) PROVE TypeOK'
    BY <1>20, FreshLocals DEF RemoveGuard
  <1>21. ASSUME NEW p \in Procs, HoldStep(p) PROVE TypeOK'
    <2>1. CASE BeatCheck(p)
      BY <2>1 DEF BeatCheck
    <2>2. CASE BeatRename(p)
      BY <2>2, DocFacts DEF BeatRename
    <2>3. CASE ReleaseCheck(p)
      BY <2>3 DEF ReleaseCheck
    <2>4. CASE ReleaseUnlink(p)
      BY <2>4 DEF ReleaseUnlink
    <2>5. QED
      BY <1>21, <2>1, <2>2, <2>3, <2>4 DEF HoldStep
  <1>22. ASSUME NEW p \in Procs, Crash(p) PROVE TypeOK'
    BY <1>22 DEF Crash
  <1>23. CASE GuardLeaseExpires
    BY <1>23 DEF GuardLeaseExpires
  <1>24. CASE LockLeaseExpires
    BY <1>24 DEF LockLeaseExpires
  <1>25. CASE UNCHANGED vars
    BY <1>25 DEF vars
  <1>26. QED
    BY <1>1, <1>2, <1>3, <1>4, <1>5, <1>6, <1>7, <1>8, <1>9, <1>10, <1>11, <1>12,
       <1>13, <1>14, <1>15, <1>16, <1>17, <1>18, <1>19, <1>20, <1>21, <1>22, <1>23,
       <1>24, <1>25 DEF Next, AcquireStep

\* The variables keep their types: in particular a process is always before
\* one of the file-system calls of acquire(), the heartbeat or release().
THEOREM TypeCorrect == Spec => []TypeOK
  BY TypeInit, TypeStep, PTL DEF Spec
-----------------------------------------------------------------------------
\* Where the first inspection of the guard leads, whatever it has seen.
LEMMA InspectGuardMoves ==
  ASSUME NEW p \in Procs, InspectGuard(p)
  PROVE  /\ p \in Live /\ pc[p] = "inspect"
         /\ \/ \E to \in {"inspectAgain", "createOwner", "mkdir"} :
                 pc' = [pc EXCEPT ![p] = to]
            \/ pc' = [pc EXCEPT ![p] = IF p \in handle THEN "hold" ELSE "idle"]
         /\ UNCHANGED <<dead, handle, guardVars, lockVars, stolen>>
  BY DEF InspectGuard, At, Goto, Leave

\* Every step keeps the part of the invariant about the canonical lock, as
\* long as no takeover of the guard has moved another file.
LEMMA LockStep ==
  ASSUME TypeOK, TypeOK', GuardInv, LockInv, [Next]_vars, ~stolen, ~stolen'
  PROVE  LockInv'
  <1> USE DocFacts DEF TypeOK, At, Goto, Remember, Leave, Touch, Enter, Present, LockInv, HandleOwnsLock, LockHasOwner, GuardInv, HasGuardFile, Reclaimable, LockReclaimable, ConfirmedMissing
  <1>1. ASSUME NEW p \in Procs, Request(p) PROVE LockInv'
    BY <1>1 DEF Request
  <1>2. ASSUME NEW p \in Procs, MakeGuard(p) PROVE LockInv'
    BY <1>2 DEF MakeGuard
  <1>3. ASSUME NEW p \in Procs, GiveUp(p) PROVE LockInv'
    BY <1>3 DEF GiveUp
  <1>4. ASSUME NEW p \in Procs, InspectGuard(p) PROVE LockInv'
    BY <1>4, InspectGuardMoves
  <1>5. ASSUME NEW p \in Procs, InspectGuardAgain(p) PROVE LockInv'
    BY <1>5 DEF InspectGuardAgain
  <1>6. ASSUME NEW p \in Procs, UnlinkClaim(p) PROVE LockInv'
    BY <1>6 DEF UnlinkClaim
  <1>7. ASSUME NEW p \in Procs, RenameOwner(p) PROVE LockInv'
    BY <1>7 DEF RenameOwner
  <1>8. ASSUME NEW p \in Procs, WriteClaim(p) PROVE LockInv'
    BY <1>8 DEF WriteClaim
  <1>9. ASSUME NEW p \in Procs, CreateOwner(p) PROVE LockInv'
    BY <1>9 DEF CreateOwner
  <1>10. ASSUME NEW p \in Procs, WriteOwner(p) PROVE LockInv'
    BY <1>10 DEF WriteOwner
  <1>11. ASSUME NEW p \in Procs, WriteOwnerFails(p) PROVE LockInv'
    BY <1>11 DEF WriteOwnerFails
  <1>12. ASSUME NEW p \in Procs, InspectLock(p) PROVE LockInv'
    BY <1>12 DEF InspectLock
  <1>13. ASSUME NEW p \in Procs, InspectLockAgain(p) PROVE LockInv'
    BY <1>13 DEF InspectLockAgain, OneGuardFile, Behind
  <1>14. ASSUME NEW p \in Procs, UnlinkLock(p) PROVE LockInv'
    BY <1>14 DEF UnlinkLock
  <1>15. ASSUME NEW p \in Procs, CreateLock(p) PROVE LockInv'
    BY <1>15 DEF CreateLock, OneGuardFile, Behind
  <1>16. ASSUME NEW p \in Procs, WriteLock(p) PROVE LockInv'
    BY <1>16 DEF WriteLock
  <1>17. ASSUME NEW p \in Procs, WriteLockFails(p) PROVE LockInv'
    BY <1>17 DEF WriteLockFails
  <1>18. ASSUME NEW p \in Procs, CheckGuard(p) PROVE LockInv'
    BY <1>18 DEF CheckGuard
  <1>19. ASSUME NEW p \in Procs, UnlinkGuard(p) PROVE LockInv'
    BY <1>19 DEF UnlinkGuard
  <1>20. ASSUME NEW p \in Procs, RemoveGuard(p) PROVE LockInv'
    BY <1>20 DEF RemoveGuard
  <1>21. ASSUME NEW p \in Procs, BeatCheck(p) PROVE LockInv'
    BY <1>21 DEF BeatCheck
  <1>22. ASSUME NEW p \in Procs, BeatRename(p) PROVE LockInv'
    BY <1>22 DEF BeatRename
  <1>23. ASSUME NEW p \in Procs, ReleaseCheck(p) PROVE LockInv'
    BY <1>23 DEF ReleaseCheck
  <1>24. ASSUME NEW p \in Procs, ReleaseUnlink(p) PROVE LockInv'
    BY <1>24 DEF ReleaseUnlink
  <1>25. ASSUME NEW p \in Procs, Crash(p) PROVE LockInv'
    BY <1>25 DEF Crash
  <1>26. CASE GuardLeaseExpires
    BY <1>26 DEF GuardLeaseExpires, MidAttempt
  <1>27. CASE LockLeaseExpires
    BY <1>27 DEF LockLeaseExpires, MidAttempt
  <1>28. CASE UNCHANGED vars
    BY <1>28 DEF vars
  <1>29. QED
    BY <1>1, <1>2, <1>3, <1>4, <1>5, <1>6, <1>7, <1>8, <1>9, <1>10, <1>11, <1>12, <1>13, <1>14, <1>15, <1>16, <1>17, <1>18, <1>19, <1>20, <1>21, <1>22, <1>23, <1>24, <1>25, <1>26, <1>27, <1>28 DEF Next, AcquireStep, HoldStep

\* Every step keeps the part about the guard directory, as long as no
\* takeover has moved another file than the one it inspected.
LEMMA GuardStep ==
  ASSUME TypeOK, TypeOK', GuardInv, LockInv, [Next]_vars, ~stolen, ~stolen'
  PROVE  GuardInv'
  <1> USE DocFacts, LocalFields DEF TypeOK, At, Goto, Remember, Leave, Touch, Enter, Present, GuardInv, LookedAtDead, OneGuardFile, HasGuardFile, SeenEmpty, Looker, Behind, Reclaimable, ConfirmedMissing
  <1>1. ASSUME NEW p \in Procs, Request(p) PROVE GuardInv'
    BY <1>1 DEF Request
  <1>2. ASSUME NEW p \in Procs, MakeGuard(p) PROVE GuardInv'
    BY <1>2 DEF MakeGuard
  <1>3. ASSUME NEW p \in Procs, GiveUp(p) PROVE GuardInv'
    BY <1>3 DEF GiveUp
  <1>4. ASSUME NEW p \in Procs, InspectGuard(p) PROVE GuardInv'
    <2>1. CASE \E e \in Present :
                 /\ Takeable(e)
                 /\ Goto(p, "inspectAgain")
                 /\ Remember(p, [local[p] EXCEPT !.entry = e, !.doc = guardDoc[e]])
      <3>1. PICK e \in Entries :
              /\ guardDoc[e] # NoDoc
              /\ Takeable(e)
              /\ pc' = [pc EXCEPT ![p] = "inspectAgain"]
              /\ local' = [local EXCEPT ![p] =
                             [local[p] EXCEPT !.entry = e, !.doc = guardDoc[e]]]
        BY <2>1
      <3>2. guardStale /\ Behind(e, guardDoc[e]) \subseteq dead
        BY <3>1 DEF Takeable
      <3>3. local'[p].entry = e /\ local'[p].doc = guardDoc[e]
        <4>1. local[p] \in Locals /\ guardDoc[e] \in Docs \cup {NoDoc}
          OBVIOUS
        <4>2. /\ [local[p] EXCEPT !.entry = e, !.doc = guardDoc[e]].entry = e
              /\ [local[p] EXCEPT !.entry = e, !.doc = guardDoc[e]].doc = guardDoc[e]
          BY <4>1 DEF Locals
        <4>3. local'[p] = [local[p] EXCEPT !.entry = e, !.doc = guardDoc[e]]
          BY <3>1
        <4>4. QED
          BY <4>2, <4>3
      <3>4. UNCHANGED <<dead, guardVars>>
        BY <1>4, InspectGuardMoves
      <3>5. \A q \in Live : pc[q] # "createOwner"
        BY <3>1, <3>2
      <3>6. \A q \in Procs : q # p => pc'[q] = pc[q] /\ local'[q] = local[q]
        BY <3>1
      <3>7. LookedAtDead'
        <4> SUFFICES ASSUME NEW q \in Live', pc'[q] \in LookPcs
                     PROVE  /\ local'[q].doc # NoDoc
                            /\ Behind(local'[q].entry, local'[q].doc) \subseteq dead'
                            /\ pc'[q] = "renameOwner" => local'[q].entry = OwnerJson
                            /\ pc'[q] = "unlinkClaim" => local'[q].entry # OwnerJson
          BY DEF Behind
        <4>1. CASE q = p
          BY <4>1, <3>1, <3>2, <3>3, <3>4
        <4>2. CASE q # p
          BY <4>2, <3>4, <3>6
        <4>3. QED
          BY <4>1, <4>2
      <3>8. pc[p] = "inspect" /\ pc'[p] = "inspectAgain"
        <4>1. pc[p] = "inspect"
          BY <1>4, InspectGuardMoves
        <4>2. pc'[p] = "inspectAgain"
          BY <3>1
        <4>3. QED
          BY <4>1, <4>2
      <3>9. OneGuardFile'
        BY <3>4, <3>6, <3>8
      <3>10. HasGuardFile'
        BY <3>4, <3>6, <3>8
      <3>11. SeenEmpty'
        BY <3>4, <3>5, <3>6, <3>8
      <3>12. QED
        BY <3>7, <3>9, <3>10, <3>11
    <2>2. CASE Present = {} /\ Goto(p, IF guardDir THEN "createOwner" ELSE "mkdir") /\ UNCHANGED local
      <3>1. \A e \in Entries : guardDoc[e] = NoDoc
        BY <2>2
      <3>2. UNCHANGED <<dead, guardVars>> /\ pc[p] = "inspect"
        BY <1>4, InspectGuardMoves
      <3>3. QED
        BY <2>2, <3>1, <3>2
    <2>3. CASE Leave(p)
      <3>1. pc[p] = "inspect" /\ p \in Live /\ UNCHANGED <<dead, guardVars>>
        BY <1>4, InspectGuardMoves
      <3>2. pc'[p] \in {"hold", "idle"}
        BY <2>3
      <3>3. \A q \in Procs : q # p => pc'[q] = pc[q] /\ local'[q] = local[q]
        BY <2>3
      <3>4. QED
        BY <3>1, <3>2, <3>3
    <2>4. QED
      BY <1>4, <2>1, <2>2, <2>3 DEF InspectGuard
  <1>5. ASSUME NEW p \in Procs, InspectGuardAgain(p) PROVE GuardInv'
    <2>1. CASE \E e \in Present : Takeable(e) /\ SameGuard(p, e) /\ UNCHANGED local
                 /\ Goto(p, IF e = OwnerJson THEN "renameOwner" ELSE "unlinkClaim")
      <3>1. PICK e \in Entries :
              /\ guardDoc[e] # NoDoc
              /\ Takeable(e) /\ e = local[p].entry
              /\ pc' = [pc EXCEPT ![p] =
                          IF e = OwnerJson THEN "renameOwner" ELSE "unlinkClaim"]
              /\ UNCHANGED local
        BY <2>1 DEF SameGuard
      <3>2. UNCHANGED <<dead, guardVars>> /\ pc[p] = "inspectAgain" /\ p \in Live
        BY <1>5 DEF InspectGuardAgain
      <3>3. guardStale
        BY <3>1 DEF Takeable
      <3>4. \A q \in Live : pc[q] # "createOwner"
        BY <3>1, <3>3
      <3>5. QED
        BY <3>1, <3>2, <3>4
    <2>2. CASE Goto(p, "mkdir") /\ UNCHANGED local
      BY <1>5, <2>2 DEF InspectGuardAgain
    <2>3. CASE Leave(p)
      BY <1>5, <2>3 DEF InspectGuardAgain
    <2>4. QED
      BY <1>5, <2>1, <2>2, <2>3 DEF InspectGuardAgain
  <1>6. ASSUME NEW p \in Procs, UnlinkClaim(p) PROVE GuardInv'
    BY <1>6 DEF UnlinkClaim
  <1>7. ASSUME NEW p \in Procs, RenameOwner(p) PROVE GuardInv'
    BY <1>7 DEF RenameOwner
  <1>8. ASSUME NEW p \in Procs, WriteClaim(p) PROVE GuardInv'
    BY <1>8 DEF WriteClaim
  <1>9. ASSUME NEW p \in Procs, CreateOwner(p) PROVE GuardInv'
    BY <1>9 DEF CreateOwner
  <1>10. ASSUME NEW p \in Procs, WriteOwner(p) PROVE GuardInv'
    BY <1>10 DEF WriteOwner
  <1>11. ASSUME NEW p \in Procs, WriteOwnerFails(p) PROVE GuardInv'
    BY <1>11 DEF WriteOwnerFails
  <1>12. ASSUME NEW p \in Procs, InspectLock(p) PROVE GuardInv'
    BY <1>12 DEF InspectLock
  <1>13. ASSUME NEW p \in Procs, InspectLockAgain(p) PROVE GuardInv'
    BY <1>13 DEF InspectLockAgain
  <1>14. ASSUME NEW p \in Procs, UnlinkLock(p) PROVE GuardInv'
    BY <1>14 DEF UnlinkLock
  <1>15. ASSUME NEW p \in Procs, CreateLock(p) PROVE GuardInv'
    BY <1>15 DEF CreateLock
  <1>16. ASSUME NEW p \in Procs, WriteLock(p) PROVE GuardInv'
    BY <1>16 DEF WriteLock
  <1>17. ASSUME NEW p \in Procs, WriteLockFails(p) PROVE GuardInv'
    BY <1>17 DEF WriteLockFails
  <1>18. ASSUME NEW p \in Procs, CheckGuard(p) PROVE GuardInv'
    BY <1>18 DEF CheckGuard
  <1>19. ASSUME NEW p \in Procs, UnlinkGuard(p) PROVE GuardInv'
    BY <1>19 DEF UnlinkGuard
  <1>20. ASSUME NEW p \in Procs, RemoveGuard(p) PROVE GuardInv'
    BY <1>20 DEF RemoveGuard
  <1>21. ASSUME NEW p \in Procs, BeatCheck(p) PROVE GuardInv'
    BY <1>21 DEF BeatCheck
  <1>22. ASSUME NEW p \in Procs, BeatRename(p) PROVE GuardInv'
    BY <1>22 DEF BeatRename
  <1>23. ASSUME NEW p \in Procs, ReleaseCheck(p) PROVE GuardInv'
    BY <1>23 DEF ReleaseCheck
  <1>24. ASSUME NEW p \in Procs, ReleaseUnlink(p) PROVE GuardInv'
    BY <1>24 DEF ReleaseUnlink
  <1>25. ASSUME NEW p \in Procs, Crash(p) PROVE GuardInv'
    BY <1>25 DEF Crash
  <1>26. CASE GuardLeaseExpires
    BY <1>26 DEF GuardLeaseExpires, MidAttempt
  <1>27. CASE LockLeaseExpires
    BY <1>27 DEF LockLeaseExpires, MidAttempt
  <1>28. CASE UNCHANGED vars
    BY <1>28 DEF vars
  <1>29. QED
    BY <1>1, <1>2, <1>3, <1>4, <1>5, <1>6, <1>7, <1>8, <1>9, <1>10, <1>11, <1>12, <1>13, <1>14, <1>15, <1>16, <1>17, <1>18, <1>19, <1>20, <1>21, <1>22, <1>23, <1>24, <1>25, <1>26, <1>27, <1>28 DEF Next, AcquireStep, HoldStep

-----------------------------------------------------------------------------
(* The inductive invariant and what follows from it                        *)

\* With no guard, no lock and every process idle the invariant holds.
LEMMA IInvInit == Init => IInv
  <1> SUFFICES ASSUME Init PROVE IInv
    OBVIOUS
  <1>1. TypeOK
    BY TypeInit
  <1>2. GuardInv
    BY DEF Init, GuardInv, LookedAtDead, OneGuardFile, HasGuardFile, SeenEmpty, Present
  <1>3. LockInv
    BY DEF Init, LockInv, HandleOwnsLock, LockHasOwner
  <1>4. QED
    BY <1>1, <1>2, <1>3 DEF IInv

\* A takeover of the wrong file is never forgotten.
LEMMA StolenForGood == stolen /\ [Next]_vars => stolen'
  BY DEF Next, vars, AcquireStep, HoldStep, Request, MakeGuard, GiveUp, InspectGuard,
     InspectGuardAgain, UnlinkClaim, RenameOwner, WriteClaim, CreateOwner, WriteOwner,
     WriteOwnerFails, InspectLock, InspectLockAgain, UnlinkLock, CreateLock, WriteLock,
     WriteLockFails, CheckGuard, UnlinkGuard, RemoveGuard, BeatCheck, BeatRename,
     ReleaseCheck, ReleaseUnlink, Crash, GuardLeaseExpires, LockLeaseExpires

\* The invariant is inductive: it needs nothing but itself.
LEMMA IInvStep == IInv /\ [Next]_vars => IInv'
  <1> SUFFICES ASSUME IInv, [Next]_vars PROVE IInv'
    OBVIOUS
  <1>1. TypeOK /\ TypeOK'
    BY TypeStep DEF IInv
  <1>2. CASE stolen'
    BY <1>1, <1>2 DEF IInv
  <1>3. CASE ~stolen'
    <2>1. ~stolen
      BY <1>3, StolenForGood
    <2>2. GuardInv /\ LockInv
      BY <2>1 DEF IInv
    <2>3. GuardInv'
      BY <1>1, <1>3, <2>1, <2>2, GuardStep
    <2>4. LockInv'
      BY <1>1, <1>3, <2>1, <2>2, LockStep
    <2>5. QED
      BY <1>1, <2>3, <2>4 DEF IInv
  <1>4. QED
    BY <1>2, <1>3

\* The inductive invariant holds in every reachable state.
THEOREM Inductive == Spec => []IInv
  BY IInvInit, IInvStep, PTL DEF Spec

\* Two live processes never hold the lock of one name together, unless a
\* takeover of the guard has renamed another file than it had inspected.
THEOREM Exclusive == Spec => []ExclusiveUnlessStolen
  <1>1. IInv => ExclusiveUnlessStolen
    BY DocFacts DEF IInv, TypeOK, LockInv, HandleOwnsLock, ExclusiveUnlessStolen,
       MutualExclusion
  <1>2. QED
    BY <1>1, Inductive, PTL

\* With the same exception one process at a time is inside the guard: the
\* guard file of each is the only one, and it names its process.
THEOREM ExclusiveGuard == Spec => []GuardExclusive
  <1>1. ASSUME IInv, ~stolen, NEW p \in Live, NEW q \in Live,
               pc[p] \in GuardPcs, pc[q] \in GuardPcs
        PROVE  p = q
    BY <1>1, DocFacts DEF IInv, TypeOK, GuardInv, OneGuardFile, HasGuardFile, Behind, Present
  <1>2. IInv => GuardExclusive
    BY <1>1 DEF GuardExclusive
  <1>3. QED
    BY <1>2, Inductive, PTL

\* With the same exception the guard directory never holds two files, so
\* that no request meets an ambiguous guard.
THEOREM NeverAmbiguous == Spec => []GuardNeverAmbiguous
  <1>1. IInv => GuardNeverAmbiguous
    BY DEF IInv, GuardInv, OneGuardFile, GuardNeverAmbiguous
  <1>2. QED
    BY <1>1, Inductive, PTL

\* In a state of the invariant, a step leaves the lock file of a live holder
\* alone unless that holder gives its handle back.
LEMMA LockSurvives ==
  ASSUME IInv, IInv', [Next]_vars, ~stolen',
         NEW p \in handle \ dead, lock = Full(p)
  PROVE  lock' = Full(p) \/ p \notin handle'
  <1>1. /\ TypeOK /\ TypeOK'
        /\ LockInv /\ LockInv'
        /\ ~stolen
    BY StolenForGood DEF IInv
  <1>2. CASE p \notin dead'
    BY <1>1, <1>2 DEF LockInv, HandleOwnsLock, TypeOK
  <1>3. CASE p \in dead'
    <2>1. PICK q \in Procs : Crash(q)
      BY <1>3, <1>1 DEF Next, vars, AcquireStep, HoldStep, Request, MakeGuard, GiveUp,
         InspectGuard, InspectGuardAgain, UnlinkClaim, RenameOwner, WriteClaim,
         CreateOwner, WriteOwner, WriteOwnerFails, InspectLock, InspectLockAgain,
         UnlinkLock, CreateLock, WriteLock, WriteLockFails, CheckGuard, UnlinkGuard,
         RemoveGuard, BeatCheck, BeatRename, ReleaseCheck, ReleaseUnlink,
         GuardLeaseExpires, LockLeaseExpires
    <2>2. QED
      BY <2>1 DEF Crash
  <1>4. QED
    BY <1>2, <1>3

\* With the same exception nobody but its owner removes or replaces the lock
\* file of a live holder.
THEOREM OwnerReleases == Spec => OnlyOwnerReleases
  <1>1. IInv /\ IInv' /\ [Next]_vars =>
          [~stolen' => \A p \in handle \ dead :
             lock = Full(p) => lock' = Full(p) \/ p \notin handle']_vars
    BY LockSurvives
  <1>2. QED
    BY <1>1, Inductive, PTL DEF Spec, OnlyOwnerReleases

=============================================================================
