--------------------------- MODULE OperationLock ---------------------------
(***************************************************************************)
(* The cross-process operation lock of cgi-bin/src/jobs/operation-lock.js, *)
(* for one lock name.  Every CGI request is a process of its own; the only *)
(* state the processes share is the file system:                           *)
(*                                                                         *)
(*   <name>.lock          the canonical lock, a file holding its owner     *)
(*   <name>.lock.reclaim  the guard, a directory that serialises acquire;  *)
(*                        it holds owner.json, or claim-<token>.json after *)
(*                        a takeover                                       *)
(*                                                                         *)
(* One action is one file-system call (or one read with the pure decision  *)
(* that follows it), so the processes interleave between any two calls and *)
(* may die between any two calls.                                          *)
(*                                                                         *)
(* A document is abstracted to the process that wrote it and to whether    *)
(* its content is complete: `openSync(path, "wx")' makes the file visible  *)
(* before writeSync fills it.  A process makes one document of each kind   *)
(* per request and only dead processes' documents are ever matched again,  *)
(* so the process stands for the random token.                             *)
(*                                                                         *)
(* Time is abstracted to two flags that say the newest activity of the     *)
(* guard (the lock) is a lease old.  They may be raised at any moment with *)
(* one exception, the timing assumption of the module: no live process     *)
(* spends a whole lease (30 s) inside one guard attempt.                   *)
(***************************************************************************)
EXTENDS Naturals, FiniteSets

CONSTANTS
  Procs,      (* the CGI processes that want the lock                      *)
  MaxAttempts,(* MAX_ACQUIRE_ATTEMPTS                                      *)
  OwnerJson,  (* the guard entry owner.json                                *)
  NoDoc       (* the absence of a file                                     *)

ASSUME AttemptsAssumption == MaxAttempts \in Nat \ {0}

ASSUME NamesAssumption ==
  /\ OwnerJson \notin Procs
  /\ NoDoc \notin [by : Procs, complete : BOOLEAN]

VARIABLES
  pc,         (* the next file-system call of each process                 *)
  dead,       (* processes that have died                                  *)
  handle,     (* processes that acquire() has given a handle               *)
  local,      (* the local variables of its acquire(): attempts begun, the *)
              (* last inspection, and the guard entry it has created       *)
  guardDir,   (* the guard directory exists                                *)
  guardDoc,   (* its entries; claim-<token>.json of p is the entry p       *)
  guardStale, (* the guard's last activity is a lease old                  *)
  lock,       (* the canonical lock file                                   *)
  lockStale,  (* the lock's last activity is a lease old                   *)
  stolen      (* history: a takeover moved another file than it inspected  *)

vars == <<pc, dead, handle, local, guardDir, guardDoc, guardStale,
          lock, lockStale, stolen>>

guardVars == <<guardDir, guardDoc, guardStale>>
lockVars  == <<lock, lockStale>>

Entries  == Procs \cup {OwnerJson}
Docs     == [by : Procs, complete : BOOLEAN]
Partial(p) == [by |-> p, complete |-> FALSE]
Full(p)    == [by |-> p, complete |-> TRUE]

Locals == [attempt : 0 .. MaxAttempts, entry : Entries, doc : Docs \cup {NoDoc}]
NoLocals == [attempt |-> 0, entry |-> OwnerJson, doc |-> NoDoc]

\* Calls made while looking at the guard of somebody else.
LookPcs == {"inspectAgain", "unlinkClaim", "renameOwner"}
\* Calls made as the owner of the guard.
GuardPcs == {"writeOwner", "writeClaim", "inspectLock", "inspectLockAgain",
             "unlinkLock", "createLock", "writeLock", "checkGuard", "unlinkGuard"}
HoldPcs  == {"hold", "beat", "unlinkOwn"}
Pcs == {"idle", "mkdir", "inspect", "createOwner", "rmdir"}
         \cup LookPcs \cup GuardPcs \cup HoldPcs

TypeOK ==
  /\ pc \in [Procs -> Pcs]
  /\ dead \in SUBSET Procs
  /\ handle \in SUBSET Procs
  /\ local \in [Procs -> Locals]
  /\ guardDir \in BOOLEAN
  /\ guardDoc \in [Entries -> Docs \cup {NoDoc}]
  /\ guardStale \in BOOLEAN
  /\ lock \in Docs \cup {NoDoc}
  /\ lockStale \in BOOLEAN
  /\ stolen \in BOOLEAN

Live == Procs \ dead

Present == {e \in Entries : guardDoc[e] # NoDoc}

Init ==
  /\ pc = [p \in Procs |-> "idle"]
  /\ dead = {}
  /\ handle = {}
  /\ local = [p \in Procs |-> NoLocals]
  /\ guardDir = FALSE
  /\ guardDoc = [e \in Entries |-> NoDoc]
  /\ guardStale = FALSE
  /\ lock = NoDoc
  /\ lockStale = FALSE
  /\ stolen = FALSE

-----------------------------------------------------------------------------
At(p, here) == p \in Live /\ pc[p] = here

Goto(p, there) == pc' = [pc EXCEPT ![p] = there]

Remember(p, new) == local' = [local EXCEPT ![p] = new]

\* Leaving acquire(): with the handle it returned, or with JOB_CONFLICT.
Leave(p) ==
  /\ Goto(p, IF p \in handle THEN "hold" ELSE "idle")
  /\ Remember(p, NoLocals)

\* Every change of the guard directory renews its last activity.
Touch(doc) == guardDoc' = doc /\ guardStale' = FALSE

\* Mutant: the owner's PID is not looked at.
ConfirmedMissing_NoPidCheck(p) == TRUE

\* isProcessAlive and isConfirmedMissingProcess: only a process known to be
\* gone counts as missing.
ConfirmedMissing(p) == p \in dead

\* Mutant: an owner known to be gone is not given its lease.
Reclaimable_NoLease(readable, doc, stale) == readable => ConfirmedMissing(doc.by)

\* Mutant: a document that was never completed is not reclaimed.
Reclaimable_OnlyReadable(readable, doc, stale) ==
  stale /\ readable /\ ConfirmedMissing(doc.by)

\* requireReclaimable: a lease without activity, and then either an unreadable
\* document or an owner that is known to be gone.
Reclaimable(readable, doc, stale) ==
  /\ stale
  /\ readable => ConfirmedMissing(doc.by)

\* readJsonOwner in inspectGuard: a claim file has to name its own token.
ReadableIn(entry, doc) ==
  /\ doc.complete
  /\ entry # OwnerJson => doc.by = entry

\* inspectGuard: an entry can be taken over only when it is the only one.
Takeable(entry) ==
  /\ guardDir /\ Present = {entry}
  /\ Reclaimable(ReadableIn(entry, guardDoc[entry]), guardDoc[entry], guardStale)

\* Mutant: an old lock is taken from an owner that still runs.
LockReclaimable_ByAge == lockStale

LockReclaimable == Reclaimable(lock.complete, lock, lockStale)

-----------------------------------------------------------------------------
(* acquireGuard                                                            *)

\* acquire(name) is called by a request.
Request(p) ==
  /\ At(p, "idle")
  /\ Goto(p, "mkdir")
  /\ UNCHANGED <<dead, handle, local, guardVars, lockVars, stolen>>

\* An attempt starts by making the directory, which may exist already.
MakeGuard(p) ==
  /\ At(p, "mkdir")
  /\ local[p].attempt < MaxAttempts
  /\ Goto(p, "inspect")
  /\ Remember(p, [NoLocals EXCEPT !.attempt = local[p].attempt + 1])
  /\ guardDir' = TRUE
  /\ guardStale' = (guardDir /\ guardStale)
  /\ UNCHANGED <<dead, handle, guardDoc, lockVars, stolen>>

\* Every attempt came to nothing: JOB_CONFLICT.
GiveUp(p) ==
  /\ At(p, "mkdir")
  /\ local[p].attempt = MaxAttempts
  /\ Leave(p)
  /\ UNCHANGED <<dead, handle, guardVars, lockVars, stolen>>

\* The first inspection of an attempt: look again, create owner.json, try
\* again when the directory is gone, or JOB_CONFLICT.
InspectGuard(p) ==
  /\ At(p, "inspect")
  /\ \/ \E e \in Present :
          /\ Takeable(e)
          /\ Goto(p, "inspectAgain")
          /\ Remember(p, [local[p] EXCEPT !.entry = e, !.doc = guardDoc[e]])
     \/ /\ Present = {}
        /\ Goto(p, IF guardDir THEN "createOwner" ELSE "mkdir")
        /\ UNCHANGED local
     \/ /\ Present # {} /\ \A e \in Present : ~Takeable(e)
        /\ Leave(p)
  /\ UNCHANGED <<dead, handle, guardVars, lockVars, stolen>>

\* The entry and, when it could be read, its owner have to be the same again.
SameGuard(p, e) ==
  /\ e = local[p].entry
  /\ ReadableIn(e, local[p].doc) =>
       ReadableIn(e, guardDoc[e]) /\ guardDoc[e].by = local[p].doc.by

InspectGuardAgain(p) ==
  /\ At(p, "inspectAgain")
  /\ \/ \E e \in Present :
          /\ Takeable(e) /\ SameGuard(p, e)
          /\ Goto(p, IF e = OwnerJson THEN "renameOwner" ELSE "unlinkClaim")
          /\ UNCHANGED local
     \/ /\ Present = {}
        /\ Goto(p, "mkdir")
        /\ UNCHANGED local
     \/ /\ Present # {} /\ \A e \in Present : ~(Takeable(e) /\ SameGuard(p, e))
        /\ Leave(p)
  /\ UNCHANGED <<dead, handle, guardVars, lockVars, stolen>>

\* A claim a dead process left is removed under its own name; then retry.
UnlinkClaim(p) ==
  /\ At(p, "unlinkClaim")
  /\ Goto(p, "mkdir")
  /\ IF guardDoc[local[p].entry] = NoDoc
     THEN UNCHANGED <<guardDoc, guardStale>>
     ELSE Touch([guardDoc EXCEPT ![local[p].entry] = NoDoc])
  /\ UNCHANGED <<dead, handle, local, guardDir, lockVars, stolen>>

\* The takeover renames whatever owner.json is by now; the file that moves
\* need not be the one that was inspected.
RenameOwner(p) ==
  /\ At(p, "renameOwner")
  /\ IF guardDoc[OwnerJson] = NoDoc
     THEN /\ Goto(p, "mkdir")
          /\ UNCHANGED <<guardDoc, guardStale, stolen>>
     ELSE /\ Goto(p, "writeClaim")
          /\ Touch([guardDoc EXCEPT ![p] = guardDoc[OwnerJson], ![OwnerJson] = NoDoc])
          /\ stolen' = (stolen \/ guardDoc[OwnerJson].by # local[p].doc.by)
  /\ UNCHANGED <<dead, handle, local, guardDir, lockVars>>

\* From here on the locals are the guard entry and what is read of the lock.
Enter(p, entry) ==
  /\ Goto(p, "inspectLock")
  /\ Remember(p, [NoLocals EXCEPT !.entry = entry])

\* writeExisting creates the claim anew when it is gone.
WriteClaim(p) ==
  /\ At(p, "writeClaim")
  /\ Enter(p, p)
  /\ Touch([guardDoc EXCEPT ![p] = Full(p)])
  /\ UNCHANGED <<dead, handle, guardDir, lockVars, stolen>>

\* Mutant: owner.json is opened without the exclusive flag.
CreateOwner_NotExclusive(p) ==
  /\ At(p, "createOwner")
  /\ guardDir
  /\ Goto(p, "writeOwner")
  /\ Touch([guardDoc EXCEPT ![OwnerJson] = Partial(p)])
  /\ UNCHANGED <<dead, handle, local, guardDir, lockVars, stolen>>

\* openSync(owner.json, "wx") in writeExclusive.
CreateOwner(p) ==
  /\ At(p, "createOwner")
  /\ IF guardDir /\ guardDoc[OwnerJson] = NoDoc
     THEN /\ Goto(p, "writeOwner")
          /\ Touch([guardDoc EXCEPT ![OwnerJson] = Partial(p)])
     ELSE /\ Goto(p, "mkdir")
          /\ UNCHANGED <<guardDoc, guardStale>>
  /\ UNCHANGED <<dead, handle, local, guardDir, lockVars, stolen>>

\* writeAll follows the open file wherever a rename has put it.
WriteOwner(p) ==
  /\ At(p, "writeOwner")
  /\ Enter(p, OwnerJson)
  /\ Touch([e \in Entries |->
              IF guardDoc[e] = Partial(p) THEN Full(p) ELSE guardDoc[e]])
  /\ UNCHANGED <<dead, handle, guardDir, lockVars, stolen>>

\* A write that fails removes owner.json by name and fails the request.
WriteOwnerFails(p) ==
  /\ At(p, "writeOwner")
  /\ Leave(p)
  /\ Touch([guardDoc EXCEPT ![OwnerJson] = NoDoc])
  /\ UNCHANGED <<dead, handle, guardDir, lockVars, stolen>>

-----------------------------------------------------------------------------
(* acquire, inside the guard                                               *)

\* inspectLock and requireReclaimable: a conflict still releases the guard.
InspectLock(p) ==
  /\ At(p, "inspectLock")
  /\ \/ /\ lock = NoDoc
        /\ Goto(p, "createLock")
     \/ /\ lock # NoDoc
        /\ Goto(p, IF LockReclaimable THEN "inspectLockAgain" ELSE "checkGuard")
  /\ Remember(p, [local[p] EXCEPT !.doc = lock])
  /\ UNCHANGED <<dead, handle, guardVars, lockVars, stolen>>

\* removeStaleLock inspects again and wants the owner it read before.
SameLock(p) == local[p].doc.complete => lock.complete /\ lock.by = local[p].doc.by

InspectLockAgain(p) ==
  /\ At(p, "inspectLockAgain")
  /\ \/ /\ lock = NoDoc
        /\ Goto(p, "createLock")
     \/ /\ lock # NoDoc
        /\ Goto(p, IF LockReclaimable /\ SameLock(p) THEN "unlinkLock" ELSE "checkGuard")
  /\ UNCHANGED <<dead, handle, local, guardVars, lockVars, stolen>>

UnlinkLock(p) ==
  /\ At(p, "unlinkLock")
  /\ Goto(p, "createLock")
  /\ lock' = NoDoc
  /\ lockStale' = FALSE
  /\ UNCHANGED <<dead, handle, local, guardVars, stolen>>

\* openSync(lockPath, "wx"); a collision is a conflict.
CreateLock(p) ==
  /\ At(p, "createLock")
  /\ IF lock = NoDoc
     THEN /\ Goto(p, "writeLock")
          /\ lock' = Partial(p)
          /\ lockStale' = FALSE
     ELSE /\ Goto(p, "checkGuard")
          /\ UNCHANGED lockVars
  /\ UNCHANGED <<dead, handle, local, guardVars, stolen>>

\* The document is complete and createHandle starts the heartbeat.  The open
\* file may have been unlinked meanwhile.
WriteLock(p) ==
  /\ At(p, "writeLock")
  /\ Goto(p, "checkGuard")
  /\ lock' = IF lock = Partial(p) THEN Full(p) ELSE lock
  /\ handle' = handle \cup {p}
  /\ UNCHANGED <<dead, local, guardVars, lockStale, stolen>>

\* A failed write removes the file by name.
WriteLockFails(p) ==
  /\ At(p, "writeLock")
  /\ Goto(p, "checkGuard")
  /\ lock' = NoDoc
  /\ lockStale' = FALSE
  /\ UNCHANGED <<dead, handle, local, guardVars, stolen>>

-----------------------------------------------------------------------------
(* releaseGuard                                                            *)

CheckGuard(p) ==
  /\ At(p, "checkGuard")
  /\ IF guardDoc[local[p].entry] = Full(p)
     THEN Goto(p, "unlinkGuard") /\ UNCHANGED local
     ELSE Leave(p)
  /\ UNCHANGED <<dead, handle, guardVars, lockVars, stolen>>

UnlinkGuard(p) ==
  /\ At(p, "unlinkGuard")
  /\ IF guardDoc[local[p].entry] = NoDoc
     THEN Leave(p) /\ UNCHANGED <<guardDoc, guardStale>>
     ELSE /\ Goto(p, "rmdir")
          /\ Remember(p, NoLocals)
          /\ Touch([guardDoc EXCEPT ![local[p].entry] = NoDoc])
  /\ UNCHANGED <<dead, handle, guardDir, lockVars, stolen>>

\* Mutant: the directory is removed with what it holds by now.
RemoveGuard_Recursive(p) ==
  /\ At(p, "rmdir")
  /\ Leave(p)
  /\ guardDir' = FALSE
  /\ UNCHANGED <<dead, handle, guardDoc, guardStale, lockVars, stolen>>

\* rmdir fails, and is ignored, when somebody has put an entry there.
RemoveGuard(p) ==
  /\ At(p, "rmdir")
  /\ Leave(p)
  /\ guardDir' = (guardDir /\ Present # {})
  /\ UNCHANGED <<dead, handle, guardDoc, guardStale, lockVars, stolen>>

-----------------------------------------------------------------------------
(* createHandle                                                            *)

\* The heartbeat has written its temporary file and reads the lock once more.
BeatCheck(p) ==
  /\ At(p, "hold")
  /\ lock = Full(p)
  /\ Goto(p, "beat")
  /\ UNCHANGED <<dead, handle, local, guardVars, lockVars, stolen>>

BeatRename(p) ==
  /\ At(p, "beat")
  /\ Goto(p, "hold")
  /\ lock' = Full(p)
  /\ lockStale' = FALSE
  /\ UNCHANGED <<dead, handle, local, guardVars, stolen>>

\* release(): removeOwnedFile reads the lock and unlinks it when it is its own.
ReleaseCheck(p) ==
  /\ At(p, "hold")
  /\ IF lock = Full(p)
     THEN Goto(p, "unlinkOwn") /\ UNCHANGED handle
     ELSE Goto(p, "idle") /\ handle' = handle \ {p}
  /\ UNCHANGED <<dead, local, guardVars, lockVars, stolen>>

ReleaseUnlink(p) ==
  /\ At(p, "unlinkOwn")
  /\ Goto(p, "idle")
  /\ handle' = handle \ {p}
  /\ lock' = NoDoc
  /\ lockStale' = FALSE
  /\ UNCHANGED <<dead, local, guardVars, stolen>>

-----------------------------------------------------------------------------
(* The environment                                                         *)

Crash(p) ==
  /\ p \in Live
  /\ dead' = dead \cup {p}
  /\ UNCHANGED <<pc, handle, local, guardVars, lockVars, stolen>>

MidAttempt(p) == p \in Live /\ pc[p] \in LookPcs \cup GuardPcs \cup {"createOwner"}

GuardLeaseExpires ==
  /\ guardDir /\ ~guardStale
  /\ \A p \in Procs : ~MidAttempt(p)
  /\ guardStale' = TRUE
  /\ UNCHANGED <<pc, dead, handle, local, guardDir, guardDoc, lockVars, stolen>>

LockLeaseExpires ==
  /\ lock # NoDoc /\ ~lockStale
  /\ ~MidAttempt(lock.by)
  /\ lockStale' = TRUE
  /\ UNCHANGED <<pc, dead, handle, local, guardVars, lock, stolen>>

AcquireStep(p) ==
  \/ MakeGuard(p) \/ GiveUp(p) \/ InspectGuard(p) \/ InspectGuardAgain(p)
  \/ UnlinkClaim(p) \/ RenameOwner(p) \/ WriteClaim(p)
  \/ CreateOwner(p) \/ WriteOwner(p)
  \/ InspectLock(p) \/ InspectLockAgain(p) \/ UnlinkLock(p)
  \/ CreateLock(p) \/ WriteLock(p)
  \/ CheckGuard(p) \/ UnlinkGuard(p) \/ RemoveGuard(p)

HoldStep(p) == BeatCheck(p) \/ BeatRename(p) \/ ReleaseCheck(p) \/ ReleaseUnlink(p)

Next ==
  \/ \E p \in Procs :
       \/ Request(p) \/ AcquireStep(p) \/ HoldStep(p)
       \/ WriteOwnerFails(p) \/ WriteLockFails(p)
       \/ Crash(p)
  \/ GuardLeaseExpires
  \/ LockLeaseExpires

Spec == Init /\ [][Next]_vars

-----------------------------------------------------------------------------
(* Properties                                                              *)

(***************************************************************************)
(* Exactly one of the contenders gets the lock: two live processes never   *)
(* hold handles of one name together (BE_DESIGN.md on acquire).            *)
(***************************************************************************)
MutualExclusion == \A p, q \in handle \ dead : p = q

(***************************************************************************)
(* The lock serialises requests: two live processes never hold handles of  *)
(* one name, however the processes of earlier requests have died, unless a *)
(* takeover has renamed a guard file other than the one it inspected       *)
(* (acquireGuard inspects owner.json by content and renames it by name).   *)
(***************************************************************************)
ExclusiveUnlessStolen == ~stolen => MutualExclusion

(***************************************************************************)
(* The guard itself: only one live process is between obtaining the guard  *)
(* and giving it back, with the same exception.                            *)
(***************************************************************************)
GuardExclusive ==
  ~stolen =>
    \A p, q \in Live : pc[p] \in GuardPcs /\ pc[q] \in GuardPcs => p = q

(***************************************************************************)
(* The guard never holds two files, which inspectGuard calls ambiguous and *)
(* no process ever clears: that would refuse every later request.          *)
(***************************************************************************)
GuardNeverAmbiguous == ~stolen => \A e, f \in Present : e = f

(***************************************************************************)
(* While a live holder's own file is the lock, no step of anybody else --  *)
(* a reclaim, a late heartbeat, a release of an earlier owner, a failed    *)
(* write -- replaces or removes it: it goes only when its owner lets go.   *)
(***************************************************************************)
OnlyOwnerReleases ==
  [][~stolen' => \A p \in handle \ dead :
        lock = Full(p) => lock' = Full(p) \/ p \notin handle']_vars

-----------------------------------------------------------------------------
(***************************************************************************)
(* The inductive invariant behind them.                                    *)
(***************************************************************************)

\* Looker(q): a live process whose inspected guard file is still there.
Looker(q) ==
  /\ q \in Live /\ pc[q] \in LookPcs
  /\ guardDoc[local[q].entry] # NoDoc
  /\ guardDoc[local[q].entry].by = local[q].doc.by

\* The processes a guard file is traced to: its writer and, of a claim, the
\* process it is named for.
Behind(e, doc) == {doc.by} \cup ({e} \ {OwnerJson})

\* What a process inspected and means to take over was a dead process's.
LookedAtDead ==
  \A q \in Live : pc[q] \in LookPcs =>
    /\ local[q].doc # NoDoc /\ Behind(local[q].entry, local[q].doc) \subseteq dead
    /\ pc[q] = "renameOwner" => local[q].entry = OwnerJson
    /\ pc[q] = "unlinkClaim" => local[q].entry # OwnerJson

\* The guard holds one file, inside its directory; a live process's file
\* means that the process is in the guard, and a stale file is a dead one's.
OneGuardFile ==
  \A e \in Present :
    /\ guardDir
    /\ \A f \in Present : e = f
    /\ \A p \in Behind(e, guardDoc[e]) :
         /\ p \in Live => pc[p] \in GuardPcs
         /\ guardStale => p \in dead

\* A process in the guard has its file there.
HasGuardFile ==
  \A p \in Live : pc[p] \in GuardPcs =>
    CASE pc[p] = "writeOwner" -> guardDoc[OwnerJson] = Partial(p)
      [] pc[p] = "writeClaim" -> guardDoc[p] # NoDoc /\ guardDoc[p].by \in dead
      [] OTHER -> /\ local[p].entry \in {OwnerJson, p}
                  /\ guardDoc[local[p].entry] = Full(p)

\* After a process has seen the guard empty, any file in it is new.
SeenEmpty ==
  \A p \in Live : pc[p] = "createOwner" =>
    \A e \in Present : e = OwnerJson /\ ~guardStale /\ \A q \in Procs : ~Looker(q)

GuardInv == LookedAtDead /\ OneGuardFile /\ HasGuardFile /\ SeenEmpty

\* A live process with a handle owns the lock, and has left acquire().
HandleOwnsLock ==
  \A p \in Live :
    /\ p \in handle => /\ lock = Full(p)
                       /\ pc[p] \in HoldPcs \cup {"checkGuard", "unlinkGuard", "rmdir"}
    /\ pc[p] \in HoldPcs => p \in handle
    /\ pc[p] = "writeLock" => lock = Partial(p)
    /\ pc[p] = "unlinkLock" /\ lock # NoDoc => lock.by \in dead

\* A live process's lock file is one it is writing or holds.
LockHasOwner ==
  lock # NoDoc /\ lock.by \in Live => lock.by \in handle \/ pc[lock.by] = "writeLock"

LockInv == HandleOwnsLock /\ LockHasOwner

IInv == TypeOK /\ (~stolen => GuardInv /\ LockInv)

-----------------------------------------------------------------------------
(***************************************************************************)
(* What the code and its host owe a process p that lives on: its           *)
(* synchronous calls return, a refused request is made again, writes do    *)
(* not fail for ever, and time passes.  A release, a crash, a failing      *)
(* write and every step of the other processes stay without fairness.      *)
(***************************************************************************)
Fairness(p) ==
  /\ WF_vars(Request(p)) /\ WF_vars(AcquireStep(p))
  /\ SF_vars(WriteOwner(p)) /\ SF_vars(WriteLock(p))
  /\ SF_vars(GuardLeaseExpires)
  /\ WF_vars(LockLeaseExpires)

=============================================================================
