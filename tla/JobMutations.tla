---------------------------- MODULE JobMutations ----------------------------
(***************************************************************************)
(* The mutations of the generic product's Jobs (jobs/manager.js), of a     *)
(* user's DBus Interface (interfaces/manager.js) and of the whole package  *)
(* (scripts/lifecycle.js), which run in processes of their own and share   *)
(* files, the service controller and four kinds of operation lock:         *)
(*                                                                         *)
(*   fence         the package lifecycle                                   *)
(*   jobLock[j]    a Job                                                   *)
(*   ifaceFence    the Interface's mutations                               *)
(*   reader[j]     a Job's mutation that relies on the Interface           *)
(*                                                                         *)
(* A lock is what OperationLock promises: one live owner, refused to       *)
(* others at once.  A process may die at any step and leaves its locks     *)
(* Dead, which are refused until the lease is over and reclaimed after.    *)
(* A call of the controller may fail, and may fail after it took effect.   *)
(* There is one Interface, and a Job's configuration is the form of the    *)
(* Interface it was validated against, or "plain" when it uses none.       *)
(***************************************************************************)
EXTENDS FiniteSetsExt, Integers

CONSTANTS Jobs,     (* numbers: the code takes names in sorted order      *)
          Callers,  (* the API requests that may run at a time            *)
          Scripts,  (* which of "pkg" and "admin" run                     *)
          Shapes    (* the forms the Interface may have                   *)

ASSUME JobsAssumption == Jobs \subseteq Nat /\ IsFiniteSet(Jobs)

\* A caller is not a script and not the mark of a lock; a form of the Interface
\* is not the mark of a document.
ASSUME NamesAssumption ==
  /\ Callers \cap {"pkg", "admin", "free", "dead"} = {}
  /\ Shapes \cap {"none", "partial", "plain"} = {}

VARIABLES
  doc,         (* conf.d/jobs: the document of each Job                    *)
  svc,         (* the controller's service of each Job                     *)
  iface,       (* conf.d/interfaces: the Interface's form, or "none"       *)
  startFile,   (* package-stop-state.json: {} when absent, else {names}    *)
  fence, jobLock, ifaceFence, reader,
  req,         (* the Job mutation of each process                         *)
  pkg,         (* the package script                                       *)
  admin,       (* the mutation of the Interface                            *)
  overtaken    (* history: mutations under way when the fence was taken    *)

locks == <<fence, jobLock, ifaceFence, reader>>
files == <<doc, iface, startFile>>
vars  == <<files, svc, locks, req, pkg, admin, overtaken>>

Processes == Callers \cup {"pkg"}      (* the package script calls start() *)
Owners    == Processes \cup {"admin"}  (* and install() of JobManager      *)
Holders   == Owners \cup {"free", "dead"}

Configs == {"plain"} \cup Shapes

Ops   == {"create", "update", "install", "start", "stop", "delete",
          "packageStop"}
Steps == {"probe", "lock", "probeAgain", "read", "hold", "enter", "holdAgain",
          "validate", "inspect", "create", "write", "save", "install",
          "confirm", "start", "stop", "uninstall", "remove", "leave", "unlock"}
NoRequest == [op |-> "none", at |-> "idle", job |-> 0, to |-> "plain", ok |-> TRUE]
NoPackage == [op |-> "none", at |-> "idle", todo |-> {}, targets |-> {},
              restart |-> {}, ok |-> TRUE]
NoAdmin   == [at |-> "idle", todo |-> {}]

TypeOK ==
  /\ doc \in [Jobs -> {"none", "partial"} \cup Configs]
  /\ svc \in [Jobs -> {"none", "stopped", "busy"}]
  /\ iface \in {"none"} \cup Shapes
  /\ startFile \subseteq SUBSET Jobs /\ Cardinality(startFile) <= 1
  /\ fence \in Holders /\ ifaceFence \in Holders
  /\ jobLock \in [Jobs -> Holders] /\ reader \in [Jobs -> Holders]
  /\ \A p \in Processes :
       req[p] \in [op : Ops, at : Steps, job : Jobs, to : Configs, ok : BOOLEAN]
                    \cup {NoRequest}
  /\ pkg.op \in {"none", "install", "start", "stop", "uninstall"}
  /\ {pkg.todo, pkg.targets, pkg.restart, admin.todo}
       \subseteq SUBSET Jobs
  /\ overtaken \subseteq Callers

Init ==
  /\ doc = [j \in Jobs |-> "none"] /\ svc = [j \in Jobs |-> "none"]
  /\ iface = "none" /\ startFile = {}
  /\ fence = "free" /\ ifaceFence = "free"
  /\ jobLock = [j \in Jobs |-> "free"] /\ reader = [j \in Jobs |-> "free"]
  /\ req = [p \in Processes |-> NoRequest] /\ pkg = NoPackage /\ admin = NoAdmin
  /\ overtaken = {}

-----------------------------------------------------------------------------
(* Locks, documents and controller calls                                   *)

\* acquire() and assertAvailable() pass a lock that is free, or whose owner
\* died and whose lease is over; otherwise they throw JOB_CONFLICT at once.
MayPass(lock)   == lock \in {"free", "dead"}
MayRefuse(lock) == lock # "free"

\* readValidated(): a document that is there, complete and fits the Interface.
Valid(j) == doc[j] \in {"plain", iface} \ {"none"}

\* InterfaceReferenceAnalyzer.find(): a document it cannot read counts.
References == {j \in Jobs : doc[j] \in {"partial"} \cup Shapes}

\* A controller call that takes j's service from one of the states "from" to
\* one of "to".  It may fail, with or without effect; ok is what it replies.
Call(j, from, to, ok) ==
  \E s \in (IF svc[j] \in from THEN to ELSE {})
             \cup (IF ok /\ svc[j] \in from THEN {} ELSE {svc[j]}) :
    svc' = [svc EXCEPT ![j] = s]

-----------------------------------------------------------------------------
(* A Job mutation: withMutation() and its operation                        *)

Job(p) == req[p].job
At(p, step) == req[p].at = step
Is(p, ops) == req[p].op \in ops

\* Session calls of the package script run under the session's locks.
InSession(p) == p = "pkg" /\ fence = "pkg"

\* The callback: the package script goes on with its next Job, or, outside a
\* session, ends at the first failure (eachSeries, eachSeriesCollect).
Return(p, ok) ==
  /\ req' = [req EXCEPT ![p] = NoRequest]
  /\ overtaken' = overtaken \ {p}
  /\ pkg' = IF p = "pkg"
            THEN [pkg EXCEPT !.todo = IF ok \/ InSession(p) THEN @ \ {Job(p)} ELSE {},
                             !.ok = @ /\ ok]
            ELSE pkg

Goto(p, step) ==
  /\ req' = [req EXCEPT ![p].at = step]
  /\ UNCHANGED <<overtaken, pkg>>

\* done(): the readers and the Job lock are released before the callback.
Done(p, ok) ==
  IF InSession(p) THEN Return(p, ok)
  ELSE /\ req' = [req EXCEPT ![p].at = IF reader[Job(p)] = p THEN "leave" ELSE "unlock",
                             ![p].ok = ok]
       /\ UNCHANGED <<overtaken, pkg>>

Begin(p, o, j, c, step) ==
  req' = [req EXCEPT ![p] = [op |-> o, at |-> step, job |-> j, to |-> c, ok |-> TRUE]]

Request(p) ==
  /\ p \in Callers /\ req[p] = NoRequest
  /\ \E o \in Ops \ {"install", "packageStop"}, j \in Jobs :
       \E c \in IF o \in {"create", "update"} THEN Configs ELSE {"plain"} :
         Begin(p, o, j, c, "probe")
  /\ UNCHANGED <<files, svc, locks, pkg, admin, overtaken>>

Probe(p) ==
  /\ At(p, "probe")
  /\ \/ MayPass(fence) /\ Goto(p, "lock")
     \/ MayRefuse(fence) /\ Return(p, FALSE)
  /\ UNCHANGED <<files, svc, locks, admin>>

Lock(p) ==
  /\ At(p, "lock")
  /\ \/ /\ MayPass(jobLock[Job(p)])
        /\ jobLock' = [jobLock EXCEPT ![Job(p)] = p]
        /\ Goto(p, "probeAgain")
     \/ /\ MayRefuse(jobLock[Job(p)])
        /\ Return(p, FALSE)
        /\ UNCHANGED jobLock
  /\ UNCHANGED <<files, svc, fence, ifaceFence, reader, admin>>

\* What the configuration the request brings, or the one it found, relies on.
NeedsInterface(p) ==
  \/ req[p].to \in Shapes
  \/ Is(p, {"update", "install", "start"}) /\ doc[Job(p)] \in Shapes

\* Mutant: the fence is not looked at again under the Job lock.
ProbeAgain_Once(p) ==
  /\ At(p, "probeAgain")
  /\ Goto(p, IF ~Is(p, {"create"}) THEN "read"
             ELSE IF NeedsInterface(p) THEN "hold" ELSE "validate")
  /\ UNCHANGED <<files, svc, locks, admin>>

ProbeAgain(p) ==
  /\ At(p, "probeAgain")
  /\ \/ /\ MayPass(fence)
        /\ Goto(p, IF ~Is(p, {"create"}) THEN "read"
                   ELSE IF NeedsInterface(p) THEN "hold" ELSE "validate")
     \/ MayRefuse(fence) /\ Done(p, FALSE)
  /\ UNCHANGED <<files, svc, locks, admin>>

\* readValidated(), of a document that only the owner of the Job lock changes.
Read(p) ==
  /\ At(p, "read")
  /\ IF Valid(Job(p))
     THEN Goto(p, IF Is(p, {"install", "start"}) /\ NeedsInterface(p)
                  THEN "hold" ELSE "inspect")
     ELSE Done(p, FALSE)
  /\ UNCHANGED <<files, svc, locks, admin>>

\* holdInterfaces(): a look at the Interface's fence, the reader's lock, and a
\* second look.
Hold(p) ==
  /\ At(p, "hold")
  /\ \/ MayPass(ifaceFence) /\ Goto(p, "enter")
     \/ MayRefuse(ifaceFence) /\ Done(p, FALSE)
  /\ UNCHANGED <<files, svc, locks, admin>>

Enter(p) ==
  /\ At(p, "enter")
  /\ \/ /\ MayPass(reader[Job(p)])
        /\ reader' = [reader EXCEPT ![Job(p)] = p]
        /\ Goto(p, "holdAgain")
     \/ /\ MayRefuse(reader[Job(p)])
        /\ Done(p, FALSE)
        /\ UNCHANGED reader
  /\ UNCHANGED <<files, svc, fence, jobLock, ifaceFence, admin>>

\* Mutant: the Interface's fence is not looked at again once the reader is in.
HoldAgain_Once(p) ==
  /\ At(p, "holdAgain")
  /\ Goto(p, IF Is(p, {"create", "update"}) THEN "validate" ELSE "inspect")
  /\ UNCHANGED <<files, svc, locks, admin>>

HoldAgain(p) ==
  /\ At(p, "holdAgain")
  /\ \/ /\ MayPass(ifaceFence)
        /\ Goto(p, IF Is(p, {"create", "update"}) THEN "validate" ELSE "inspect")
     \/ MayRefuse(ifaceFence) /\ Done(p, FALSE)
  /\ UNCHANGED <<files, svc, locks, admin>>

\* validateConfig() and, after it, ensureDatabase(), which may fail.
Validate(p) ==
  /\ At(p, "validate")
  /\ \/ /\ req[p].to \in {"plain", iface}
        /\ Goto(p, IF Is(p, {"create"}) THEN "inspect" ELSE "save")
     \/ Done(p, FALSE)
  /\ UNCHANGED <<files, svc, locks, admin>>

\* What an operation does after it inspected the service, as svc[j] says.
AfterInspect(p) ==
  LET s == svc[Job(p)] IN
  CASE Is(p, {"create"})  /\ s = "none"   -> "create"
    [] Is(p, {"install"}) /\ s = "none"   -> "install"
    [] Is(p, {"start"})   /\ s = "none"   -> "install"
    [] Is(p, {"start"})   /\ s = "stopped" -> "start"
    [] Is(p, {"stop"})    /\ s = "busy" -> "stop"
    [] Is(p, {"packageStop"}) /\ s = "busy" -> "stop"
    [] Is(p, {"update"})  /\ s # "busy" ->
         IF NeedsInterface(p) THEN "hold" ELSE "validate"
    [] Is(p, {"delete"})  /\ s = "none"    -> "remove"
    [] Is(p, {"delete"})  /\ s = "stopped" -> "uninstall"
    [] OTHER -> "refuse"

\* Mutant: guardMutable() does not refuse the update of a Job that runs.
Inspect_Unguarded(p) ==
  /\ At(p, "inspect")
  /\ IF Is(p, {"update"})
     THEN Goto(p, IF NeedsInterface(p) THEN "hold" ELSE "validate")
     ELSE IF AfterInspect(p) = "refuse" THEN Done(p, FALSE)
     ELSE Goto(p, AfterInspect(p))
  /\ UNCHANGED <<files, svc, locks, admin>>

Inspect(p) ==
  /\ At(p, "inspect")
  /\ \/ IF AfterInspect(p) = "refuse"
        THEN Done(p, Is(p, {"packageStop"}))   (* already at rest          *)
        ELSE Goto(p, AfterInspect(p))
     \/ Done(p, FALSE)                         (* CONTROLLER_UNAVAILABLE   *)
  /\ UNCHANGED <<files, svc, locks, admin>>

SetDoc(p, d) == doc' = [doc EXCEPT ![Job(p)] = d]

\* repository.create(): 'wx', and the writing of the content.  If that fails
\* the file is unlinked, and stays if that fails too.
Create(p) ==
  /\ At(p, "create")
  /\ \/ doc[Job(p)] = "none" /\ SetDoc(p, "partial") /\ Goto(p, "write")
     \/ UNCHANGED doc /\ Done(p, FALSE)
  /\ UNCHANGED <<iface, startFile, svc, locks, admin>>

Write(p) ==
  /\ At(p, "write")
  /\ \/ SetDoc(p, req[p].to) /\ Goto(p, "install")
     \/ \E d \in {"none", "partial"} : SetDoc(p, d) /\ Done(p, FALSE)
  /\ UNCHANGED <<iface, startFile, svc, locks, admin>>

\* repository.save(): an atomic replacement.  Its revision is the one that was
\* read under the same Job lock.
Save(p) ==
  /\ At(p, "save")
  /\ \/ SetDoc(p, req[p].to) /\ Done(p, TRUE)
     \/ UNCHANGED doc /\ Done(p, FALSE)
  /\ UNCHANGED <<iface, startFile, svc, locks, admin>>

\* A failed installation ends install() and start(); create() discards its
\* configuration.
Install(p) ==
  /\ At(p, "install")
  /\ \E ok \in BOOLEAN :
       /\ Call(Job(p), {"none"}, {"stopped"}, ok)
       /\ IF ok THEN Goto(p, "confirm")
          ELSE IF Is(p, {"create"}) THEN Goto(p, "remove") ELSE Done(p, FALSE)
  /\ UNCHANGED <<files, locks, admin>>

\* The inspection after the controller's call.
Confirm(p) ==
  /\ At(p, "confirm")
  /\ \/ /\ Is(p, {"create", "install", "start"}) /\ svc[Job(p)] = "stopped"
        /\ IF Is(p, {"start"}) THEN Goto(p, "start") ELSE Done(p, TRUE)
     \/ IF Is(p, {"create", "install"}) THEN Goto(p, "uninstall") ELSE Done(p, FALSE)
     \/ /\ Is(p, {"packageStop"}) /\ svc[Job(p)] # "busy"
        /\ Done(p, TRUE)
  /\ UNCHANGED <<files, svc, locks, admin>>

\* The reply of start() and of stop() rests on one more look at the service.
Start(p) ==
  /\ At(p, "start")
  /\ \E ok \in BOOLEAN : Call(Job(p), {"stopped"}, {"busy"}, ok) /\ Done(p, ok)
  /\ UNCHANGED <<files, locks, admin>>

Stop(p) ==
  /\ At(p, "stop")
  /\ \E ok \in BOOLEAN :
       /\ Call(Job(p), {"busy"}, {"stopped", "busy"}, ok)
       /\ IF ok /\ Is(p, {"packageStop"}) THEN Goto(p, "confirm") ELSE Done(p, ok)
  /\ UNCHANGED <<files, locks, admin>>

\* Mutant: delete() goes on although the service could not be uninstalled.
Uninstall_Unchecked(p) ==
  /\ At(p, "uninstall")
  /\ \E ok \in BOOLEAN :
       /\ Call(Job(p), {"stopped"}, {"none"}, ok)
       /\ IF Is(p, {"create", "delete"}) THEN Goto(p, "remove") ELSE Done(p, FALSE)
  /\ UNCHANGED <<files, locks, admin>>

\* Of delete(), and the cleanup of create() and of install().
Uninstall(p) ==
  /\ At(p, "uninstall")
  /\ \E ok \in BOOLEAN :
       /\ Call(Job(p), {"stopped"}, {"none"}, ok)
       /\ IF Is(p, {"create"}) \/ (ok /\ Is(p, {"delete"}))
          THEN Goto(p, "remove") ELSE Done(p, FALSE)
  /\ UNCHANGED <<files, locks, admin>>

Remove(p) ==
  /\ At(p, "remove")
  /\ \/ SetDoc(p, "none") /\ Done(p, Is(p, {"delete"}))
     \/ UNCHANGED doc /\ Done(p, FALSE)
  /\ UNCHANGED <<iface, startFile, svc, locks, admin>>

Leave(p) ==
  /\ At(p, "leave")
  /\ reader' = [reader EXCEPT ![Job(p)] = "free"]
  /\ Goto(p, "unlock")
  /\ UNCHANGED <<files, svc, fence, jobLock, ifaceFence, admin>>

Unlock(p) ==
  /\ At(p, "unlock")
  /\ jobLock' = [jobLock EXCEPT ![Job(p)] = "free"]
  /\ Return(p, req[p].ok)
  /\ UNCHANGED <<files, svc, fence, ifaceFence, reader, admin>>

Mutation(p) ==
  \/ Request(p) \/ Probe(p) \/ Lock(p) \/ ProbeAgain(p) \/ Read(p)
  \/ Hold(p) \/ Enter(p) \/ HoldAgain(p) \/ Validate(p) \/ Inspect(p)
  \/ Create(p) \/ Write(p) \/ Save(p) \/ Install(p) \/ Confirm(p)
  \/ Start(p) \/ Stop(p) \/ Uninstall(p) \/ Remove(p) \/ Leave(p) \/ Unlock(p)

-----------------------------------------------------------------------------
(* The package scripts: createLifecycle()                                  *)

PkgAt(step) == pkg.at = step /\ req["pkg"] = NoRequest

\* Requests that passed their last look at the fence and have not finished.
Working == {p \in Callers : req[p].at \notin {"idle", "probe", "lock", "probeAgain",
                                              "leave", "unlock"}}

\* list(): of a Job whose state is not known only the name is.
Known(unknown) == {j \in Jobs \ unknown : Valid(j)}

\* install() and start() take no lock of their own.
Run ==
  /\ PkgAt("idle") /\ "pkg" \in Scripts
  /\ \E unknown \in SUBSET Jobs, o \in {"install", "start"} :
       LET startable == {j \in Known(unknown) : svc[j] = "stopped"}
           names == IF o = "install" THEN {j \in Known(unknown) : svc[j] = "none"}
                    ELSE IF startFile = {} THEN startable
                    ELSE startable \cap UNION startFile
       IN pkg' = [NoPackage EXCEPT !.op = o, !.at = "each", !.todo = names]
  /\ UNCHANGED <<files, svc, locks, req, admin, overtaken>>

Each ==
  /\ PkgAt("each") /\ pkg.todo # {}
  /\ Begin("pkg", pkg.op, Min(pkg.todo), "plain", "probe")
  /\ UNCHANGED <<files, svc, locks, pkg, admin, overtaken>>

\* clearCheckpoint(), which may fail.
Clear(done) == startFile' \in IF done THEN {{}, startFile} ELSE {startFile}

\* A start that succeeded for each name clears the checkpoint.
EachDone ==
  /\ PkgAt("each") /\ pkg.todo = {}
  /\ Clear(pkg.op = "start" /\ pkg.ok)
  /\ pkg' = NoPackage
  /\ UNCHANGED <<doc, iface, svc, locks, req, admin, overtaken>>

\* acquirePackageLifecycle([]) of stop() and uninstall().
Fence ==
  /\ PkgAt("idle") /\ "pkg" \in Scripts /\ MayPass(fence)
  /\ \E o \in {"stop", "uninstall"} :
       pkg' = [NoPackage EXCEPT !.op = o, !.at = "list"]
  /\ fence' = "pkg" /\ overtaken' = Working
  /\ UNCHANGED <<files, svc, jobLock, ifaceFence, reader, req, admin>>

Release == [NoPackage EXCEPT !.op = pkg.op, !.at = "release"]

\* The list, read once under the fence: stop() takes the Jobs whose state is
\* known, uninstall() takes them all.  If it cannot be read the session ends.
List ==
  /\ PkgAt("list")
  /\ \/ pkg' = Release
     \/ \E unknown \in SUBSET Jobs :
          LET all     == {j \in Jobs : doc[j] # "none"}
              known   == Known(unknown)
              targets == IF pkg.op = "stop" THEN known ELSE all
          IN pkg' = [pkg EXCEPT !.at = "locks", !.todo = targets, !.targets = targets,
                                !.restart = {j \in known : svc[j] = "busy"},
                                !.ok = pkg.op = "uninstall" \/ known = all]
  /\ UNCHANGED <<files, svc, locks, req, admin, overtaken>>

\* Mutant: a refused Job lock ends the session without its release.
AcquireJob_Leaking ==
  /\ PkgAt("locks") /\ pkg.todo # {}
  /\ LET j == Min(pkg.todo) IN
       \/ /\ MayPass(jobLock[j])
          /\ jobLock' = [jobLock EXCEPT ![j] = "pkg"]
          /\ pkg' = [pkg EXCEPT !.todo = @ \ {j}]
       \/ /\ MayRefuse(jobLock[j])
          /\ pkg' = NoPackage
          /\ UNCHANGED jobLock
  /\ UNCHANGED <<files, svc, fence, ifaceFence, reader, req, admin, overtaken>>

\* session.acquire(): the Job locks in order, and none of them if one is taken.
AcquireJob ==
  /\ PkgAt("locks") /\ pkg.todo # {}
  /\ LET j == Min(pkg.todo) IN
       \/ /\ MayPass(jobLock[j])
          /\ jobLock' = [jobLock EXCEPT ![j] = "pkg"]
          /\ pkg' = [pkg EXCEPT !.todo = @ \ {j}]
       \/ /\ MayRefuse(jobLock[j])
          /\ pkg' = Release
          /\ UNCHANGED jobLock
  /\ UNCHANGED <<files, svc, fence, ifaceFence, reader, req, admin, overtaken>>

\* stop() saves what is to be started again, and stops every target;
\* uninstall() stops those the list says are busy.
Acquired ==
  /\ PkgAt("locks") /\ pkg.todo = {}
  /\ IF pkg.op = "uninstall"
     THEN /\ pkg' = [pkg EXCEPT !.at = "stop", !.todo = pkg.restart, !.restart = {}]
          /\ UNCHANGED startFile
     ELSE \/ /\ startFile' = {pkg.restart}
             /\ pkg' = [pkg EXCEPT !.at = "stop", !.todo = pkg.targets, !.restart = {}]
          \/ pkg' = Release /\ UNCHANGED startFile
  /\ UNCHANGED <<doc, iface, svc, locks, req, admin, overtaken>>

\* session.stopForPackage() and session.delete(), with the handle's lock held.
SessionJob ==
  /\ \E step \in {"stop", "delete"} : PkgAt(step)
  /\ pkg.todo # {}
  /\ Begin("pkg", IF pkg.at = "stop" THEN "packageStop" ELSE "delete",
           Min(pkg.todo), "plain", "read")
  /\ UNCHANGED <<files, svc, locks, pkg, admin, overtaken>>

Stopped ==
  /\ PkgAt("stop") /\ pkg.todo = {}
  /\ pkg' = IF pkg.op = "uninstall" /\ pkg.ok
            THEN [pkg EXCEPT !.at = "delete", !.todo = pkg.targets]
            ELSE Release
  /\ UNCHANGED <<files, svc, locks, req, admin, overtaken>>

Deleted ==
  /\ PkgAt("delete") /\ pkg.todo = {}
  /\ Clear(pkg.ok)
  /\ pkg' = Release
  /\ UNCHANGED <<doc, iface, svc, locks, req, admin, overtaken>>

\* session.release(): the Job locks in reverse order, then the fence.
PkgRelease ==
  /\ PkgAt("release")
  /\ LET held == {j \in Jobs : jobLock[j] = "pkg"} IN
       IF held # {}
       THEN /\ jobLock' = [jobLock EXCEPT ![Max(held)] = "free"]
            /\ UNCHANGED <<fence, pkg, overtaken>>
       ELSE /\ fence' = "free" /\ pkg' = NoPackage /\ overtaken' = {}
            /\ UNCHANGED jobLock
  /\ UNCHANGED <<files, svc, ifaceFence, reader, req, admin>>

Package == Run \/ Each \/ EachDone \/ Fence \/ List \/ AcquireJob \/ Acquired
             \/ SessionJob \/ Stopped \/ Deleted \/ PkgRelease

-----------------------------------------------------------------------------
(* The Interface: InterfaceManager.guard() and its actions                 *)

CreateInterface ==
  /\ iface = "none"
  /\ iface' \in Shapes
  /\ UNCHANGED <<doc, startFile, svc, locks, req, pkg, admin, overtaken>>

Guard ==
  /\ admin.at = "idle" /\ "admin" \in Scripts /\ MayPass(ifaceFence)
  /\ ifaceFence' = "admin"
  /\ admin' = [at |-> "list", todo |-> {}]
  /\ UNCHANGED <<files, svc, fence, jobLock, reader, req, pkg, overtaken>>

\* The readers' lock files, each acquired and released.
ListReaders ==
  /\ admin.at = "list"
  /\ admin' = [at |-> "readers", todo |-> {j \in Jobs : reader[j] # "free"}]
  /\ UNCHANGED <<files, svc, locks, req, pkg, overtaken>>

CheckReader ==
  /\ admin.at = "readers"
  /\ \E j \in admin.todo :
       \/ /\ MayPass(reader[j])
          /\ reader' = [reader EXCEPT ![j] = "free"]
          /\ admin' = [admin EXCEPT !.todo = @ \ {j}]
       \/ /\ MayRefuse(reader[j])
          /\ admin' = [at |-> "release", todo |-> {}]
          /\ UNCHANGED reader
  /\ UNCHANGED <<files, svc, fence, jobLock, ifaceFence, req, pkg, overtaken>>

FindReferences ==
  /\ admin.at = "readers" /\ admin.todo = {}
  /\ admin' = [at |-> "jobs", todo |-> References]
  /\ UNCHANGED <<files, svc, locks, req, pkg, overtaken>>

LockReferrer ==
  /\ admin.at = "jobs" /\ admin.todo # {}
  /\ LET j == Min(admin.todo) IN
       \/ /\ MayPass(jobLock[j])
          /\ jobLock' = [jobLock EXCEPT ![j] = "admin"]
          /\ admin' = [admin EXCEPT !.todo = @ \ {j}]
       \/ /\ MayRefuse(jobLock[j])
          /\ admin' = [at |-> "release", todo |-> {}]
          /\ UNCHANGED jobLock
  /\ UNCHANGED <<files, svc, fence, ifaceFence, reader, req, pkg, overtaken>>

\* The references are looked up again: an update, a Method's change or a
\* deletion of an Interface that is in use is refused.
ChangeInterface ==
  /\ admin.at = "jobs" /\ admin.todo = {}
  /\ IF iface # "none" /\ References = {}
     THEN iface' \in {"none"} \cup Shapes
     ELSE UNCHANGED iface
  /\ admin' = [at |-> "release", todo |-> {}]
  /\ UNCHANGED <<doc, startFile, svc, locks, req, pkg, overtaken>>

AdminRelease ==
  /\ admin.at = "release"
  /\ LET held == {j \in Jobs : jobLock[j] = "admin"} IN
       IF held # {}
       THEN /\ jobLock' = [jobLock EXCEPT ![Max(held)] = "free"]
            /\ UNCHANGED <<ifaceFence, admin>>
       ELSE /\ ifaceFence' = "free" /\ admin' = NoAdmin
            /\ UNCHANGED jobLock
  /\ UNCHANGED <<files, svc, fence, reader, req, pkg, overtaken>>

Interface == CreateInterface \/ Guard \/ ListReaders \/ CheckReader \/ FindReferences
               \/ LockReferrer \/ ChangeInterface \/ AdminRelease

-----------------------------------------------------------------------------
(* What happens by itself                                                  *)

\* A service settles, stops by itself, or is removed from outside.
ServiceChanges(j) ==
  /\ \/ svc[j] = "busy"    /\ svc' = [svc EXCEPT ![j] = "stopped"]
     \/ svc[j] = "stopped" /\ svc' = [svc EXCEPT ![j] = "none"]
  /\ UNCHANGED <<files, locks, req, pkg, admin, overtaken>>

Orphan(lock, p) == IF lock = p THEN "dead" ELSE lock

\* Bound: a process dies only while no lock of an earlier one is left.
NoneDead ==
  "dead" \notin {fence, ifaceFence} \cup {jobLock[j] : j \in Jobs} \cup {reader[j] : j \in Jobs}

\* A process dies; its locks stay.
Crash(p) ==
  /\ NoneDead
  /\ CASE p = "admin" -> admin # NoAdmin
       [] p = "pkg"   -> pkg # NoPackage
       [] OTHER       -> req[p] # NoRequest
  /\ fence' = Orphan(fence, p) /\ ifaceFence' = Orphan(ifaceFence, p)
  /\ jobLock' = [j \in Jobs |-> Orphan(jobLock[j], p)]
  /\ reader' = [j \in Jobs |-> Orphan(reader[j], p)]
  /\ req' = [q \in Processes |-> IF q = p THEN NoRequest ELSE req[q]]
  /\ pkg' = IF p = "pkg" THEN NoPackage ELSE pkg
  /\ admin' = IF p = "admin" THEN NoAdmin ELSE admin
  /\ overtaken' = IF p = "pkg" THEN {} ELSE overtaken \ {p}
  /\ UNCHANGED <<files, svc>>

Next ==
  \/ \E p \in Processes : Mutation(p)
  \/ Package \/ Interface
  \/ \E j \in Jobs : ServiceChanges(j)
  \/ \E p \in Owners : Crash(p)

Spec == Init /\ [][Next]_vars

-----------------------------------------------------------------------------
(* Properties                                                              *)

\* A stored configuration fits the Interface as it is now: whatever an
\* Interface's mutation and a Job's create, update and start do at a time, no
\* Job is left with calls of an Interface that changed under it.  (What the
\* fence, the reader's lock and the second look at the fence are for.)
ReferencesHold == \A j \in Jobs : doc[j] \in Shapes => doc[j] = iface

\* The configuration of a Job whose service runs or is in transition is neither
\* changed nor removed: guardMutable()'s look at the controller is still true
\* when the document is written, several calls later.
RunningIsFixed ==
  [][\A j \in Jobs : doc'[j] # doc[j] => svc[j] # "busy"]_vars

\* While the package script stops or deletes Jobs, the only mutations under way
\* are those that had passed their second probe when the fence was taken, and
\* none of them is of a Job the script works on.
AloneUnlessOvertaken ==
  pkg.at \in {"stop", "delete"} =>
    \A p \in Working : p \in overtaken /\ Job(p) \notin pkg.targets

\* A lock whose owner is alive is held for a mutation that is under way, and
\* the session's Job locks only together with its fence: no refusal, failed
\* step or early return leaves a lock behind that blocks the Job for ever.
LocksHaveWork ==
  /\ fence = "pkg" => pkg.op \in {"stop", "uninstall"}
  /\ \A j \in Jobs :
       /\ \A p \in Processes :
            reader[j] = p => jobLock[j] = p
       /\ \A p \in Callers :
            jobLock[j] = p => req[p].op # "none" /\ Job(p) = j
       /\ jobLock[j] = "pkg" =>
            fence = "pkg" \/ (req["pkg"].op # "none" /\ Job("pkg") = j)

\* The types, and no lock without work, after every step of either side.
LocksAreSound == TypeOK /\ LocksHaveWork

\* Only the cleanup of a create() removes the configuration of a Job whose
\* service is installed: a delete, of the API or of the package's uninstall,
\* keeps it until the controller has confirmed that the service is gone.
DeleteLeavesNoService ==
  [][\A j \in Jobs : doc[j] # "none" /\ doc'[j] = "none" /\ svc[j] # "none" =>
       \E p \in Processes : Is(p, {"create"}) /\ Job(p) = j]_vars

\* What docs/specs/DBUS_SDD.md:304 says of the fence: no mutation of the API is
\* under way while the package script works, the create of a name that is not
\* on its list included.
PackageAlone == pkg.at \in {"stop", "delete"} => Working = {}
=============================================================================
