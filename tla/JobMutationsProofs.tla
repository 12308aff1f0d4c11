------------------------- MODULE JobMutationsProofs -------------------------
(***************************************************************************)
(* Proofs about JobMutations for any finite set of Jobs, any set of        *)
(* concurrent API requests beside the package script and the mutations of  *)
(* the Interface, and any number of crashes.                               *)
(***************************************************************************)
EXTENDS JobMutations, FiniteSetTheorems, TLAPS

-----------------------------------------------------------------------------
(* Numbers of Jobs                                                         *)

\* The least and the greatest of some Jobs, which the package script and the
\* Interface's mutation take next, are among them.
LEMMA MinMax ==
  ASSUME NEW S \in SUBSET Jobs, S # {}
  PROVE  Min(S) \in S /\ Max(S) \in S
  <1> DEFINE Less == StrictSubsetOrdering(Jobs)
             Bad == {A \in SUBSET Jobs : A # {} /\ ~ \E x, z \in A : \A y \in A : x >= y /\ z <= y}
  <1>1. Bad = {}
    <2> SUFFICES ASSUME Bad # {} PROVE FALSE
      OBVIOUS
    <2>1. IsWellFoundedOn(Less, SUBSET Jobs)
      <3>1. FiniteSubsetsOf(Jobs) = SUBSET Jobs
        BY FS_FiniteSubsetsOfFinite, JobsAssumption
      <3>2. QED
        BY <3>1, FS_StrictSubsetOrderingWellFounded
    <2>2. PICK A \in Bad : \A B \in Bad : <<B, A>> \notin Less
      BY <2>1, WFMin, Zenon
    <2>3. PICK x \in A : TRUE
      OBVIOUS
    <2>4. A \ {x} \notin Bad
      <3>1. A \ {x} \in SUBSET Jobs /\ A \in SUBSET Jobs /\ A \ {x} # A
        BY <2>3
      <3>2. A \ {x} \in Bad => <<A \ {x}, A>> \in Less
        BY <3>1 DEF StrictSubsetOrdering
      <3>3. QED
        BY <2>2, <3>2
    <2>5. CASE A \ {x} = {}
      <3>1. A = {x} /\ x \in Nat
        BY <2>3, <2>5, JobsAssumption
      <3>2. QED
        BY <3>1
    <2>6. CASE A \ {x} # {}
      <3>1. PICK u, v \in A \ {x} : \A y \in A \ {x} : u >= y /\ v <= y
        BY <2>4, <2>6
      <3>2. A \subseteq Nat
        BY JobsAssumption
      <3>3. \E m, n \in A : \A y \in A : m >= y /\ n <= y
        <4>1. PICK m \in {u, x} : m >= u /\ m >= x
          BY <3>1, <3>2, <2>3
        <4>2. PICK n \in {v, x} : n <= v /\ n <= x
          BY <3>1, <3>2, <2>3
        <4>3. m \in A /\ n \in A /\ u \in A /\ v \in A
          BY <4>1, <4>2, <2>3
        <4>4. ASSUME NEW y \in A PROVE m >= y /\ n <= y
          <5>1. /\ m \in Nat /\ n \in Nat /\ u \in Nat /\ v \in Nat /\ x \in Nat /\ y \in Nat
            BY <3>2, <4>3, <2>3
          <5>2. y = x \/ (u >= y /\ v <= y)
            BY <3>1
          <5>3. \A a, b, c \in Nat : a >= b /\ b >= c => a >= c
            OBVIOUS
          <5> HIDE DEF Bad, Less
          <5>4. m >= y
            BY <5>1, <5>2, <5>3, <4>1
          <5>5. n <= y
            BY <5>1, <5>2, <4>2
          <5>6. QED
            BY <5>4, <5>5
        <4>5. QED
          BY <4>3, <4>4
      <3>4. QED
        BY <3>3
    <2>7. QED
      BY <2>5, <2>6
  <1>2. \E x, z \in S : \A y \in S : x >= y /\ z <= y
    BY <1>1
  <1>3. QED
    BY <1>2 DEF Min, Max

-----------------------------------------------------------------------------
(* The inductive invariant                                                 *)

Requests == [op : Ops, at : Steps, job : Jobs, to : Configs, ok : BOOLEAN] \cup {NoRequest}
Packages == [op : {"none", "install", "start", "stop", "uninstall"},
             at : {"idle", "each", "list", "locks", "stop", "delete", "release"},
             todo : SUBSET Jobs, targets : SUBSET Jobs, restart : SUBSET Jobs, ok : BOOLEAN]

\* TypeOK, with the records spelled out and the lock files named by who takes them.
Typed ==
  /\ doc \in [Jobs -> {"none", "partial"} \cup Configs]
  /\ svc \in [Jobs -> {"none", "stopped", "busy"}]
  /\ iface \in {"none"} \cup Shapes
  /\ startFile = {} \/ \E names \in SUBSET Jobs : startFile = {names}
  /\ fence \in {"free", "dead", "pkg"} /\ ifaceFence \in {"free", "dead", "admin"}
  /\ jobLock \in [Jobs -> Holders] /\ reader \in [Jobs -> Holders \ {"admin"}]
  /\ req \in [Processes -> Requests]
  /\ pkg \in Packages
  /\ admin \in [at : {"idle", "list", "readers", "jobs", "release"}, todo : SUBSET Jobs]
  /\ overtaken \in SUBSET Callers

Active(p) == req[p].op # "none"
InLock(p) == Active(p) /\ req[p].at \notin {"probe", "lock"}

Interfacing == {"create", "update", "install", "start"}

\* The steps an operation goes through.
PathAt(p, step) ==
  /\ step = "read" => ~Is(p, {"create"})
  /\ step \in {"hold", "enter", "holdAgain"} => Is(p, Interfacing)
  /\ step = "validate" => Is(p, {"create", "update"})
  /\ step \in {"create", "write"} => Is(p, {"create"})
  /\ step = "save" => Is(p, {"update"})
  /\ step = "install" => Is(p, {"create", "install", "start"})
  /\ step = "confirm" => Is(p, {"create", "install", "start", "packageStop"})
  /\ step = "start" => Is(p, {"start"})
  /\ step = "stop" => Is(p, {"stop", "packageStop"})
  /\ step = "uninstall" => Is(p, {"create", "install", "delete"})
  /\ step = "remove" => Is(p, {"create", "delete"})

Paths == \A p \in Processes : PathAt(p, req[p].at)

Holding ==
  /\ \A p \in Processes : InLock(p) => jobLock[Job(p)] = p
  /\ \A p \in Callers, j \in Jobs : jobLock[j] = p => InLock(p) /\ Job(p) = j
  /\ \A j \in Jobs : jobLock[j] = "pkg" => fence = "pkg" \/ (InLock("pkg") /\ Job("pkg") = j)
  /\ \A j \in Jobs : jobLock[j] = "admin" => ifaceFence = "admin"

Reading ==
  \A p \in Processes :
    /\ \A j \in Jobs : reader[j] = p =>
          /\ InLock(p) /\ Job(p) = j /\ Is(p, Interfacing)
          /\ ~At(p, "unlock")
    /\ At(p, "holdAgain") => reader[Job(p)] = p

\* The package script's session, and the Jobs it has locked.
SessionAt(step) ==
  /\ pkg.at = "stop" => step \in {"read", "inspect", "stop", "confirm"}
  /\ pkg.at = "delete" => step \in {"read", "inspect", "uninstall", "remove"}

Session ==
  /\ fence = "pkg" <=> pkg.at \in {"list", "locks", "stop", "delete", "release"}
  /\ pkg.at = "each" => pkg.op \in {"install", "start"}
  /\ fence = "pkg" => pkg.op \in {"stop", "uninstall"}
  /\ Active("pkg") =>
       /\ \/ pkg.at = "each" /\ Is("pkg", {"install", "start"})
          \/ pkg.at = "stop" /\ Is("pkg", {"packageStop"}) /\ Job("pkg") \in pkg.targets
          \/ pkg.at = "delete" /\ Is("pkg", {"delete"}) /\ Job("pkg") \in pkg.targets
       /\ SessionAt(req["pkg"].at)
  /\ pkg.at \in {"stop", "delete"} => pkg.todo \subseteq pkg.targets
  /\ pkg.at = "locks" => pkg.restart \subseteq pkg.targets
  /\ pkg.at \in {"locks", "stop", "delete"} =>
       \A j \in pkg.targets : jobLock[j] = "pkg" \/ (pkg.at = "locks" /\ j \in pkg.todo)
  /\ \A p \in Callers : ~Is(p, {"packageStop"})

Passed == fence = "pkg" => Working \subseteq overtaken

\* A configuration with calls of the Interface, from its validation to its
\* writing: the Interface's mutation waits for the reader, or has not looked.
GuardAt(p, step) ==
  req[p].to \in Shapes /\
    \/ Is(p, {"create"}) /\ step \in {"validate", "inspect", "create", "write"}
    \/ Is(p, {"update"}) /\ step \in {"validate", "save"}
  => /\ reader[Job(p)] = p
     /\ admin.at # "jobs"
     /\ admin.at = "readers" => Job(p) \in admin.todo
     /\ step # "validate" => req[p].to = iface

Guarded ==
  /\ ifaceFence = "admin" <=> admin.at # "idle"
  /\ \A p \in Processes : GuardAt(p, req[p].at)

\* What the last look at the service has shown is still so.
ServiceAt(p, step, s) ==
  /\ step \in {"create", "write", "install"} => s = "none"
  /\ step = "remove" /\ Is(p, {"delete"}) => s = "none"
  /\ \/ step \in {"save", "uninstall", "remove", "start"}
     \/ step = "confirm" /\ ~Is(p, {"packageStop"})
     \/ Is(p, {"update"}) /\ step \in {"hold", "enter", "holdAgain", "validate"}
    => s # "busy"

Services == \A p \in Processes : ServiceAt(p, req[p].at, svc[Job(p)])

IInv ==
  Typed /\ Paths /\ Holding /\ Reading /\ Session /\ Passed /\ Guarded /\ Services
    /\ ReferencesHold

-----------------------------------------------------------------------------
(* The helpers of the mutations                                            *)

\* A process that is at a step has a request, and one without is idle.
LEMMA RequestFields ==
  ASSUME Typed, NEW p \in Processes
  PROVE  /\ req[p].at \in Steps <=> Active(p)
         /\ Active(p) => /\ req[p] \in [op : Ops, at : Steps, job : Jobs, to : Configs, ok : BOOLEAN]
                         /\ req[p].op \in Ops /\ req[p].at \in Steps /\ Job(p) \in Jobs
                         /\ req[p].to \in Configs /\ req[p].ok \in BOOLEAN
         /\ ~Active(p) => req[p] = NoRequest /\ req[p].at = "idle"
  BY DEF Typed, Requests, NoRequest, Active, Steps, Ops, Job

\* What goes on where it is told to keeps the rest of its request.
LEMMA GotoStep ==
  ASSUME Typed, NEW p \in Processes, Active(p), NEW step \in Steps, Goto(p, step)
  PROVE  /\ req' \in [Processes -> Requests]
         /\ \A q \in Processes \ {p} : req'[q] = req[q]
         /\ req'[p].at = step /\ req'[p].op = req[p].op
         /\ req'[p].job = req[p].job /\ req'[p].to = req[p].to
         /\ pkg' = pkg /\ overtaken' = overtaken
  <1> DEFINE r == [req[p] EXCEPT !.at = step]
  <1>1. req[p] \in [op : Ops, at : Steps, job : Jobs, to : Configs, ok : BOOLEAN]
    BY RequestFields
  <1>2. /\ r \in Requests /\ r.at = step /\ r.op = req[p].op
        /\ r.job = req[p].job /\ r.to = req[p].to
    BY <1>1 DEF Requests
  <1>3. req' = [req EXCEPT ![p] = r] /\ pkg' = pkg /\ overtaken' = overtaken
    BY DEF Goto
  <1> HIDE DEF r
  <1>4. QED
    BY <1>2, <1>3 DEF Typed

\* A request that has returned is gone; the package script keeps what it has
\* to do, or does less.
LEMMA ReturnStep ==
  ASSUME Typed, NEW p \in Processes, NEW ok \in BOOLEAN, Return(p, ok)
  PROVE  /\ req' \in [Processes -> Requests]
         /\ \A q \in Processes \ {p} : req'[q] = req[q]
         /\ req'[p] = NoRequest
         /\ overtaken' = overtaken \ {p}
         /\ p # "pkg" => pkg' = pkg
         /\ pkg' \in Packages
         /\ pkg'.op = pkg.op /\ pkg'.at = pkg.at /\ pkg'.targets = pkg.targets
         /\ pkg'.restart = pkg.restart /\ pkg'.todo \subseteq pkg.todo
  <1>1. /\ req' \in [Processes -> Requests]
        /\ \A q \in Processes \ {p} : req'[q] = req[q]
        /\ req'[p] = NoRequest
        /\ overtaken' = overtaken \ {p}
        /\ p # "pkg" => pkg' = pkg
    BY DEF Return, Typed, Requests
  <1>2. pkg' = pkg \/ \E todo \in SUBSET pkg.todo, b \in BOOLEAN :
                       pkg' = [pkg EXCEPT !.todo = todo, !.ok = b]
    BY DEF Return, Typed
  <1>3. pkg \in Packages
    BY DEF Typed
  <1>4. /\ pkg' \in Packages
        /\ pkg'.op = pkg.op /\ pkg'.at = pkg.at /\ pkg'.targets = pkg.targets
        /\ pkg'.restart = pkg.restart /\ pkg'.todo \subseteq pkg.todo
    BY <1>2, <1>3 DEF Packages
  <1>5. QED
    BY <1>1, <1>4

\* The end of an operation: under the locks of a session it returns, and
\* outside it goes to the release of its own locks.
LEMMA DoneStep ==
  ASSUME Typed, NEW p \in Processes, Active(p), NEW ok \in BOOLEAN, Done(p, ok)
  PROVE  /\ req' \in [Processes -> Requests]
         /\ \A q \in Processes \ {p} : req'[q] = req[q]
         /\ \/ InSession(p) /\ req'[p] = NoRequest
            \/ /\ ~InSession(p)
               /\ req'[p].at = IF reader[Job(p)] = p THEN "leave" ELSE "unlock"
               /\ req'[p].op = req[p].op /\ req'[p].job = req[p].job
               /\ req'[p].to = req[p].to
         /\ overtaken' \in {overtaken, overtaken \ {p}}
         /\ p # "pkg" => pkg' = pkg
         /\ pkg' \in Packages
         /\ pkg'.op = pkg.op /\ pkg'.at = pkg.at /\ pkg'.targets = pkg.targets
         /\ pkg'.restart = pkg.restart /\ pkg'.todo \subseteq pkg.todo
  <1>1. CASE InSession(p)
    <2>1. Return(p, ok)
      BY <1>1 DEF Done
    <2>2. QED
      BY <1>1, <2>1, ReturnStep
  <1>2. CASE ~InSession(p)
    <2> DEFINE step == IF reader[Job(p)] = p THEN "leave" ELSE "unlock"
               r == [req[p] EXCEPT !.at = step, !.ok = ok]
    <2>1. req[p] \in [op : Ops, at : Steps, job : Jobs, to : Configs, ok : BOOLEAN]
      BY RequestFields
    <2>2. step \in Steps
      BY DEF Steps
    <2>3. /\ r \in Requests /\ r.at = step /\ r.op = req[p].op
          /\ r.job = req[p].job /\ r.to = req[p].to
      BY <2>1, <2>2 DEF Requests
    <2>4. req' = [req EXCEPT ![p] = r] /\ pkg' = pkg /\ overtaken' = overtaken
      BY <1>2 DEF Done
    <2>5. req'[p].at = IF reader[Job(p)] = p THEN "leave" ELSE "unlock"
      BY <2>3, <2>4 DEF Typed
    <2> HIDE DEF r, step
    <2>6. QED
      BY <1>2, <2>3, <2>4, <2>5 DEF Typed
  <1>3. QED
    BY <1>1, <1>2

\* An operation that ends, whatever it did to documents and services, keeps
\* the parts of IInv that are about the locks.
LEMMA DoneKeeps ==
  ASSUME IInv, NEW p \in Processes, InLock(p), NEW ok \in BOOLEAN, Done(p, ok),
         UNCHANGED <<locks, admin, iface>>
  PROVE  Paths' /\ Holding' /\ Reading' /\ Session' /\ Passed' /\ Guarded'
  <1> USE DEF IInv, InLock, Active, locks, At, Is, Job, Processes
  <1>1. /\ req' \in [Processes -> Requests]
        /\ \A q \in Processes \ {p} : req'[q] = req[q]
        /\ \/ InSession(p) /\ req'[p] = NoRequest
           \/ /\ ~InSession(p)
              /\ req'[p].at = IF reader[Job(p)] = p THEN "leave" ELSE "unlock"
              /\ req'[p].op = req[p].op /\ req'[p].job = req[p].job
              /\ req'[p].to = req[p].to
        /\ overtaken' \in {overtaken, overtaken \ {p}}
        /\ p # "pkg" => pkg' = pkg
        /\ pkg'.op = pkg.op /\ pkg'.at = pkg.at /\ pkg'.targets = pkg.targets
        /\ pkg'.restart = pkg.restart /\ pkg'.todo \subseteq pkg.todo
    <2>1. Typed
      OBVIOUS
    <2> HIDE DEF IInv, At, Is, Job, Processes
    <2>2. QED
      BY <2>1, DoneStep
  <1>2. Job(p) \in Jobs
    BY RequestFields
  <1>3. Paths'
    BY <1>1 DEF Paths, PathAt, NoRequest
  <1>4. Holding'
    BY <1>1, <1>2, NamesAssumption DEF Holding, NoRequest, InSession
  <1>5. Reading'
    BY <1>1, <1>2, NamesAssumption DEF Reading, NoRequest, InSession, Session, Interfacing
  <1>6. Session'
    BY <1>1, <1>2, NamesAssumption DEF Session, SessionAt, NoRequest, InSession, Interfacing
  <1>7. Passed'
    BY <1>1, <1>2, NamesAssumption DEF Passed, NoRequest, InSession, Working
  <1>8. Guarded'
    BY <1>1, <1>2 DEF Guarded, GuardAt, NoRequest
  <1>9. QED
    BY <1>3, <1>4, <1>5, <1>6, <1>7, <1>8

\* An operation that goes on under its lock, whatever it did to documents and
\* services, keeps these parts when the step it goes to fits.
LEMMA GotoKeeps ==
  ASSUME IInv, NEW p \in Processes, InLock(p), req[p].at \notin {"leave", "unlock"},
         NEW step \in Steps \ {"probe", "lock", "holdAgain", "leave", "unlock"},
         Goto(p, step), UNCHANGED <<locks, admin, iface>>,
         At(p, "probeAgain") => fence # "pkg",
         PathAt(p, step), GuardAt(p, step), InSession(p) => SessionAt(step)
  PROVE  Paths' /\ Holding' /\ Reading' /\ Session' /\ Passed' /\ Guarded'
  <1> USE DEF IInv, InLock, Active, locks, At, Is, Job, Processes
  <1>1. /\ req' \in [Processes -> Requests]
        /\ \A q \in Processes \ {p} : req'[q] = req[q]
        /\ req'[p].at = step /\ req'[p].op = req[p].op
        /\ req'[p].job = req[p].job /\ req'[p].to = req[p].to
        /\ pkg' = pkg /\ overtaken' = overtaken
    <2>1. Typed /\ step \in Steps
      OBVIOUS
    <2> HIDE DEF IInv, At, Is, Job, Processes
    <2>2. QED
      BY <2>1, GotoStep
  <1>2. Job(p) \in Jobs /\ req[p].at \in Steps
    BY RequestFields
  <1>3. Paths'
    BY <1>1 DEF Paths, PathAt
  <1>4. Holding'
    BY <1>1, <1>2, NamesAssumption DEF Holding
  <1>5. Reading'
    BY <1>1, <1>2, NamesAssumption DEF Reading, Interfacing
  <1>6. Session'
    BY <1>1, <1>2, NamesAssumption DEF Session, SessionAt, InSession, Interfacing
  <1>7. Passed'
    <2>1. SUFFICES ASSUME fence = "pkg", NEW q \in Working' PROVE q \in overtaken
      BY <1>1 DEF Passed
    <2>2. p \in Callers => p \in Working
      BY <1>2, <2>1 DEF Working, Steps
    <2>3. q \in Working
      BY <1>1, <2>1, <2>2 DEF Working
    <2>4. QED
      BY <2>1, <2>3 DEF Passed
  <1>8. Guarded'
    BY <1>1, <1>2 DEF Guarded, GuardAt
  <1>9. QED
    BY <1>3, <1>4, <1>5, <1>6, <1>7, <1>8

\* What a step does to the document and the service of the Job it holds.
Effect(p) ==
  /\ UNCHANGED <<startFile, iface, locks, admin>>
  /\ doc' \in [Jobs -> {"none", "partial"} \cup Configs]
  /\ svc' \in [Jobs -> {"none", "stopped", "busy"}]
  /\ \A j \in Jobs \ {Job(p)} : svc'[j] = svc[j]
  /\ ReferencesHold'

\* The others hold other Jobs, so what they know of their services stays true.
LEMMA OthersKnow ==
  ASSUME IInv, NEW p \in Processes, InLock(p), Effect(p),
         NEW q \in Processes \ {p}, req'[q] = req[q]
  PROVE  ServiceAt(q, req[q].at, svc[Job(q)])'
  <1> USE DEF IInv, At, Is, Job, Effect
  <1>1. CASE InLock(q)
    <2>1. Job(q) \in Jobs /\ Job(q) # Job(p)
      BY <1>1, RequestFields DEF Holding, InLock
    <2>2. svc'[Job(q)] = svc[Job(q)]
      BY <2>1
    <2>3. QED
      BY <2>2 DEF Services, ServiceAt
  <1>2. CASE ~InLock(q)
    <2>1. req[q].at \in {"idle", "probe", "lock"}
      BY <1>2, RequestFields DEF InLock
    <2>2. QED
      BY <2>1 DEF ServiceAt
  <1>3. QED
    BY <1>1, <1>2

\* An operation that ends keeps IInv.
LEMMA DoneInv ==
  ASSUME IInv, NEW p \in Processes, InLock(p), NEW ok \in BOOLEAN, Done(p, ok), Effect(p)
  PROVE  IInv'
  <1>1. Typed /\ Active(p)
    BY DEF IInv, InLock
  <1>2. /\ req' \in [Processes -> Requests]
        /\ \A q \in Processes \ {p} : req'[q] = req[q]
        /\ req'[p].at \in {"idle", "leave", "unlock"}
        /\ overtaken' \in {overtaken, overtaken \ {p}}
        /\ pkg' \in Packages
    BY <1>1, DoneStep DEF NoRequest
  <1>3. Typed'
    BY <1>1, <1>2 DEF Typed, Effect, locks
  <1>4. Services'
    <2>1. ServiceAt(p, req[p].at, svc[Job(p)])'
      BY <1>2 DEF ServiceAt
    <2>2. QED
      BY <1>2, <2>1, OthersKnow DEF Services
  <1>5. Paths' /\ Holding' /\ Reading' /\ Session' /\ Passed' /\ Guarded'
    BY DoneKeeps DEF Effect, locks
  <1>6. QED
    BY <1>3, <1>4, <1>5 DEF IInv, Effect

\* An operation that goes on to a step that fits keeps IInv.
LEMMA GotoInv ==
  ASSUME IInv, NEW p \in Processes, InLock(p), req[p].at \notin {"leave", "unlock"},
         NEW step \in Steps \ {"probe", "lock", "holdAgain", "leave", "unlock"},
         Goto(p, step), Effect(p),
         At(p, "probeAgain") => fence # "pkg",
         PathAt(p, step), GuardAt(p, step), InSession(p) => SessionAt(step),
         ServiceAt(p, step, svc'[Job(p)])
  PROVE  IInv'
  <1>1. Typed /\ Active(p) /\ step \in Steps
    BY DEF IInv, InLock
  <1>2. /\ req' \in [Processes -> Requests]
        /\ \A q \in Processes \ {p} : req'[q] = req[q]
        /\ req'[p].at = step /\ req'[p].op = req[p].op /\ req'[p].job = req[p].job
        /\ pkg' = pkg /\ overtaken' = overtaken
    BY <1>1, GotoStep
  <1>3. Typed'
    BY <1>1, <1>2 DEF Typed, Effect, locks
  <1>4. Services'
    <2>1. ServiceAt(p, req[p].at, svc[Job(p)])'
      BY <1>2 DEF ServiceAt, Is, Job
    <2>2. QED
      BY <1>2, <2>1, OthersKnow DEF Services
  <1>5. Paths' /\ Holding' /\ Reading' /\ Session' /\ Passed' /\ Guarded'
    BY GotoKeeps DEF Effect, locks
  <1>6. QED
    BY <1>3, <1>4, <1>5 DEF IInv, Effect

-----------------------------------------------------------------------------
(* The steps of a Job mutation                                             *)

\* A look at documents, locks or the controller has no effect.
LEMMA LookEffect ==
  ASSUME IInv, NEW p \in Processes, UNCHANGED <<files, svc, locks, admin>>
  PROVE  Effect(p)
  BY DEF IInv, Typed, ReferencesHold, Effect, files, locks

\* What holds of a process that is inside its Job lock, in a session or not.
LEMMA InsideFacts ==
  ASSUME IInv, NEW p \in Processes,
         req[p].at \in Steps \ {"probe", "lock"}
  PROVE  /\ Typed /\ Active(p) /\ InLock(p) /\ Job(p) \in Jobs
         /\ req[p].op \in Ops /\ req[p].to \in Configs
         /\ InSession(p) => \/ pkg.at = "stop" /\ Is(p, {"packageStop"}) /\ SessionAt(req[p].at)
                            \/ pkg.at = "delete" /\ Is(p, {"delete"}) /\ SessionAt(req[p].at)
         /\ PathAt(p, req[p].at) /\ ServiceAt(p, req[p].at, svc[Job(p)]) /\ GuardAt(p, req[p].at)
         /\ Is(p, {"packageStop"}) => InSession(p)
  <1>1. Typed /\ Active(p) /\ InLock(p) /\ Job(p) \in Jobs /\ req[p].op \in Ops /\ req[p].to \in Configs
    BY RequestFields DEF InLock, IInv
  <1>2. InSession(p) => \/ pkg.at = "stop" /\ Is(p, {"packageStop"}) /\ SessionAt(req[p].at)
                        \/ pkg.at = "delete" /\ Is(p, {"delete"}) /\ SessionAt(req[p].at)
    BY <1>1 DEF IInv, Session, InSession
  <1>3. PathAt(p, req[p].at) /\ ServiceAt(p, req[p].at, svc[Job(p)]) /\ GuardAt(p, req[p].at)
    BY DEF IInv, Paths, Services, Guarded
  <1>4. Is(p, {"packageStop"}) => InSession(p)
    BY <1>1 DEF IInv, Session, InSession, Processes, Is
  <1>5. QED
    BY <1>1, <1>2, <1>3, <1>4

\* The second look at the package's fence, under the Job lock.
LEMMA ProbeAgainInv ==
  ASSUME IInv, NEW p \in Processes, ProbeAgain(p)
  PROVE  IInv'
  <1> USE DEF At, Is
  <1>1. req[p].at = "probeAgain" /\ req[p].at \in Steps \ {"probe", "lock"}
    BY DEF ProbeAgain, Steps
  <1>2. InLock(p) /\ Effect(p)
    BY <1>1, InsideFacts, LookEffect DEF ProbeAgain
  <1>3. ASSUME Done(p, FALSE) PROVE IInv'
    BY <1>2, <1>3, DoneInv
  <1>4. ASSUME NEW step \in {"read", "hold", "validate"}, Goto(p, step), fence # "pkg",
               PathAt(p, step), GuardAt(p, step), ServiceAt(p, step, svc'[Job(p)])
        PROVE  IInv'
    BY <1>1, <1>2, <1>4, GotoInv DEF InSession, Steps
  <1>5. ASSUME MayPass(fence), NEW step \in {"read", "hold", "validate"}, Goto(p, step),
               PathAt(p, step), Is(p, {"create"}) \/ step = "read",
               step = "validate" => req[p].to \notin Shapes
        PROVE  IInv'
    <2>1. fence # "pkg" /\ GuardAt(p, step)
      BY <1>5 DEF MayPass, GuardAt
    <2>2. ServiceAt(p, step, svc'[Job(p)])
      BY <1>5 DEF ServiceAt
    <2>3. QED
      BY <1>4, <1>5, <2>1, <2>2
  <1>6. CASE MayPass(fence) /\ Goto(p, IF ~Is(p, {"create"}) THEN "read"
                                      ELSE IF NeedsInterface(p) THEN "hold" ELSE "validate")
    <2>1. CASE ~Is(p, {"create"})
      BY <1>5, <1>6, <2>1 DEF PathAt
    <2>2. CASE Is(p, {"create"}) /\ NeedsInterface(p)
      BY <1>5, <1>6, <2>2 DEF PathAt, Interfacing
    <2>3. CASE Is(p, {"create"}) /\ ~NeedsInterface(p)
      BY <1>5, <1>6, <2>3 DEF PathAt, NeedsInterface
    <2>4. QED
      BY <2>1, <2>2, <2>3
  <1>7. QED
    BY <1>3, <1>6 DEF ProbeAgain

\* The reading of the document, under the Job lock.
LEMMA ReadInv ==
  ASSUME IInv, NEW p \in Processes, Read(p)
  PROVE  IInv'
  <1> USE DEF At, Is
  <1>1. req[p].at = "read" /\ req[p].at \in Steps \ {"probe", "lock"}
    BY DEF Read, Steps
  <1>2. InLock(p) /\ Effect(p) /\ ~Is(p, {"create"})
    BY <1>1, InsideFacts, LookEffect DEF Read, PathAt
  <1>3. CASE Done(p, FALSE)
    BY <1>2, <1>3, DoneInv
  <1>4. CASE Is(p, {"install", "start"}) /\ Goto(p, "hold")
    <2>1. PathAt(p, "hold") /\ GuardAt(p, "hold") /\ ServiceAt(p, "hold", svc'[Job(p)])
      BY <1>4 DEF PathAt, GuardAt, ServiceAt, Interfacing
    <2>2. ~InSession(p)
      BY <1>1, <1>4, InsideFacts
    <2>3. QED
      BY <1>1, <1>2, <1>4, <2>1, <2>2, GotoInv DEF Steps
  <1>5. CASE Goto(p, "inspect")
    <2>1. /\ PathAt(p, "inspect") /\ GuardAt(p, "inspect") /\ SessionAt("inspect")
          /\ ServiceAt(p, "inspect", svc'[Job(p)])
      BY <1>2 DEF PathAt, GuardAt, ServiceAt, SessionAt
    <2>2. QED
      BY <1>1, <1>2, <1>5, <2>1, GotoInv DEF Steps
  <1>6. QED
    BY <1>3, <1>4, <1>5 DEF Read

\* The first look at the Interface's fence.
LEMMA HoldInv ==
  ASSUME IInv, NEW p \in Processes, Hold(p)
  PROVE  IInv'
  <1> USE DEF At, Is
  <1>1. req[p].at = "hold" /\ req[p].at \in Steps \ {"probe", "lock"}
    BY DEF Hold, Steps
  <1>2. InLock(p) /\ Effect(p) /\ Is(p, Interfacing) /\ ~InSession(p)
    BY <1>1, InsideFacts, LookEffect DEF Hold, PathAt, Interfacing
  <1>3. CASE Done(p, FALSE)
    BY <1>2, <1>3, DoneInv
  <1>4. CASE Goto(p, "enter")
    <2>1. ServiceAt(p, "hold", svc[Job(p)]) /\ svc' = svc
      BY <1>1, InsideFacts DEF Hold
    <2>2. PathAt(p, "enter") /\ GuardAt(p, "enter") /\ ServiceAt(p, "enter", svc'[Job(p)])
      BY <1>2, <2>1 DEF PathAt, GuardAt, ServiceAt
    <2>3. QED
      BY <1>1, <1>2, <1>4, <2>2, GotoInv DEF Steps
  <1>5. QED
    BY <1>3, <1>4 DEF Hold

\* The second look at the Interface's fence: when it passes, no mutation of the
\* Interface is under way, and the next one will find this reader.
LEMMA HoldAgainInv ==
  ASSUME IInv, NEW p \in Processes, HoldAgain(p)
  PROVE  IInv'
  <1> USE DEF At, Is
  <1>1. req[p].at = "holdAgain" /\ req[p].at \in Steps \ {"probe", "lock"}
    BY DEF HoldAgain, Steps
  <1>2. InLock(p) /\ Effect(p) /\ Is(p, Interfacing) /\ ~InSession(p)
    BY <1>1, InsideFacts, LookEffect DEF HoldAgain, PathAt, Interfacing
  <1>3. CASE Done(p, FALSE)
    BY <1>2, <1>3, DoneInv
  <1>4. ASSUME MayPass(ifaceFence), NEW step \in {"validate", "inspect"}, Goto(p, step),
               step = IF Is(p, {"create", "update"}) THEN "validate" ELSE "inspect"
        PROVE  IInv'
    <2>1. ServiceAt(p, "holdAgain", svc[Job(p)]) /\ svc' = svc
      BY <1>1, InsideFacts DEF HoldAgain
    <2>2. PathAt(p, step) /\ ServiceAt(p, step, svc'[Job(p)])
      BY <1>2, <1>4, <2>1 DEF PathAt, ServiceAt, Interfacing
    <2>3. admin.at = "idle" /\ reader[Job(p)] = p
      BY <1>1, <1>4 DEF IInv, Guarded, Reading, Typed, MayPass
    <2>4. GuardAt(p, step)
      BY <1>4, <2>3 DEF GuardAt
    <2>5. QED
      BY <1>1, <1>2, <1>4, <2>2, <2>4, GotoInv DEF Steps
  <1>5. QED
    BY <1>3, <1>4 DEF HoldAgain

\* The validation of the configuration.
LEMMA ValidateInv ==
  ASSUME IInv, NEW p \in Processes, Validate(p)
  PROVE  IInv'
  <1> USE DEF At, Is
  <1>1. req[p].at = "validate" /\ req[p].at \in Steps \ {"probe", "lock"}
    BY DEF Validate, Steps
  <1>2. InLock(p) /\ Effect(p) /\ Is(p, {"create", "update"}) /\ ~InSession(p)
    BY <1>1, InsideFacts, LookEffect DEF Validate, PathAt
  <1>3. CASE Done(p, FALSE)
    BY <1>2, <1>3, DoneInv
  <1>4. ASSUME req[p].to \in {"plain", iface}, NEW step \in {"inspect", "save"}, Goto(p, step),
               step = IF Is(p, {"create"}) THEN "inspect" ELSE "save"
        PROVE  IInv'
    <2>1. ServiceAt(p, "validate", svc[Job(p)]) /\ svc' = svc /\ GuardAt(p, "validate")
      BY <1>1, InsideFacts DEF Validate
    <2>2. PathAt(p, step) /\ ServiceAt(p, step, svc'[Job(p)])
      BY <1>2, <1>4, <2>1 DEF PathAt, ServiceAt
    <2>3. GuardAt(p, step)
      BY <1>2, <1>4, <2>1, NamesAssumption DEF GuardAt
    <2>4. QED
      BY <1>1, <1>2, <1>4, <2>2, <2>3, GotoInv DEF Steps
  <1>5. QED
    BY <1>3, <1>4 DEF Validate

\* Where an operation goes after its look at the service.
LEMMA AfterInspectFits ==
  ASSUME IInv, NEW p \in Processes, At(p, "inspect"), NEW step, step = AfterInspect(p),
         step # "refuse"
  PROVE  /\ step \in {"create", "install", "start", "stop", "hold", "validate",
                      "remove", "uninstall"}
         /\ PathAt(p, step) /\ GuardAt(p, step) /\ ServiceAt(p, step, svc[Job(p)])
         /\ InSession(p) => SessionAt(step)
  <1> USE DEF At, Is
  <1>1. req[p].at = "inspect" /\ req[p].at \in Steps \ {"probe", "lock"}
    BY DEF Steps
  <1>2. \/ Is(p, {"create"})  /\ svc[Job(p)] = "none" /\ step = "create"
        \/ Is(p, {"install"}) /\ svc[Job(p)] = "none" /\ step = "install"
        \/ Is(p, {"start"})   /\ svc[Job(p)] = "none" /\ step = "install"
        \/ Is(p, {"start"})   /\ svc[Job(p)] = "stopped" /\ step = "start"
        \/ Is(p, {"stop", "packageStop"}) /\ step = "stop"
        \/ Is(p, {"update"}) /\ svc[Job(p)] # "busy"
             /\ (step = "hold" \/ (step = "validate" /\ ~NeedsInterface(p)))
        \/ Is(p, {"delete"})  /\ svc[Job(p)] = "none" /\ step = "remove"
        \/ Is(p, {"delete"})  /\ svc[Job(p)] = "stopped" /\ step = "uninstall"
    <2>1. CASE req[p].op = "create"
      BY <2>1 DEF AfterInspect
    <2>2. CASE req[p].op = "update"
      BY <2>2 DEF AfterInspect
    <2>3. CASE req[p].op = "install"
      BY <2>3 DEF AfterInspect
    <2>4. CASE req[p].op = "start"
      BY <2>4 DEF AfterInspect
    <2>5. CASE req[p].op = "stop"
      BY <2>5 DEF AfterInspect
    <2>6. CASE req[p].op = "delete"
      BY <2>6 DEF AfterInspect
    <2>7. CASE req[p].op = "packageStop"
      BY <2>7 DEF AfterInspect
    <2>8. req[p].op \in Ops
      BY <1>1, InsideFacts
    <2>9. QED
      BY <2>1, <2>2, <2>3, <2>4, <2>5, <2>6, <2>7, <2>8 DEF Ops
  <1>3. GuardAt(p, "inspect")
    BY <1>1, InsideFacts
  <1>4. GuardAt(p, step)
    BY <1>2, <1>3 DEF GuardAt, NeedsInterface
  <1>5. InSession(p) => SessionAt(step)
    <2>1. InSession(p) => \/ pkg.at = "stop" /\ Is(p, {"packageStop"})
                          \/ pkg.at = "delete" /\ Is(p, {"delete"})
      BY <1>1, InsideFacts
    <2>2. QED
      BY <1>2, <2>1 DEF SessionAt
  <1>6. QED
    BY <1>2, <1>4, <1>5 DEF PathAt, ServiceAt, Interfacing

\* The look at the service before the operation.
LEMMA InspectInv ==
  ASSUME IInv, NEW p \in Processes, Inspect(p)
  PROVE  IInv'
  <1>1. req[p].at = "inspect" /\ req[p].at \in Steps \ {"probe", "lock"}
    BY DEF Inspect, Steps, At
  <1>2. InLock(p) /\ Effect(p)
    BY <1>1, InsideFacts, LookEffect DEF Inspect
  <1>3. ASSUME NEW ok \in BOOLEAN, Done(p, ok) PROVE IInv'
    BY <1>2, <1>3, DoneInv
  <1>4. ASSUME NEW step, step = AfterInspect(p), step # "refuse", Goto(p, step) PROVE IInv'
    <2>1. /\ step \in {"create", "install", "start", "stop", "hold", "validate",
                       "remove", "uninstall"}
          /\ PathAt(p, step) /\ GuardAt(p, step) /\ ServiceAt(p, step, svc[Job(p)])
          /\ InSession(p) => SessionAt(step)
      BY <1>1, <1>4, AfterInspectFits DEF At
    <2>2. ServiceAt(p, step, svc'[Job(p)])
      BY <2>1 DEF Inspect
    <2>3. QED
      BY <1>1, <1>2, <1>4, <2>1, <2>2, GotoInv DEF Steps, At
  <1>5. Is(p, {"packageStop"}) \in BOOLEAN
    BY DEF Is
  <1>6. QED
    BY <1>3, <1>4, <1>5 DEF Inspect

\* The exclusive creation of the document.
LEMMA CreateInv ==
  ASSUME IInv, NEW p \in Processes, Create(p)
  PROVE  IInv'
  <1>1. req[p].at = "create" /\ req[p].at \in Steps \ {"probe", "lock"}
    BY DEF Create, Steps, At
  <1>2. InLock(p) /\ Is(p, {"create"}) /\ ~InSession(p) /\ Job(p) \in Jobs
    BY <1>1, InsideFacts DEF PathAt, Is
  <1>3. Effect(p)
    <2>1. /\ doc' = doc \/ doc' = [doc EXCEPT ![Job(p)] = "partial"]
          /\ UNCHANGED <<iface, startFile, svc, locks, admin>>
      BY DEF Create, SetDoc
    <2>2. doc' \in [Jobs -> {"none", "partial"} \cup Configs]
      BY <2>1 DEF IInv, Typed
    <2>3. ReferencesHold'
      BY <1>2, <2>1, NamesAssumption DEF IInv, Typed, ReferencesHold
    <2>4. QED
      BY <2>1, <2>2, <2>3 DEF Effect, IInv, Typed
  <1>4. CASE Done(p, FALSE)
    BY <1>2, <1>3, <1>4, DoneInv
  <1>5. CASE Goto(p, "write")
    <2>1. GuardAt(p, "create") /\ ServiceAt(p, "create", svc[Job(p)]) /\ svc' = svc
      BY <1>1, InsideFacts DEF Create
    <2>2. PathAt(p, "write") /\ GuardAt(p, "write") /\ ServiceAt(p, "write", svc'[Job(p)])
      BY <1>2, <2>1 DEF PathAt, GuardAt, ServiceAt, Is
    <2>3. QED
      BY <1>1, <1>2, <1>3, <1>5, <2>2, GotoInv DEF Steps, At
  <1>6. QED
    BY <1>4, <1>5 DEF Create

\* The content of a new document fits the Interface it was validated against.
LEMMA WriteInv ==
  ASSUME IInv, NEW p \in Processes, Write(p)
  PROVE  IInv'
  <1>1. req[p].at = "write" /\ req[p].at \in Steps \ {"probe", "lock"}
    BY DEF Write, Steps, At
  <1>2. /\ InLock(p) /\ Is(p, {"create"}) /\ ~InSession(p) /\ Job(p) \in Jobs
        /\ req[p].to \in Configs
    BY <1>1, InsideFacts DEF PathAt, Is
  <1>3. GuardAt(p, "write") /\ ServiceAt(p, "write", svc[Job(p)]) /\ svc' = svc
    BY <1>1, InsideFacts DEF Write
  <1>4. req[p].to \in Shapes => req[p].to = iface
    BY <1>2, <1>3 DEF GuardAt
  <1>5. Effect(p)
    <2>1. PICK d \in {"none", "partial", req[p].to} : doc' = [doc EXCEPT ![Job(p)] = d]
      BY DEF Write, SetDoc
    <2>2. UNCHANGED <<iface, startFile, svc, locks, admin>>
      BY DEF Write
    <2>3. doc' \in [Jobs -> {"none", "partial"} \cup Configs]
      BY <1>2, <2>1 DEF IInv, Typed
    <2>4. ReferencesHold'
      BY <1>2, <1>4, <2>1, <2>2, NamesAssumption DEF IInv, Typed, ReferencesHold
    <2>5. QED
      BY <2>2, <2>3, <2>4 DEF Effect, IInv, Typed
  <1>6. CASE Done(p, FALSE)
    BY <1>2, <1>5, <1>6, DoneInv
  <1>7. CASE Goto(p, "install")
    <2>1. PathAt(p, "install") /\ GuardAt(p, "install") /\ ServiceAt(p, "install", svc'[Job(p)])
      BY <1>2, <1>3 DEF PathAt, GuardAt, ServiceAt, Is
    <2>2. QED
      BY <1>1, <1>2, <1>5, <1>7, <2>1, GotoInv DEF Steps, At
  <1>8. QED
    BY <1>6, <1>7 DEF Write

\* What an update saves fits the Interface it was validated against.
LEMMA SaveInv ==
  ASSUME IInv, NEW p \in Processes, Save(p)
  PROVE  IInv'
  <1>1. req[p].at = "save" /\ req[p].at \in Steps \ {"probe", "lock"}
    BY DEF Save, Steps, At
  <1>2. /\ InLock(p) /\ Is(p, {"update"}) /\ Job(p) \in Jobs /\ req[p].to \in Configs
        /\ GuardAt(p, "save")
    BY <1>1, InsideFacts DEF PathAt
  <1>3. req[p].to \in Shapes => req[p].to = iface
    BY <1>2 DEF GuardAt
  <1>4. Effect(p)
    BY <1>2, <1>3, NamesAssumption
    DEF Save, SetDoc, Effect, IInv, Typed, ReferencesHold, Configs, files, locks
  <1>5. QED
    BY <1>2, <1>4, DoneInv DEF Save

\* What a call of the controller can do, whatever it replies.
LEMMA CallEffect ==
  ASSUME IInv, NEW p \in Processes, Job(p) \in Jobs,
         NEW from \in SUBSET {"none", "stopped", "busy"},
         NEW to \in SUBSET {"none", "stopped", "busy"}, NEW ok \in BOOLEAN,
         Call(Job(p), from, to, ok), UNCHANGED <<files, locks, admin>>
  PROVE  /\ Effect(p)
         /\ svc[Job(p)] \in from => svc'[Job(p)] \in to \cup {svc[Job(p)]}
         /\ svc[Job(p)] \in from /\ ok => svc'[Job(p)] \in to
         /\ svc[Job(p)] \notin from => svc'[Job(p)] = svc[Job(p)]
  <1>1. svc \in [Jobs -> {"none", "stopped", "busy"}]
    BY DEF IInv, Typed
  <1>2. PICK s \in (IF svc[Job(p)] \in from THEN to ELSE {})
                     \cup (IF ok /\ svc[Job(p)] \in from THEN {} ELSE {svc[Job(p)]}) :
               svc' = [svc EXCEPT ![Job(p)] = s]
    BY DEF Call
  <1>3. s \in {"none", "stopped", "busy"}
    BY <1>1, <1>2
  <1>4. /\ svc' \in [Jobs -> {"none", "stopped", "busy"}] /\ svc'[Job(p)] = s
        /\ \A j \in Jobs \ {Job(p)} : svc'[j] = svc[j]
    BY <1>1, <1>2, <1>3
  <1>5. Effect(p)
    BY <1>4 DEF Effect, IInv, Typed, ReferencesHold, files, locks
  <1>6. QED
    BY <1>1, <1>2, <1>4, <1>5

\* The installation of the service.
LEMMA InstallInv ==
  ASSUME IInv, NEW p \in Processes, Install(p)
  PROVE  IInv'
  <1>1. req[p].at = "install" /\ req[p].at \in Steps \ {"probe", "lock"}
    BY DEF Install, Steps, At
  <1>2. /\ InLock(p) /\ Is(p, {"create", "install", "start"}) /\ ~InSession(p)
        /\ Job(p) \in Jobs /\ svc[Job(p)] = "none"
    BY <1>1, InsideFacts DEF PathAt, ServiceAt, Is
  <1>3. PICK ok \in BOOLEAN :
          /\ Call(Job(p), {"none"}, {"stopped"}, ok)
          /\ IF ok THEN Goto(p, "confirm")
             ELSE IF Is(p, {"create"}) THEN Goto(p, "remove") ELSE Done(p, FALSE)
    BY DEF Install
  <1>4. Effect(p) /\ svc'[Job(p)] \in {"none", "stopped"}
    BY <1>2, <1>3, CallEffect DEF Install
  <1>5. CASE Done(p, FALSE)
    BY <1>2, <1>4, <1>5, DoneInv
  <1>6. ASSUME NEW step \in {"confirm", "remove"}, Goto(p, step),
               step = "remove" => Is(p, {"create"})
        PROVE  IInv'
    <2>1. PathAt(p, step) /\ GuardAt(p, step) /\ ServiceAt(p, step, svc'[Job(p)])
      BY <1>2, <1>4, <1>6 DEF PathAt, GuardAt, ServiceAt, Is
    <2>2. QED
      BY <1>1, <1>2, <1>4, <1>6, <2>1, GotoInv DEF Steps, At
  <1>7. QED
    BY <1>3, <1>5, <1>6

\* The look at the service after the call of the controller.
LEMMA ConfirmInv ==
  ASSUME IInv, NEW p \in Processes, Confirm(p)
  PROVE  IInv'
  <1>1. req[p].at = "confirm" /\ req[p].at \in Steps \ {"probe", "lock"}
    BY DEF Confirm, Steps, At
  <1>2. InLock(p) /\ Effect(p) /\ ServiceAt(p, "confirm", svc[Job(p)]) /\ svc' = svc
    BY <1>1, InsideFacts, LookEffect DEF Confirm
  <1>3. ASSUME NEW ok \in BOOLEAN, Done(p, ok) PROVE IInv'
    BY <1>2, <1>3, DoneInv
  <1>4. ASSUME NEW step \in {"start", "uninstall"}, Goto(p, step),
               step = "start" => Is(p, {"start"}),
               step = "uninstall" => Is(p, {"create", "install"})
        PROVE  IInv'
    <2>1. PathAt(p, step) /\ GuardAt(p, step) /\ ServiceAt(p, step, svc'[Job(p)])
      BY <1>2, <1>4 DEF PathAt, GuardAt, ServiceAt, Is
    <2>2. ~InSession(p)
      BY <1>1, <1>4, InsideFacts DEF Is
    <2>3. QED
      BY <1>1, <1>2, <1>4, <2>1, <2>2, GotoInv DEF Steps, At
  <1>5. QED
    BY <1>3, <1>4 DEF Confirm

\* The start of the service.
LEMMA StartInv ==
  ASSUME IInv, NEW p \in Processes, Start(p)
  PROVE  IInv'
  <1>1. req[p].at \in Steps \ {"probe", "lock"}
    BY DEF Start, Steps, At
  <1>2. InLock(p) /\ Job(p) \in Jobs
    BY <1>1, InsideFacts
  <1>3. PICK ok \in BOOLEAN : Call(Job(p), {"stopped"}, {"busy"}, ok) /\ Done(p, ok)
    BY DEF Start
  <1>4. Effect(p)
    <2>1. UNCHANGED <<files, locks, admin>>
      BY DEF Start
    <2>2. /\ {"stopped"} \in SUBSET {"none", "stopped", "busy"}
          /\ {"busy"} \in SUBSET {"none", "stopped", "busy"}
          /\ {"stopped", "busy"} \in SUBSET {"none", "stopped", "busy"}
      OBVIOUS
    <2>3. QED
      BY <1>2, <1>3, <2>1, <2>2, CallEffect
  <1>5. QED
    BY <1>2, <1>3, <1>4, DoneInv

\* The stop of the service, of the API or in the package script's session.
LEMMA StopInv ==
  ASSUME IInv, NEW p \in Processes, Stop(p)
  PROVE  IInv'
  <1>1. req[p].at = "stop" /\ req[p].at \in Steps \ {"probe", "lock"}
    BY DEF Stop, Steps, At
  <1>2. InLock(p) /\ Job(p) \in Jobs
    BY <1>1, InsideFacts
  <1>3. PICK ok \in BOOLEAN :
          /\ Call(Job(p), {"busy"}, {"stopped", "busy"}, ok)
          /\ IF ok /\ Is(p, {"packageStop"}) THEN Goto(p, "confirm") ELSE Done(p, ok)
    BY DEF Stop
  <1>4. Effect(p)
    <2>1. UNCHANGED <<files, locks, admin>>
      BY DEF Stop
    <2>2. /\ {"stopped"} \in SUBSET {"none", "stopped", "busy"}
          /\ {"busy"} \in SUBSET {"none", "stopped", "busy"}
          /\ {"stopped", "busy"} \in SUBSET {"none", "stopped", "busy"}
      OBVIOUS
    <2>3. QED
      BY <1>2, <1>3, <2>1, <2>2, CallEffect
  <1>5. CASE Done(p, ok)
    BY <1>2, <1>4, <1>5, DoneInv
  <1>6. CASE Goto(p, "confirm") /\ Is(p, {"packageStop"})
    <2>1. PathAt(p, "confirm") /\ GuardAt(p, "confirm") /\ ServiceAt(p, "confirm", svc'[Job(p)])
      BY <1>6 DEF PathAt, GuardAt, ServiceAt, Is
    <2>2. InSession(p) => SessionAt("confirm")
      BY <1>1, <1>6, InsideFacts DEF SessionAt, Is
    <2>3. QED
      BY <1>1, <1>2, <1>4, <1>6, <2>1, <2>2, GotoInv DEF Steps, At
  <1>7. QED
    BY <1>3, <1>5, <1>6

\* The removal of the service: a delete goes on only when it is gone.
LEMMA UninstallInv ==
  ASSUME IInv, NEW p \in Processes, Uninstall(p)
  PROVE  IInv'
  <1>1. req[p].at = "uninstall" /\ req[p].at \in Steps \ {"probe", "lock"}
    BY DEF Uninstall, Steps, At
  <1>2. /\ InLock(p) /\ Job(p) \in Jobs /\ svc[Job(p)] # "busy"
        /\ svc[Job(p)] \in {"none", "stopped", "busy"}
    BY <1>1, InsideFacts DEF ServiceAt, Typed
  <1>3. PICK ok \in BOOLEAN :
          /\ Call(Job(p), {"stopped"}, {"none"}, ok)
          /\ IF Is(p, {"create"}) \/ (ok /\ Is(p, {"delete"}))
             THEN Goto(p, "remove") ELSE Done(p, FALSE)
    BY DEF Uninstall
  <1>4. Effect(p) /\ svc'[Job(p)] # "busy" /\ (ok => svc'[Job(p)] = "none")
    <2>1. UNCHANGED <<files, locks, admin>>
      BY DEF Uninstall
    <2>2. QED
      BY <1>2, <1>3, <2>1, CallEffect
  <1>5. CASE Done(p, FALSE)
    BY <1>2, <1>4, <1>5, DoneInv
  <1>6. CASE Goto(p, "remove") /\ (Is(p, {"create"}) \/ (ok /\ Is(p, {"delete"})))
    <2>1. PathAt(p, "remove") /\ GuardAt(p, "remove") /\ ServiceAt(p, "remove", svc'[Job(p)])
      BY <1>4, <1>6 DEF PathAt, GuardAt, ServiceAt, Is
    <2>2. InSession(p) => SessionAt("remove")
      BY <1>1, InsideFacts, <1>6 DEF SessionAt, Is
    <2>3. QED
      BY <1>1, <1>2, <1>4, <1>6, <2>1, <2>2, GotoInv DEF Steps, At
  <1>7. QED
    BY <1>3, <1>5, <1>6

\* The removal of the document.
LEMMA RemoveInv ==
  ASSUME IInv, NEW p \in Processes, Remove(p)
  PROVE  IInv'
  <1>1. req[p].at \in Steps \ {"probe", "lock"}
    BY DEF Remove, Steps, At
  <1>2. InLock(p) /\ Job(p) \in Jobs /\ Is(p, {"delete"}) \in BOOLEAN
    BY <1>1, InsideFacts DEF Is
  <1>3. Effect(p)
    BY <1>2, NamesAssumption
    DEF Remove, SetDoc, Effect, IInv, Typed, ReferencesHold, files, locks
  <1>4. QED
    BY <1>2, <1>3, DoneInv DEF Remove

\* A request that has no lock yet, or none any more, concerns nobody else.
LEMMA OutsideInv ==
  ASSUME IInv, NEW p \in Processes, ~InLock(p),
         req' \in [Processes -> Requests], ~InLock(p)',
         \A q \in Processes \ {p} : req'[q] = req[q],
         p \in Callers => ~Is(p, {"packageStop"})',
         p = "pkg" /\ Active(p)' => pkg.at = "each" /\ Is(p, {"install", "start"})',
         UNCHANGED <<files, svc, locks, admin>>,
         overtaken' \in {overtaken, overtaken \ {p}},
         pkg' \in Packages, pkg'.op = pkg.op, pkg'.at = pkg.at, pkg'.targets = pkg.targets,
         pkg'.restart = pkg.restart, pkg'.todo \subseteq pkg.todo,
         pkg' = pkg \/ pkg.at = "each"
  PROVE  IInv'
  <1> USE DEF files, locks
  <1>1. req'[p].at \in {"idle", "probe", "lock"}
    BY DEF InLock, Active, Requests, NoRequest, Ops
  <1>2. req[p].at \in {"idle", "probe", "lock"}
    BY RequestFields DEF IInv, InLock
  <1>3. Typed'
    BY DEF IInv, Typed
  <1>4. Paths'
    BY <1>1 DEF IInv, Paths, PathAt, Is
  <1>5. Holding'
    <2>1. \A q \in Processes : InLock(q)' <=> InLock(q)
      BY DEF InLock, Active
    <2>2. \A q \in Processes : InLock(q) => Job(q)' = Job(q)
      BY DEF Job
    <2>3. QED
      BY <2>1, <2>2 DEF IInv, Holding, Processes
  <1>6. Reading'
    <2>1. \A q \in Processes : InLock(q)' <=> InLock(q)
      BY DEF InLock, Active
    <2>2. \A q \in Processes : InLock(q) => req'[q] = req[q]
      OBVIOUS
    <2>3. QED
      BY <1>1, <2>1, <2>2 DEF IInv, Reading, Job, Is, At
  <1>7. Session'
    <2>1. \A q \in Callers : ~Is(q, {"packageStop"})'
      BY DEF IInv, Session, Is, Processes
    <2>2. CASE p = "pkg"
      BY <1>1, <2>1, <2>2 DEF IInv, Session, SessionAt, Active, Is
    <2>3. CASE p # "pkg"
      <3>1. req'["pkg"] = req["pkg"] /\ (Active("pkg")' <=> Active("pkg"))
              /\ \A ops : Is("pkg", ops)' <=> Is("pkg", ops)
        BY <2>3 DEF Processes, Active, Is
      <3>2. QED
        BY <2>1, <3>1 DEF IInv, Session, SessionAt, Job
    <2>4. QED
      BY <2>2, <2>3
  <1>8. Passed'
    BY <1>1 DEF IInv, Passed, Working, Processes
  <1>9. Guarded'
    BY <1>1 DEF IInv, Guarded, GuardAt, Is, Job
  <1>10. Services'
    BY <1>1 DEF IInv, Services, ServiceAt, Is, Job
  <1>11. ReferencesHold'
    BY DEF IInv, ReferencesHold
  <1>12. QED
    BY <1>3, <1>4, <1>5, <1>6, <1>7, <1>8, <1>9, <1>10, <1>11 DEF IInv

\* What does not concern the package script leaves its session as it is.
LEMMA SessionKept ==
  ASSUME IInv, req'["pkg"] = req["pkg"], pkg' = pkg, fence' = fence,
         \A j \in Jobs : jobLock[j] = "pkg" => jobLock'[j] = "pkg",
         \A q \in Callers : ~Is(q, {"packageStop"})'
  PROVE  Session'
  <1>1. /\ Active("pkg")' <=> Active("pkg")
        /\ \A ops : Is("pkg", ops)' <=> Is("pkg", ops)
        /\ Job("pkg")' = Job("pkg")
    BY DEF Active, Is, Job
  <1>2. pkg.targets \subseteq Jobs
    BY DEF IInv, Typed, Packages
  <1>3. pkg'.at \in {"locks", "stop", "delete"} =>
          \A j \in pkg'.targets : jobLock'[j] = "pkg" \/ (pkg'.at = "locks" /\ j \in pkg'.todo)
    BY <1>2 DEF IInv, Session
  <1>4. Active("pkg")' =>
          /\ \/ pkg'.at = "each" /\ Is("pkg", {"install", "start"})'
             \/ pkg'.at = "stop" /\ Is("pkg", {"packageStop"})' /\ Job("pkg")' \in pkg'.targets
             \/ pkg'.at = "delete" /\ Is("pkg", {"delete"})' /\ Job("pkg")' \in pkg'.targets
          /\ SessionAt(req["pkg"].at)'
    BY <1>1 DEF IInv, Session, SessionAt
  <1>5. /\ fence' = "pkg" <=> pkg'.at \in {"list", "locks", "stop", "delete", "release"}
        /\ pkg'.at = "each" => pkg'.op \in {"install", "start"}
        /\ fence' = "pkg" => pkg'.op \in {"stop", "uninstall"}
        /\ pkg'.at \in {"stop", "delete"} => pkg'.todo \subseteq pkg'.targets
        /\ pkg'.at = "locks" => pkg'.restart \subseteq pkg'.targets
    BY DEF IInv, Session
  <1>6. QED
    BY <1>3, <1>4, <1>5 DEF Session

\* A request of the API begins outside of every lock.
LEMMA RequestInv ==
  ASSUME IInv, NEW p \in Processes, Request(p)
  PROVE  IInv'
  <1>1. PICK o \in Ops \ {"install", "packageStop"}, j \in Jobs, c \in Configs :
          Begin(p, o, j, c, "probe")
    BY DEF Request, Configs
  <1>2. /\ req' \in [Processes -> Requests] /\ req'[p].at = "probe" /\ req'[p].op = o
        /\ \A q \in Processes \ {p} : req'[q] = req[q]
    BY <1>1 DEF Begin, IInv, Typed, Requests, Steps
  <1>3. p \in Callers /\ p # "pkg" /\ ~InLock(p) /\ ~InLock(p)'
    BY <1>2, NamesAssumption DEF Request, InLock, Active, NoRequest
  <1>4. ~Is(p, {"packageStop"})'
    BY <1>2 DEF Is
  <1>5. pkg' = pkg /\ overtaken' = overtaken /\ UNCHANGED <<files, svc, locks, admin>> /\ pkg \in Packages
    BY DEF Request, IInv, Typed
  <1>6. QED
    BY <1>2, <1>3, <1>4, <1>5, OutsideInv

\* The first look at the package's fence.
LEMMA ProbeInv ==
  ASSUME IInv, NEW p \in Processes, Probe(p)
  PROVE  IInv'
  <1>1. req[p].at = "probe" /\ Active(p) /\ Typed /\ ~InLock(p)
    BY RequestFields DEF IInv, Probe, At, Steps, InLock
  <1>2. p = "pkg" => pkg.at = "each" /\ Is(p, {"install", "start"})
    BY <1>1 DEF IInv, Session, SessionAt
  <1>3. p \in Callers => ~Is(p, {"packageStop"})
    BY DEF IInv, Session
  <1>4. UNCHANGED <<files, svc, locks, admin>> /\ pkg \in Packages
    BY <1>1 DEF Probe, Typed
  <1>5. CASE Goto(p, "lock")
    <2>1. /\ req' \in [Processes -> Requests] /\ req'[p].at = "lock" /\ req'[p].op = req[p].op
          /\ \A q \in Processes \ {p} : req'[q] = req[q]
          /\ pkg' = pkg /\ overtaken' = overtaken
      BY <1>1, <1>5, GotoStep DEF Steps
    <2>2. ~InLock(p)' /\ (Is(p, {"packageStop"})' <=> Is(p, {"packageStop"}))
            /\ (Is(p, {"install", "start"})' <=> Is(p, {"install", "start"}))
      BY <2>1 DEF InLock, Is
    <2>3. QED
      BY <1>1, <1>2, <1>3, <1>4, <2>1, <2>2, OutsideInv
  <1>6. CASE Return(p, FALSE)
    <2>1. /\ req' \in [Processes -> Requests] /\ req'[p] = NoRequest
          /\ \A q \in Processes \ {p} : req'[q] = req[q]
          /\ overtaken' = overtaken \ {p} /\ pkg' \in Packages
          /\ pkg'.op = pkg.op /\ pkg'.at = pkg.at /\ pkg'.targets = pkg.targets
          /\ pkg'.restart = pkg.restart /\ pkg'.todo \subseteq pkg.todo
          /\ p # "pkg" => pkg' = pkg
      BY <1>1, <1>6, ReturnStep
    <2>2. ~InLock(p)' /\ ~Active(p)' /\ ~Is(p, {"packageStop"})'
      BY <2>1 DEF InLock, Active, Is, NoRequest
    <2>3. QED
      BY <1>1, <1>2, <1>4, <2>1, <2>2, OutsideInv
  <1>7. QED
    BY <1>5, <1>6 DEF Probe

\* The Job lock is taken from nobody who is alive.
LEMMA LockInv ==
  ASSUME IInv, NEW p \in Processes, Lock(p)
  PROVE  IInv'
  <1>1. req[p].at = "lock" /\ Active(p) /\ Typed /\ ~InLock(p) /\ Job(p) \in Jobs
    BY RequestFields DEF IInv, Lock, At, Steps, InLock
  <1>2. p = "pkg" => pkg.at = "each" /\ Is(p, {"install", "start"})
    BY <1>1 DEF IInv, Session, SessionAt
  <1>3. CASE Return(p, FALSE) /\ UNCHANGED jobLock
    <2>1. /\ req' \in [Processes -> Requests] /\ req'[p] = NoRequest
          /\ \A q \in Processes \ {p} : req'[q] = req[q]
          /\ overtaken' = overtaken \ {p} /\ pkg' \in Packages
          /\ pkg'.op = pkg.op /\ pkg'.at = pkg.at /\ pkg'.targets = pkg.targets
          /\ pkg'.restart = pkg.restart /\ pkg'.todo \subseteq pkg.todo
          /\ p # "pkg" => pkg' = pkg
      BY <1>1, <1>3, ReturnStep
    <2>2. ~InLock(p)' /\ ~Active(p)' /\ ~Is(p, {"packageStop"})'
      BY <2>1 DEF InLock, Active, Is, NoRequest
    <2>3. UNCHANGED <<files, svc, locks, admin>>
      BY <1>3 DEF Lock, locks
    <2>4. QED
      BY <1>1, <1>2, <2>1, <2>2, <2>3, OutsideInv
  <1>4. CASE MayPass(jobLock[Job(p)]) /\ jobLock' = [jobLock EXCEPT ![Job(p)] = p]
               /\ Goto(p, "probeAgain")
    <2>1. /\ req' \in [Processes -> Requests] /\ req'[p].at = "probeAgain"
          /\ req'[p].op = req[p].op /\ req'[p].job = req[p].job /\ req'[p].to = req[p].to
          /\ \A q \in Processes \ {p} : req'[q] = req[q]
          /\ pkg' = pkg /\ overtaken' = overtaken
      BY <1>1, <1>4, GotoStep DEF Steps
    <2>2. /\ jobLock' \in [Jobs -> Holders] /\ jobLock'[Job(p)] = p
          /\ \A j \in Jobs \ {Job(p)} : jobLock'[j] = jobLock[j]
          /\ jobLock[Job(p)] \notin Owners
      BY <1>1, <1>4, NamesAssumption DEF Typed, Holders, Owners, Processes, MayPass
    <2>3. UNCHANGED <<files, svc, fence, ifaceFence, reader, admin>>
      BY <1>4 DEF Lock
    <2> HIDE DEF Lock
    <2>4. Typed'
      BY <1>1, <2>1, <2>2, <2>3 DEF Typed, files
    <2>5. Paths' /\ Services' /\ ReferencesHold'
      BY <2>1, <2>3 DEF IInv, Paths, PathAt, Services, ServiceAt, ReferencesHold, Is, Job, files
    <2>6. Holding'
      <3>1. /\ \A q \in Processes \ {p} : (InLock(q)' <=> InLock(q)) /\ Job(q)' = Job(q)
            /\ InLock(p)' /\ Job(p)' = Job(p)
        BY <1>1, <2>1 DEF InLock, Active, Job
      <3>2. \A q \in Processes : InLock(q)' => jobLock'[Job(q)'] = q
        <4>1. SUFFICES ASSUME NEW q \in Processes \ {p}, InLock(q) PROVE jobLock'[Job(q)] = q
          BY <2>2, <3>1
        <4>2. jobLock[Job(q)] = q /\ Job(q) \in Jobs
          BY <1>1, <4>1, RequestFields DEF IInv, Holding, InLock
        <4>3. QED
          BY <2>2, <4>2 DEF Owners
      <3>3. \A q \in Callers, j \in Jobs : jobLock'[j] = q => InLock(q)' /\ Job(q)' = j
        BY <1>1, <2>2, <3>1 DEF IInv, Holding, Processes
      <3>4. \A j \in Jobs : jobLock'[j] = "pkg" => fence = "pkg" \/ (InLock("pkg")' /\ Job("pkg")' = j)
        BY <1>1, <2>2, <3>1 DEF IInv, Holding, Processes
      <3>5. \A j \in Jobs : jobLock'[j] = "admin" => ifaceFence = "admin"
        BY <2>2, NamesAssumption DEF IInv, Holding, Processes
      <3>6. QED
        BY <2>3, <3>2, <3>3, <3>4, <3>5 DEF Holding
    <2>7. Reading'
      BY <1>1, <2>1, <2>3 DEF IInv, Reading, InLock, Active, Job, Is, At
    <2>8. Session'
      <3>1. \A q \in Callers : ~Is(q, {"packageStop"})'
        BY <2>1 DEF IInv, Session, Is, Processes
      <3>2. \A j \in Jobs : jobLock[j] = "pkg" => jobLock'[j] = "pkg"
        BY <2>2 DEF Owners, Processes
      <3>3. CASE p = "pkg"
        BY <1>2, <2>1, <2>3, <3>1, <3>3 DEF IInv, Session, SessionAt, Active, Is
      <3>4. CASE p # "pkg"
        <4>1. req'["pkg"] = req["pkg"]
          BY <2>1, <3>4 DEF Processes
        <4>2. QED
          BY <2>1, <2>3, <3>1, <3>2, <4>1, SessionKept
      <3>5. QED
        BY <3>3, <3>4
    <2>9. Passed'
      BY <2>1, <2>3 DEF IInv, Passed, Working, Processes
    <2>10. Guarded'
      BY <2>1, <2>3 DEF IInv, Guarded, GuardAt, Is, Job, files
    <2>11. QED
      BY <2>4, <2>5, <2>6, <2>7, <2>8, <2>9, <2>10 DEF IInv
  <1>5. QED
    BY <1>3, <1>4 DEF Lock

\* Two processes inside a Job lock are at different Jobs.
LEMMA Exclusive ==
  ASSUME IInv, NEW p \in Processes, InLock(p), NEW q \in Processes \ {p}, InLock(q)
  PROVE  Job(q) # Job(p)
  BY DEF IInv, Holding

\* A reader comes in where none that is alive is.
LEMMA EnterInv ==
  ASSUME IInv, NEW p \in Processes, Enter(p)
  PROVE  IInv'
  <1>1. req[p].at = "enter" /\ req[p].at \in Steps \ {"probe", "lock"}
    BY DEF Enter, Steps, At
  <1>2. /\ InLock(p) /\ Is(p, Interfacing) /\ ~InSession(p) /\ Typed /\ Active(p)
        /\ Job(p) \in Jobs /\ PathAt(p, "enter") /\ ServiceAt(p, "enter", svc[Job(p)])
    BY <1>1, InsideFacts DEF PathAt, Is, Interfacing
  <1>3. CASE Done(p, FALSE) /\ UNCHANGED reader
    <2>1. Effect(p)
      BY <1>3, LookEffect DEF Enter, locks
    <2>2. QED
      BY <1>2, <1>3, <2>1, DoneInv
  <1>4. CASE MayPass(reader[Job(p)]) /\ reader' = [reader EXCEPT ![Job(p)] = p]
               /\ Goto(p, "holdAgain")
    <2>1. /\ req' \in [Processes -> Requests] /\ req'[p].at = "holdAgain"
          /\ req'[p].op = req[p].op /\ req'[p].job = req[p].job /\ req'[p].to = req[p].to
          /\ \A q \in Processes \ {p} : req'[q] = req[q]
          /\ pkg' = pkg /\ overtaken' = overtaken
      BY <1>2, <1>4, GotoStep DEF Steps
    <2>2. /\ reader' \in [Jobs -> Holders \ {"admin"}] /\ reader'[Job(p)] = p
          /\ \A j \in Jobs \ {Job(p)} : reader'[j] = reader[j]
          /\ reader[Job(p)] \notin Owners
      BY <1>2, <1>4, NamesAssumption DEF Typed, Holders, Owners, Processes, MayPass
    <2>3. UNCHANGED <<files, svc, fence, jobLock, ifaceFence, admin>>
      BY DEF Enter
    <2>4. Typed'
      BY <1>2, <2>1, <2>2, <2>3 DEF Typed, files
    <2>5. Paths' /\ Services' /\ ReferencesHold'
      BY <1>1, <1>2, <2>1, <2>3
      DEF IInv, Paths, PathAt, Services, ServiceAt, ReferencesHold, Is, Job, files
    <2>6. Holding'
      BY <1>1, <1>2, <2>1, <2>3 DEF IInv, Holding, InLock, Active, Job, Processes
    <2>7. Reading'
      <3>1. /\ \A q \in Processes \ {p} : (InLock(q)' <=> InLock(q)) /\ req'[q] = req[q]
            /\ InLock(p)' /\ Job(p)' = Job(p) /\ Is(p, Interfacing)' /\ ~At(p, "unlock")'
        BY <1>1, <1>2, <2>1 DEF InLock, Active, Job, Is, At
      <3>2. ASSUME NEW q \in Processes, NEW j \in Jobs, reader'[j] = q
            PROVE  InLock(q)' /\ Job(q)' = j /\ Is(q, Interfacing)' /\ ~At(q, "unlock")'
        <4>1. CASE j = Job(p)
          BY <2>2, <3>1, <3>2, <4>1
        <4>2. CASE j # Job(p)
          <5>1. reader[j] = q
            BY <2>2, <3>2, <4>2
          <5>2. InLock(q) /\ Job(q) = j /\ Is(q, Interfacing) /\ ~At(q, "unlock")
            BY <5>1 DEF IInv, Reading
          <5>3. q # p
            BY <4>2, <5>2
          <5>4. QED
            BY <3>1, <5>2, <5>3 DEF Job, Is, At
        <4>3. QED
          BY <4>1, <4>2
      <3>3. ASSUME NEW q \in Processes, At(q, "holdAgain")' PROVE reader'[Job(q)'] = q
        <4>1. CASE q = p
          BY <2>2, <3>1, <4>1
        <4>2. CASE q # p
          <5>1. At(q, "holdAgain") /\ Job(q)' = Job(q)
            BY <3>1, <3>3, <4>2 DEF At, Job
          <5>2. reader[Job(q)] = q /\ Job(q) \in Jobs
            BY <1>2, <5>1, RequestFields DEF IInv, Reading, At, Steps
          <5>3. QED
            BY <2>2, <5>1, <5>2 DEF Owners
        <4>3. QED
          BY <4>1, <4>2
      <3>4. QED
        BY <3>2, <3>3 DEF Reading
    <2>8. Session'
      BY <1>1, <1>2, <2>1, <2>3, NamesAssumption
      DEF IInv, Session, SessionAt, Active, Is, Job, Processes, InSession
    <2>9. Passed'
      BY <1>1, <2>1, <2>3 DEF IInv, Passed, Working, Processes
    <2>10. Guarded'
      <3>1. ifaceFence' = "admin" <=> admin'.at # "idle"
        BY <2>3 DEF IInv, Guarded
      <3>2. GuardAt(p, req[p].at)'
        BY <2>1 DEF GuardAt
      <3>3. ASSUME NEW q \in Processes \ {p} PROVE GuardAt(q, req[q].at)'
        <4>1. req'[q] = req[q] /\ GuardAt(q, req[q].at)
          BY <2>1 DEF IInv, Guarded
        <4>2. reader[Job(q)] = q /\ Job(q) \in Jobs => Job(q) # Job(p)
          BY <2>2 DEF Owners
        <4>3. req[q].at \notin {"idle", "probe", "lock"} => Job(q) \in Jobs
          BY <1>2, RequestFields
        <4>4. QED
          BY <2>2, <2>3, <4>1, <4>2, <4>3 DEF GuardAt, Is, Job, files
      <3>4. QED
        BY <3>1, <3>2, <3>3 DEF Guarded
    <2>11. QED
      BY <2>4, <2>5, <2>6, <2>7, <2>8, <2>9, <2>10 DEF IInv
  <1>5. QED
    BY <1>3, <1>4 DEF Enter

\* The reader goes out, and no other one with it.
LEMMA LeaveInv ==
  ASSUME IInv, NEW p \in Processes, Leave(p)
  PROVE  IInv'
  <1>1. req[p].at = "leave" /\ req[p].at \in Steps \ {"probe", "lock"}
    BY DEF Leave, Steps, At
  <1>2. InLock(p) /\ ~InSession(p) /\ Typed /\ Active(p) /\ Job(p) \in Jobs
    BY <1>1, InsideFacts DEF SessionAt
  <1>3. /\ req' \in [Processes -> Requests] /\ req'[p].at = "unlock"
        /\ req'[p].op = req[p].op /\ req'[p].job = req[p].job /\ req'[p].to = req[p].to
        /\ \A q \in Processes \ {p} : req'[q] = req[q]
        /\ pkg' = pkg /\ overtaken' = overtaken
    BY <1>2, GotoStep DEF Leave, Steps
  <1>4. /\ reader' \in [Jobs -> Holders \ {"admin"}] /\ reader'[Job(p)] = "free"
        /\ \A j \in Jobs \ {Job(p)} : reader'[j] = reader[j]
    BY <1>2 DEF Leave, Typed, Holders
  <1>5. UNCHANGED <<files, svc, fence, jobLock, ifaceFence, admin>>
    BY DEF Leave
  <1>6. /\ \A q \in Processes \ {p} : (InLock(q)' <=> InLock(q)) /\ Job(q)' = Job(q)
        /\ InLock(p)' /\ Job(p)' = Job(p)
    BY <1>2, <1>3 DEF InLock, Active, Job
  <1>7. \A q \in Processes \ {p} : InLock(q) => Job(q) \in Jobs /\ reader'[Job(q)] = reader[Job(q)]
    BY <1>2, <1>4, Exclusive, RequestFields DEF InLock
  <1>8. Typed'
    BY <1>2, <1>3, <1>4, <1>5 DEF Typed, files
  <1>9. Paths' /\ Services' /\ ReferencesHold'
    BY <1>3, <1>5 DEF IInv, Paths, PathAt, Services, ServiceAt, ReferencesHold, Is, Job, files
  <1>10. Holding'
    <2>1. \A q \in Processes : InLock(q)' <=> InLock(q)
      BY <1>2, <1>6
    <2>2. \A q \in Processes : Job(q)' = Job(q)
      BY <1>6
    <2>3. Job("pkg")' = Job("pkg") /\ (InLock("pkg")' <=> InLock("pkg"))
      BY <2>1, <2>2 DEF Processes
    <2>4. \A q \in Processes : InLock(q)' => jobLock'[Job(q)'] = q
      BY <1>5, <2>1, <2>2 DEF IInv, Holding
    <2>5. \A q \in Callers, j \in Jobs : jobLock'[j] = q => InLock(q)' /\ Job(q)' = j
      BY <1>5, <2>1, <2>2 DEF IInv, Holding, Processes
    <2>6. QED
      BY <1>5, <2>3, <2>4, <2>5 DEF IInv, Holding
  <1>11. Reading'
    <2>1. ASSUME NEW q \in Processes, NEW j \in Jobs, reader'[j] = q
          PROVE  InLock(q)' /\ Job(q)' = j /\ Is(q, Interfacing)' /\ ~At(q, "unlock")'
      <3>1. j # Job(p) /\ reader[j] = q
        BY <1>4, <2>1, NamesAssumption DEF Processes
      <3>2. InLock(q) /\ Job(q) = j /\ Is(q, Interfacing) /\ ~At(q, "unlock")
        BY <3>1 DEF IInv, Reading
      <3>3. q # p
        BY <3>1, <3>2
      <3>4. QED
        BY <1>3, <1>6, <3>2, <3>3 DEF Is, At
    <2>2. ASSUME NEW q \in Processes, At(q, "holdAgain")' PROVE reader'[Job(q)'] = q
      <3>1. q # p /\ At(q, "holdAgain") /\ Job(q)' = Job(q)
        BY <1>3, <1>6, <2>2 DEF At
      <3>2. reader[Job(q)] = q /\ InLock(q)
        BY <1>2, <3>1, RequestFields DEF IInv, Reading, At, Steps, InLock
      <3>3. QED
        BY <1>7, <3>1, <3>2
    <2>3. QED
      BY <2>1, <2>2 DEF Reading
  <1>12. Session'
    BY <1>1, <1>2, <1>3, <1>5, NamesAssumption
    DEF IInv, Session, SessionAt, Active, Is, Job, Processes, InSession
  <1>13. Passed'
    BY <1>3, <1>5 DEF IInv, Passed, Working, Processes
  <1>14. Guarded'
    <2>1. ifaceFence' = "admin" <=> admin'.at # "idle"
      BY <1>5 DEF IInv, Guarded
    <2>2. GuardAt(p, req[p].at)'
      BY <1>3 DEF GuardAt
    <2>3. ASSUME NEW q \in Processes \ {p} PROVE GuardAt(q, req[q].at)'
      <3>1. req'[q] = req[q] /\ GuardAt(q, req[q].at)
        BY <1>3 DEF IInv, Guarded
      <3>2. req[q].at \notin {"idle", "probe", "lock"} => reader'[Job(q)] = reader[Job(q)]
        BY <1>2, <1>7, RequestFields DEF InLock
      <3>3. QED
        BY <1>5, <3>1, <3>2 DEF GuardAt, Is, Job, files
    <2>4. QED
      BY <2>1, <2>2, <2>3 DEF Guarded
  <1>15. QED
    BY <1>8, <1>9, <1>10, <1>11, <1>12, <1>13, <1>14 DEF IInv

\* The Job lock is released by its owner, whose reader is out.
LEMMA UnlockInv ==
  ASSUME IInv, NEW p \in Processes, Unlock(p)
  PROVE  IInv'
  <1>1. req[p].at = "unlock" /\ req[p].at \in Steps \ {"probe", "lock"}
    BY DEF Unlock, Steps, At
  <1>2. InLock(p) /\ ~InSession(p) /\ Typed /\ Active(p) /\ Job(p) \in Jobs
    BY <1>1, InsideFacts DEF SessionAt
  <1>3. req[p].ok \in BOOLEAN
    BY <1>2, RequestFields
  <1>4. /\ req' \in [Processes -> Requests] /\ req'[p] = NoRequest
        /\ \A q \in Processes \ {p} : req'[q] = req[q]
        /\ overtaken' = overtaken \ {p} /\ pkg' \in Packages
        /\ pkg'.op = pkg.op /\ pkg'.at = pkg.at /\ pkg'.targets = pkg.targets
        /\ pkg'.restart = pkg.restart /\ pkg'.todo \subseteq pkg.todo
        /\ p # "pkg" => pkg' = pkg
    BY <1>2, <1>3, ReturnStep DEF Unlock
  <1>5. /\ jobLock' \in [Jobs -> Holders] /\ jobLock'[Job(p)] = "free"
        /\ \A j \in Jobs \ {Job(p)} : jobLock'[j] = jobLock[j]
        /\ jobLock[Job(p)] = p
    BY <1>2 DEF Unlock, IInv, Typed, Holding, Holders
  <1>6. UNCHANGED <<files, svc, fence, ifaceFence, reader, admin>>
    BY DEF Unlock
  <1>7. /\ \A q \in Processes \ {p} : (InLock(q)' <=> InLock(q)) /\ Job(q)' = Job(q)
        /\ ~InLock(p)' /\ ~Active(p)'
    BY <1>2, <1>4 DEF InLock, Active, Job, NoRequest
  <1>8. Typed'
    BY <1>2, <1>4, <1>5, <1>6 DEF Typed, files
  <1>9. Paths' /\ Services' /\ ReferencesHold'
    BY <1>4, <1>6
    DEF IInv, Paths, PathAt, Services, ServiceAt, ReferencesHold, Is, Job, files, NoRequest
  <1>10. Holding'
    <2>1. \A q \in Processes : InLock(q)' => jobLock'[Job(q)'] = q
      <3>1. SUFFICES ASSUME NEW q \in Processes \ {p}, InLock(q) PROVE jobLock'[Job(q)] = q
        BY <1>7
      <3>2. jobLock[Job(q)] = q /\ Job(q) \in Jobs
        BY <1>2, <3>1, RequestFields DEF IInv, Holding, InLock
      <3>3. QED
        BY <1>5, <3>2
    <2>2. \A q \in Callers, j \in Jobs : jobLock'[j] = q => InLock(q)' /\ Job(q)' = j
      BY <1>5, <1>7, NamesAssumption DEF IInv, Holding, Processes
    <2>3. \A j \in Jobs : jobLock'[j] = "pkg" => fence = "pkg" \/ (InLock("pkg")' /\ Job("pkg")' = j)
      BY <1>5, <1>7 DEF IInv, Holding, Processes
    <2>4. \A j \in Jobs : jobLock'[j] = "admin" => ifaceFence = "admin"
      BY <1>5 DEF IInv, Holding
    <2>5. QED
      BY <1>6, <2>1, <2>2, <2>3, <2>4 DEF Holding
  <1>11. Reading'
    <2>1. \A q \in Processes, j \in Jobs : reader[j] = q => q # p
      BY <1>1 DEF IInv, Reading, At
    <2>2. QED
      BY <1>4, <1>6, <1>7, <2>1 DEF IInv, Reading, Is, At, NoRequest
  <1>12. Session'
    <2>1. \A q \in Callers : ~Is(q, {"packageStop"})'
      BY <1>4 DEF IInv, Session, Is, Processes, NoRequest
    <2>2. CASE p = "pkg"
      <3>1. pkg.at = "each"
        BY <1>1, <1>2, <2>2 DEF IInv, Session, SessionAt
      <3>2. QED
        BY <1>4, <1>6, <1>7, <2>1, <2>2, <3>1 DEF IInv, Session
    <2>3. CASE p # "pkg"
      <3>1. req'["pkg"] = req["pkg"]
        BY <1>4, <2>3 DEF Processes
      <3>2. \A j \in Jobs : jobLock[j] = "pkg" => jobLock'[j] = "pkg"
        BY <1>5, <2>3
      <3>3. QED
        BY <1>4, <1>6, <2>1, <2>3, <3>1, <3>2, SessionKept
    <2>4. QED
      BY <2>2, <2>3
  <1>13. Passed'
    BY <1>4, <1>6 DEF IInv, Passed, Working, Processes, NoRequest
  <1>14. Guarded'
    BY <1>4, <1>6 DEF IInv, Guarded, GuardAt, Is, Job, files, NoRequest
  <1>15. QED
    BY <1>8, <1>9, <1>10, <1>11, <1>12, <1>13, <1>14 DEF IInv

-----------------------------------------------------------------------------
(* The steps of the package script                                         *)

\* What the script does between the Jobs leaves alone what the mutations know
\* of documents, services and readers.
LEMMA ScriptKeeps ==
  ASSUME IInv, UNCHANGED <<req, doc, svc, iface, ifaceFence, reader, admin>>
  PROVE  Paths' /\ Reading' /\ Guarded' /\ Services' /\ ReferencesHold'
  <1>1. Paths' /\ Services' /\ ReferencesHold'
    BY DEF IInv, Paths, PathAt, Services, ServiceAt, ReferencesHold, Is, Job
  <1>2. Reading'
    BY DEF IInv, Reading, InLock, Active, Is, At, Job
  <1>3. Guarded'
    BY DEF IInv, Guarded, GuardAt, Is, Job
  <1>4. QED
    BY <1>1, <1>2, <1>3

\* A step that changes nothing but what the script has in mind.
LEMMA PlanInv ==
  ASSUME IInv, UNCHANGED <<req, doc, svc, iface, locks, admin, overtaken>>, Typed', Session'
  PROVE  IInv'
  <1> USE DEF locks
  <1>1. Paths' /\ Reading' /\ Guarded' /\ Services' /\ ReferencesHold'
    BY ScriptKeeps
  <1>2. Holding'
    BY DEF IInv, Holding, InLock, Active, Job
  <1>3. Passed'
    BY DEF IInv, Passed, Working
  <1>4. QED
    BY <1>1, <1>2, <1>3 DEF IInv

\* Between the Jobs the script has no request, and no request of the API is one
\* of its own.
LEMMA Between ==
  ASSUME IInv, NEW step, PkgAt(step)
  PROVE  /\ Typed /\ pkg \in Packages /\ pkg.at = step
         /\ req["pkg"] = NoRequest /\ ~Active("pkg") /\ ~InLock("pkg")
         /\ fence = "pkg" <=> step \in {"list", "locks", "stop", "delete", "release"}
         /\ fence = "pkg" => pkg.op \in {"stop", "uninstall"}
         /\ \A p \in Callers : ~Is(p, {"packageStop"})
         /\ step \in {"stop", "delete"} => pkg.todo \subseteq pkg.targets
         /\ step = "locks" => pkg.restart \subseteq pkg.targets
         /\ step \in {"locks", "stop", "delete"} =>
              \A j \in pkg.targets : jobLock[j] = "pkg" \/ (step = "locks" /\ j \in pkg.todo)
  BY DEF IInv, Typed, PkgAt, Active, InLock, NoRequest, Session

\* What follows when the script's plan is at a step that is not of a Job.
LEMMA PlanFits ==
  ASSUME IInv, ~Active("pkg"), UNCHANGED <<req, fence, jobLock>>, pkg' \in Packages,
         fence = "pkg" <=> pkg'.at \in {"list", "locks", "stop", "delete", "release"},
         pkg'.at = "each" => pkg'.op \in {"install", "start"},
         fence = "pkg" => pkg'.op \in {"stop", "uninstall"},
         pkg'.at \in {"stop", "delete"} => pkg'.todo \subseteq pkg'.targets,
         pkg'.at = "locks" => pkg'.restart \subseteq pkg'.targets,
         pkg'.at \in {"locks", "stop", "delete"} =>
           \A j \in pkg'.targets : jobLock[j] = "pkg" \/ (pkg'.at = "locks" /\ j \in pkg'.todo)
  PROVE  Session'
  BY DEF IInv, Session, Active, Is

\* install() and start() begin without the fence.
LEMMA RunInv ==
  ASSUME IInv, Run
  PROVE  IInv'
  <1>1. /\ Typed /\ ~Active("pkg") /\ fence # "pkg"
    BY Between DEF Run
  <1>2. PICK o \in {"install", "start"}, names \in SUBSET Jobs :
          pkg' = [NoPackage EXCEPT !.op = o, !.at = "each", !.todo = names]
    <2>1. PICK unknown \in SUBSET Jobs, o \in {"install", "start"} :
            LET startable == {j \in Known(unknown) : svc[j] = "stopped"}
                names == IF o = "install" THEN {j \in Known(unknown) : svc[j] = "none"}
                         ELSE IF startFile = {} THEN startable
                         ELSE startable \cap UNION startFile
            IN pkg' = [NoPackage EXCEPT !.op = o, !.at = "each", !.todo = names]
      BY DEF Run
    <2> DEFINE startable == {j \in Known(unknown) : svc[j] = "stopped"}
               names == IF o = "install" THEN {j \in Known(unknown) : svc[j] = "none"}
                        ELSE IF startFile = {} THEN startable
                        ELSE startable \cap UNION startFile
    <2>2. names \in SUBSET Jobs
      BY DEF Known
    <2>3. QED
      BY <2>1, <2>2
  <1>3. /\ pkg' \in Packages /\ pkg'.at = "each" /\ pkg'.op \in {"install", "start"}
    BY <1>2 DEF NoPackage, Packages
  <1>4. UNCHANGED <<req, doc, svc, iface, startFile, locks, admin, overtaken>>
    BY DEF Run, files
  <1>5. Session'
    BY <1>1, <1>3, <1>4, PlanFits DEF locks
  <1>6. Typed'
    BY <1>1, <1>3, <1>4 DEF Typed, locks
  <1>7. QED
    BY <1>4, <1>5, <1>6, PlanInv

\* install() and start() take the next Job in the order of the names, with a
\* mutation of its own.
LEMMA EachInv ==
  ASSUME IInv, Each
  PROVE  IInv'
  <1>1. /\ Typed /\ pkg \in Packages /\ pkg.at = "each" /\ ~InLock("pkg")
        /\ pkg.op \in {"install", "start"}
    BY Between DEF Each, IInv, Session
  <1>2. Min(pkg.todo) \in Jobs
    BY <1>1, MinMax DEF Each, Packages
  <1>3. /\ req' \in [Processes -> Requests] /\ req'["pkg"].at = "probe"
        /\ req'["pkg"].op = pkg.op
        /\ \A q \in Processes \ {"pkg"} : req'[q] = req[q]
    BY <1>1, <1>2 DEF Each, Begin, Typed, Requests, Ops, Steps, Configs, Processes
  <1>4. ~InLock("pkg")' /\ Is("pkg", {"install", "start"})'
    BY <1>1, <1>3 DEF InLock, Is
  <1>5. UNCHANGED <<files, svc, locks, pkg, admin, overtaken>>
    BY DEF Each
  <1>6. "pkg" \in Processes /\ "pkg" \notin Callers
    BY NamesAssumption DEF Processes
  <1>7. QED
    BY <1>1, <1>3, <1>4, <1>5, <1>6, OutsideInv

\* The checkpoint is there or is gone, whether its removal succeeds or fails.
LEMMA ClearFits ==
  ASSUME Typed, NEW done \in BOOLEAN, Clear(done)
  PROVE  startFile' = {} \/ \E names \in SUBSET Jobs : startFile' = {names}
  BY DEF Typed, Clear

\* install() and start() end.
LEMMA EachDoneInv ==
  ASSUME IInv, EachDone
  PROVE  IInv'
  <1>1. Typed /\ ~Active("pkg") /\ fence # "pkg"
    BY Between DEF EachDone
  <1>2. NoPackage \in Packages /\ NoPackage.at = "idle"
    BY DEF NoPackage, Packages
  <1>3. UNCHANGED <<req, doc, svc, iface, locks, admin, overtaken>> /\ pkg' = NoPackage
    BY DEF EachDone
  <1>4. Session'
    BY <1>1, <1>2, <1>3, PlanFits DEF locks
  <1>5. (pkg.op = "start" /\ pkg.ok) \in BOOLEAN
    BY <1>1 DEF Typed, Packages
  <1>6. startFile' = {} \/ \E names \in SUBSET Jobs : startFile' = {names}
    BY <1>1, <1>5, ClearFits DEF EachDone
  <1>7. Typed'
    BY <1>1, <1>2, <1>3, <1>6 DEF Typed, locks
  <1>8. QED
    BY <1>3, <1>4, <1>7, PlanInv

\* The fence is taken: from here on who works is one of those it overtook.
LEMMA FenceInv ==
  ASSUME IInv, Fence
  PROVE  IInv'
  <1>1. Typed /\ ~Active("pkg") /\ ~InLock("pkg") /\ fence # "pkg"
    BY Between DEF Fence
  <1>2. PICK o \in {"stop", "uninstall"} : pkg' = [NoPackage EXCEPT !.op = o, !.at = "list"]
    BY DEF Fence
  <1>3. pkg' \in Packages /\ pkg'.at = "list" /\ pkg'.op \in {"stop", "uninstall"}
    BY <1>2 DEF NoPackage, Packages
  <1>4. /\ UNCHANGED <<doc, iface, startFile, svc, jobLock, ifaceFence, reader, req, admin>>
        /\ fence' = "pkg" /\ overtaken' = Working
    BY DEF Fence, files
  <1>5. Typed'
    BY <1>1, <1>3, <1>4 DEF Typed, Working
  <1>6. Holding'
    BY <1>4 DEF IInv, Holding, InLock, Active, Job
  <1>7. Session'
    BY <1>1, <1>3, <1>4 DEF IInv, Session, Active, Is
  <1>8. Passed'
    BY <1>4 DEF Passed, Working
  <1>9. QED
    BY <1>4, <1>5, <1>6, <1>7, <1>8, ScriptKeeps DEF IInv

\* The release keeps of the plan only what it is the end of.
LEMMA ReleaseFits ==
  ASSUME IInv, pkg' = Release
  PROVE  pkg' \in Packages /\ pkg'.at = "release" /\ pkg'.op = pkg.op
  BY DEF IInv, Typed, Release, NoPackage, Packages

\* A session that gives up, or that has finished, goes to its release.
LEMMA GiveUpInv ==
  ASSUME IInv, ~Active("pkg"), fence = "pkg", pkg' = Release,
         startFile' = {} \/ \E names \in SUBSET Jobs : startFile' = {names},
         UNCHANGED <<req, doc, svc, iface, locks, admin, overtaken>>
  PROVE  IInv'
  <1>1. pkg' \in Packages /\ pkg'.at = "release" /\ pkg'.op \in {"stop", "uninstall"}
    BY ReleaseFits DEF IInv, Session
  <1>2. Session'
    BY <1>1, PlanFits DEF locks
  <1>3. Typed'
    BY <1>1 DEF IInv, Typed, locks
  <1>4. QED
    BY <1>2, <1>3, PlanInv

\* The list of the Jobs is what the session's locks are taken for.
LEMMA ListInv ==
  ASSUME IInv, List
  PROVE  IInv'
  <1>1. /\ Typed /\ pkg \in Packages /\ ~Active("pkg") /\ fence = "pkg"
        /\ pkg.op \in {"stop", "uninstall"}
    BY Between DEF List
  <1>2. UNCHANGED <<req, doc, svc, iface, startFile, locks, admin, overtaken>>
    BY DEF List, files
  <1>3. CASE pkg' = Release
    BY <1>1, <1>2, <1>3, GiveUpInv DEF Typed
  <1>4. ASSUME NEW targets \in SUBSET Jobs, NEW restart \in SUBSET targets, NEW ok \in BOOLEAN,
               pkg' = [pkg EXCEPT !.at = "locks", !.todo = targets, !.targets = targets,
                                  !.restart = restart, !.ok = ok]
        PROVE  IInv'
    <2>1. /\ pkg' \in Packages /\ pkg'.at = "locks" /\ pkg'.op = pkg.op
          /\ pkg'.todo = targets /\ pkg'.targets = targets /\ pkg'.restart = restart
      BY <1>1, <1>4 DEF Packages
    <2>2. Session'
      BY <1>1, <1>2, <2>1, PlanFits DEF locks
    <2>3. Typed'
      BY <1>1, <1>2, <2>1 DEF Typed, locks
    <2>4. QED
      BY <1>2, <2>2, <2>3, PlanInv
  <1>5. ASSUME NEW unknown \in SUBSET Jobs,
               LET all     == {j \in Jobs : doc[j] # "none"}
                   known   == Known(unknown)
                   targets == IF pkg.op = "stop" THEN known ELSE all
               IN pkg' = [pkg EXCEPT !.at = "locks", !.todo = targets, !.targets = targets,
                                     !.restart = {j \in known : svc[j] = "busy"},
                                     !.ok = pkg.op = "uninstall" \/ known = all]
        PROVE  IInv'
    <2> DEFINE all     == {j \in Jobs : doc[j] # "none"}
               known   == Known(unknown)
               targets == IF pkg.op = "stop" THEN known ELSE all
               restart == {j \in known : svc[j] = "busy"}
               ok      == pkg.op = "uninstall" \/ known = all
    <2>1. known \subseteq all /\ all \subseteq Jobs
      BY DEF Known, Valid
    <2>2. targets \in SUBSET Jobs /\ restart \in SUBSET targets /\ ok \in BOOLEAN
      BY <2>1
    <2>3. pkg' = [pkg EXCEPT !.at = "locks", !.todo = targets, !.targets = targets,
                             !.restart = restart, !.ok = ok]
      BY <1>5
    <2> HIDE DEF all, known, targets, restart, ok
    <2>4. QED
      BY <1>4, <2>2, <2>3
  <1>6. QED
    BY <1>3, <1>5 DEF List

\* The session locks its next Job, or gives up all it has.
LEMMA AcquireJobInv ==
  ASSUME IInv, AcquireJob
  PROVE  IInv'
  <1> DEFINE j == Min(pkg.todo)
  <1>1. /\ Typed /\ pkg \in Packages /\ ~Active("pkg") /\ ~InLock("pkg") /\ fence = "pkg"
        /\ pkg.op \in {"stop", "uninstall"} /\ pkg.at = "locks"
        /\ \A p \in Callers : ~Is(p, {"packageStop"})
        /\ pkg.restart \subseteq pkg.targets
        /\ \A k \in pkg.targets : jobLock[k] = "pkg" \/ k \in pkg.todo
    BY Between DEF AcquireJob
  <1>2. j \in pkg.todo /\ j \in Jobs
    BY <1>1, MinMax DEF AcquireJob, Packages
  <1>3. UNCHANGED <<doc, iface, startFile, svc, fence, ifaceFence, reader, req, admin, overtaken>>
    BY DEF AcquireJob, files
  <1>4. CASE pkg' = Release /\ UNCHANGED jobLock
    BY <1>1, <1>3, <1>4, GiveUpInv DEF Typed, locks
  <1>5. CASE /\ MayPass(jobLock[j])
             /\ jobLock' = [jobLock EXCEPT ![j] = "pkg"]
             /\ pkg' = [pkg EXCEPT !.todo = @ \ {j}]
    <2> HIDE DEF j
    <2>1. /\ jobLock' \in [Jobs -> Holders] /\ jobLock'[j] = "pkg" /\ jobLock[j] \in {"free", "dead"}
          /\ \A k \in Jobs \ {j} : jobLock'[k] = jobLock[k]
      BY <1>1, <1>2, <1>5 DEF Typed, Holders, Owners, Processes, MayPass
    <2>2. /\ pkg' \in Packages /\ pkg'.at = "locks" /\ pkg'.op = pkg.op
          /\ pkg'.todo = pkg.todo \ {j} /\ pkg'.targets = pkg.targets
          /\ pkg'.restart = pkg.restart
      BY <1>1, <1>2, <1>5 DEF Packages
    <2>3. Typed'
      BY <1>1, <1>3, <2>1, <2>2 DEF Typed
    <2>4. Holding'
      <3>1. \A p \in Processes : (InLock(p)' <=> InLock(p)) /\ Job(p)' = Job(p)
        BY <1>3 DEF InLock, Active, Job
      <3>2. ASSUME NEW p \in Processes, InLock(p) PROVE jobLock'[Job(p)] = p
        <4>1. jobLock[Job(p)] = p /\ Job(p) \in Jobs
          BY <1>1, <3>2, RequestFields DEF IInv, Holding, InLock
        <4>2. QED
          BY <2>1, <4>1, NamesAssumption DEF Processes
      <3>3. \A p \in Callers, k \in Jobs : jobLock'[k] = p => InLock(p)' /\ Job(p)' = k
        BY <2>1, <3>1, NamesAssumption DEF IInv, Holding, Processes
      <3>4. QED
        BY <1>1, <1>3, <2>1, <3>1, <3>2, <3>3, NamesAssumption DEF IInv, Holding
    <2>5. Session'
      <3>1. pkg.targets \subseteq Jobs
        BY <1>1 DEF Packages
      <3>2. \A k \in pkg'.targets : jobLock'[k] = "pkg" \/ k \in pkg'.todo
        BY <1>1, <2>1, <2>2, <3>1
      <3>3. ~Active("pkg")' /\ \A p \in Callers : ~Is(p, {"packageStop"})'
        BY <1>1, <1>3 DEF Active, Is
      <3>4. QED
        BY <1>1, <1>3, <2>2, <3>2, <3>3 DEF Session
    <2>6. Passed'
      BY <1>3 DEF IInv, Passed, Working
    <2>7. QED
      BY <1>3, <2>3, <2>4, <2>5, <2>6, ScriptKeeps DEF IInv
  <1>6. QED
    BY <1>4, <1>5 DEF AcquireJob

\* With every target locked the session begins its work, or could not save
\* what is to be started again.
LEMMA AcquiredInv ==
  ASSUME IInv, Acquired
  PROVE  IInv'
  <1>1. /\ Typed /\ pkg \in Packages /\ ~Active("pkg") /\ fence = "pkg"
        /\ pkg.op \in {"stop", "uninstall"}
        /\ pkg.restart \subseteq pkg.targets /\ pkg.todo = {}
        /\ \A j \in pkg.targets : jobLock[j] = "pkg"
    BY Between DEF Acquired
  <1>2. UNCHANGED <<req, doc, svc, iface, locks, admin, overtaken>>
    BY DEF Acquired
  <1>3. pkg.restart \in SUBSET Jobs /\ pkg.targets \in SUBSET Jobs
    BY <1>1 DEF Packages
  <1>4. startFile' = {} \/ \E names \in SUBSET Jobs : startFile' = {names}
    BY <1>1, <1>3 DEF Acquired, Typed
  <1>5. ASSUME NEW todo \in SUBSET pkg.targets,
               pkg' = [pkg EXCEPT !.at = "stop", !.todo = todo, !.restart = {}]
        PROVE  IInv'
    <2>1. /\ pkg' \in Packages /\ pkg'.at = "stop" /\ pkg'.op = pkg.op
          /\ pkg'.todo = todo /\ pkg'.targets = pkg.targets
      BY <1>1, <1>3, <1>5 DEF Packages
    <2>2. Session'
      BY <1>1, <1>2, <1>5, <2>1, PlanFits DEF locks
    <2>3. Typed'
      BY <1>1, <1>2, <1>4, <2>1 DEF Typed, locks
    <2>4. QED
      BY <1>2, <2>2, <2>3, PlanInv
  <1>6. CASE pkg' = Release
    BY <1>1, <1>2, <1>4, <1>6, GiveUpInv
  <1>7. QED
    BY <1>1, <1>5, <1>6 DEF Acquired

\* A Job of the session is stopped or deleted under the lock the session holds.
LEMMA SessionJobInv ==
  ASSUME IInv, SessionJob
  PROVE  IInv'
  <1> DEFINE j == Min(pkg.todo)
             o == IF pkg.at = "stop" THEN "packageStop" ELSE "delete"
             r == [op |-> o, at |-> "read", job |-> j, to |-> "plain", ok |-> TRUE]
  <1>1. /\ Typed /\ pkg \in Packages /\ pkg.at \in {"stop", "delete"} /\ fence = "pkg"
        /\ ~Active("pkg") /\ ~InLock("pkg")
        /\ \A p \in Callers : ~Is(p, {"packageStop"})
        /\ pkg.todo \subseteq pkg.targets
        /\ \A k \in pkg.targets : jobLock[k] = "pkg"
    BY Between DEF SessionJob
  <1>2. j \in pkg.todo /\ j \in pkg.targets /\ j \in Jobs /\ jobLock[j] = "pkg"
    BY <1>1, MinMax DEF SessionJob, Packages
  <1>3. UNCHANGED <<files, svc, locks, pkg, admin, overtaken>>
    BY DEF SessionJob
  <1>4. "pkg" \in Processes /\ "pkg" \notin Callers
    BY NamesAssumption DEF Processes
  <1>5. req' = [req EXCEPT !["pkg"] = r]
    BY DEF SessionJob, Begin
  <1> HIDE DEF j
  <1>6. /\ r \in Requests /\ r.op = o /\ r.at = "read" /\ r.job = j /\ r.to = "plain"
        /\ o \in {"packageStop", "delete"}
    BY <1>2 DEF Requests, Ops, Steps, Configs
  <1>7. req' \in [Processes -> Requests] /\ req'["pkg"] = r
        /\ \A q \in Processes \ {"pkg"} : req'[q] = req[q]
    BY <1>1, <1>4, <1>5, <1>6 DEF Typed
  <1> HIDE DEF r
  <1>8. /\ \A q \in Processes \ {"pkg"} : (InLock(q)' <=> InLock(q)) /\ Job(q)' = Job(q)
        /\ InLock("pkg")' /\ Active("pkg")' /\ Job("pkg")' = j
        /\ req'["pkg"].at = "read" /\ req'["pkg"].op = o
    BY <1>6, <1>7 DEF InLock, Active, Job
  <1>9. Typed'
    BY <1>1, <1>3, <1>7 DEF Typed, files, locks
  <1>10. Paths' /\ Services' /\ ReferencesHold'
    <2>1. PathAt("pkg", req["pkg"].at)'
      BY <1>6, <1>8 DEF PathAt, Is
    <2>2. ServiceAt("pkg", req["pkg"].at, svc[Job("pkg")])'
      BY <1>8 DEF ServiceAt
    <2>3. QED
      BY <1>3, <1>7, <2>1, <2>2
      DEF IInv, Paths, PathAt, Services, ServiceAt, ReferencesHold, Is, Job, files
  <1>11. Holding'
    BY <1>1, <1>2, <1>3, <1>4, <1>8 DEF IInv, Holding, Processes, locks
  <1>12. Reading'
    BY <1>1, <1>3, <1>7, <1>8 DEF IInv, Reading, Is, At, locks
  <1>13. Session'
    <2>1. \A q \in Callers : ~Is(q, {"packageStop"})'
      BY <1>1, <1>4, <1>7 DEF Is, Processes
    <2>2. \/ pkg.at = "stop" /\ Is("pkg", {"packageStop"})'
          \/ pkg.at = "delete" /\ Is("pkg", {"delete"})'
      BY <1>1, <1>8 DEF Is
    <2>3. SessionAt(req["pkg"].at)'
      BY <1>8 DEF SessionAt
    <2>4. QED
      BY <1>1, <1>2, <1>3, <1>8, <2>1, <2>2, <2>3 DEF IInv, Session, locks
  <1>14. Passed'
    BY <1>3, <1>4, <1>7 DEF IInv, Passed, Working, Processes, locks
  <1>15. Guarded'
    <2>1. GuardAt("pkg", req["pkg"].at)'
      BY <1>8 DEF GuardAt
    <2>2. QED
      BY <1>3, <1>7, <2>1 DEF IInv, Guarded, GuardAt, Is, Job, files, locks
  <1>16. QED
    BY <1>9, <1>10, <1>11, <1>12, <1>13, <1>14, <1>15 DEF IInv

\* With every Job stopped uninstall() goes on to delete them, under the same locks.
LEMMA StoppedInv ==
  ASSUME IInv, Stopped
  PROVE  IInv'
  <1>1. /\ Typed /\ pkg \in Packages /\ ~Active("pkg") /\ fence = "pkg"
        /\ pkg.op \in {"stop", "uninstall"}
        /\ \A j \in pkg.targets : jobLock[j] = "pkg"
    BY Between DEF Stopped
  <1>2. UNCHANGED <<req, doc, svc, iface, startFile, locks, admin, overtaken>>
    BY DEF Stopped, files
  <1>3. CASE pkg' = [pkg EXCEPT !.at = "delete", !.todo = pkg.targets]
    <2>1. /\ pkg' \in Packages /\ pkg'.at = "delete" /\ pkg'.op = pkg.op
          /\ pkg'.todo = pkg.targets /\ pkg'.targets = pkg.targets
      BY <1>1, <1>3 DEF Packages
    <2>2. Session'
      BY <1>1, <1>2, <2>1, PlanFits DEF locks
    <2>3. Typed'
      BY <1>1, <1>2, <2>1 DEF Typed, locks
    <2>4. QED
      BY <1>2, <2>2, <2>3, PlanInv
  <1>4. CASE pkg' = Release
    BY <1>1, <1>2, <1>4, GiveUpInv DEF Typed
  <1>5. QED
    BY <1>3, <1>4 DEF Stopped

\* With every Job deleted there is nothing left to start again.
LEMMA DeletedInv ==
  ASSUME IInv, Deleted
  PROVE  IInv'
  <1>1. Typed /\ ~Active("pkg") /\ fence = "pkg" /\ pkg.ok \in BOOLEAN
    BY Between DEF Deleted, Packages
  <1>2. startFile' = {} \/ \E names \in SUBSET Jobs : startFile' = {names}
    BY <1>1, ClearFits DEF Deleted
  <1>3. UNCHANGED <<req, doc, svc, iface, locks, admin, overtaken>> /\ pkg' = Release
    BY DEF Deleted
  <1>4. QED
    BY <1>1, <1>2, <1>3, GiveUpInv

\* The session lets go of its Jobs, and of the fence after the last of them.
LEMMA PkgReleaseInv ==
  ASSUME IInv, PkgRelease
  PROVE  IInv'
  <1> DEFINE held == {j \in Jobs : jobLock[j] = "pkg"}
             top == Max(held)
  <1>1. /\ Typed /\ pkg \in Packages /\ ~Active("pkg") /\ ~InLock("pkg") /\ fence = "pkg"
        /\ pkg.at = "release"
        /\ \A p \in Callers : ~Is(p, {"packageStop"})
    BY Between DEF PkgRelease
  <1>2. UNCHANGED <<doc, iface, startFile, svc, ifaceFence, reader, req, admin>>
    BY DEF PkgRelease, files
  <1>3. \A p \in Processes : (InLock(p)' <=> InLock(p)) /\ Job(p)' = Job(p)
    BY <1>2 DEF InLock, Active, Job
  <1>4. ~Active("pkg")' /\ \A p \in Callers : ~Is(p, {"packageStop"})'
    BY <1>1, <1>2 DEF Active, Is
  <1>5. CASE held # {} /\ jobLock' = [jobLock EXCEPT ![top] = "free"]
               /\ UNCHANGED <<fence, pkg, overtaken>>
    <2>1. top \in Jobs /\ jobLock[top] = "pkg"
      <3>1. held \in SUBSET Jobs
        OBVIOUS
      <3>2. top \in held
        BY <1>5, <3>1, MinMax
      <3>3. QED
        BY <3>2
    <2> HIDE DEF top
    <2>2. /\ jobLock' \in [Jobs -> Holders] /\ jobLock'[top] = "free"
          /\ \A k \in Jobs \ {top} : jobLock'[k] = jobLock[k]
      BY <1>1, <1>5, <2>1 DEF Typed, Holders
    <2>3. Typed'
      BY <1>1, <1>2, <1>5, <2>2 DEF Typed
    <2>4. Holding'
      <3>1. ASSUME NEW p \in Processes, InLock(p) PROVE jobLock'[Job(p)] = p
        <4>1. jobLock[Job(p)] = p /\ Job(p) \in Jobs /\ p # "pkg"
          BY <1>1, <3>1, RequestFields DEF IInv, Holding, InLock
        <4>2. QED
          BY <2>1, <2>2, <4>1
      <3>2. \A p \in Callers, k \in Jobs : jobLock'[k] = p => InLock(p)' /\ Job(p)' = k
        BY <1>3, <2>2, NamesAssumption DEF IInv, Holding, Processes
      <3>3. QED
        BY <1>1, <1>2, <1>3, <1>5, <2>2, <3>1, <3>2 DEF IInv, Holding
    <2>5. Session'
      BY <1>1, <1>4, <1>5 DEF IInv, Session
    <2>6. Passed'
      BY <1>2, <1>5 DEF IInv, Passed, Working
    <2>7. QED
      BY <1>2, <2>3, <2>4, <2>5, <2>6, ScriptKeeps DEF IInv
  <1>6. CASE held = {} /\ fence' = "free" /\ pkg' = NoPackage /\ overtaken' = {}
               /\ UNCHANGED jobLock
    <2>1. NoPackage \in Packages /\ NoPackage.at = "idle"
      BY DEF NoPackage, Packages
    <2>2. Typed'
      BY <1>1, <1>2, <1>6, <2>1 DEF Typed
    <2>3. Holding'
      <3>1. \A k \in Jobs : jobLock'[k] # "pkg"
        BY <1>6
      <3>2. \A p \in Processes : InLock(p)' => jobLock'[Job(p)'] = p
        BY <1>3, <1>6 DEF IInv, Holding
      <3>3. \A p \in Callers, k \in Jobs : jobLock'[k] = p => InLock(p)' /\ Job(p)' = k
        BY <1>3, <1>6 DEF IInv, Holding, Processes
      <3>4. \A k \in Jobs : jobLock'[k] = "admin" => ifaceFence' = "admin"
        BY <1>2, <1>6 DEF IInv, Holding
      <3>5. QED
        BY <3>1, <3>2, <3>3, <3>4 DEF Holding
    <2>4. Session'
      BY <1>4, <1>6, <2>1 DEF Session
    <2>5. Passed'
      BY <1>6 DEF Passed
    <2>6. QED
      BY <1>2, <2>2, <2>3, <2>4, <2>5, ScriptKeeps DEF IInv
  <1>7. QED
    BY <1>5, <1>6 DEF PkgRelease

-----------------------------------------------------------------------------
(* The mutation of the Interface                                           *)

\* It leaves alone what the mutations of Jobs and the session know of each other.
LEMMA MutationsKept ==
  ASSUME IInv, UNCHANGED <<req, pkg, svc, fence, overtaken>>,
         \A j \in Jobs : jobLock[j] = "pkg" => jobLock'[j] = "pkg"
  PROVE  /\ Paths' /\ Session' /\ Passed' /\ Services'
         /\ \A p \in Processes : (InLock(p)' <=> InLock(p)) /\ Job(p)' = Job(p)
  <1>1. Paths' /\ Services'
    BY DEF IInv, Paths, PathAt, Services, ServiceAt, Is, Job
  <1>2. \A p \in Callers : ~Is(p, {"packageStop"})'
    BY DEF IInv, Session, Is
  <1>3. Session'
    BY <1>2, SessionKept
  <1>4. Passed'
    BY DEF IInv, Passed, Working
  <1>5. \A p \in Processes : (InLock(p)' <=> InLock(p)) /\ Job(p)' = Job(p)
    BY DEF InLock, Active, Job
  <1>6. QED
    BY <1>1, <1>3, <1>4, <1>5

\* A step under the Interface's fence that takes no lock and gives none back.
LEMMA AdminInv ==
  ASSUME IInv, UNCHANGED <<doc, startFile, svc, locks, req, pkg, overtaken>>,
         iface' \in {"none"} \cup Shapes,
         admin' \in [at : {"idle", "list", "readers", "jobs", "release"}, todo : SUBSET Jobs],
         Guarded', ReferencesHold'
  PROVE  IInv'
  <1> USE DEF locks
  <1>1. Paths' /\ Session' /\ Passed' /\ Services'
    BY MutationsKept
  <1>2. Typed'
    BY DEF IInv, Typed
  <1>3. Holding'
    BY DEF IInv, Holding, InLock, Active, Job
  <1>4. Reading'
    BY DEF IInv, Reading, InLock, Active, Is, At, Job
  <1>5. QED
    BY <1>1, <1>2, <1>3, <1>4 DEF IInv

\* No configuration relies on an Interface that is not there.
LEMMA CreateInterfaceInv ==
  ASSUME IInv, CreateInterface
  PROVE  IInv'
  <1>1. /\ UNCHANGED <<doc, startFile, svc, locks, req, pkg, admin, overtaken>>
        /\ iface = "none" /\ iface' \in Shapes
    BY DEF CreateInterface
  <1>2. ReferencesHold'
    BY <1>1, NamesAssumption DEF IInv, ReferencesHold
  <1>3. Guarded'
    BY <1>1, NamesAssumption DEF IInv, Guarded, GuardAt, Is, Job, locks
  <1>4. QED
    BY <1>1, <1>2, <1>3, AdminInv DEF IInv, Typed

\* The Interface's fence is taken.
LEMMA GuardInv ==
  ASSUME IInv, Guard
  PROVE  IInv'
  <1>1. /\ UNCHANGED <<doc, iface, startFile, svc, fence, jobLock, reader, req, pkg, overtaken>>
        /\ ifaceFence' = "admin" /\ admin' = [at |-> "list", todo |-> {}]
    BY DEF Guard, files
  <1>2. Paths' /\ Session' /\ Passed' /\ Services'
    BY <1>1, MutationsKept
  <1>3. Typed'
    BY <1>1 DEF IInv, Typed
  <1>4. Holding'
    BY <1>1 DEF IInv, Holding, InLock, Active, Job
  <1>5. Reading'
    BY <1>1 DEF IInv, Reading, InLock, Active, Is, At, Job
  <1>6. Guarded'
    BY <1>1 DEF IInv, Guarded, GuardAt, Is, Job
  <1>7. ReferencesHold'
    BY <1>1 DEF IInv, ReferencesHold
  <1>8. QED
    BY <1>2, <1>3, <1>4, <1>5, <1>6, <1>7 DEF IInv

\* The list of the readers has every configuration that is validated by now.
LEMMA ListReadersInv ==
  ASSUME IInv, ListReaders
  PROVE  IInv'
  <1> DEFINE todo == {j \in Jobs : reader[j] # "free"}
  <1>1. /\ UNCHANGED <<doc, iface, startFile, svc, locks, req, pkg, overtaken>>
        /\ admin.at = "list" /\ admin' = [at |-> "readers", todo |-> todo]
    BY DEF ListReaders, files
  <1>2. ASSUME NEW p \in Processes PROVE GuardAt(p, req[p].at)'
    <2>1. GuardAt(p, req[p].at)
      BY DEF IInv, Guarded
    <2>2. reader[Job(p)] = p /\ Job(p) \in Jobs => Job(p) \in todo
      BY NamesAssumption DEF Processes
    <2>3. req[p].at \notin {"idle", "probe", "lock"} => Job(p) \in Jobs
      BY RequestFields DEF IInv
    <2>4. QED
      BY <1>1, <2>1, <2>2, <2>3 DEF GuardAt, Is, Job, locks
  <1>3. Guarded'
    BY <1>1, <1>2 DEF IInv, Guarded, locks
  <1>4. ReferencesHold'
    BY <1>1 DEF IInv, ReferencesHold
  <1>5. QED
    BY <1>1, <1>3, <1>4, AdminInv DEF IInv, Typed

\* A reader that lives is met, and ends the mutation of the Interface.
LEMMA CheckReaderInv ==
  ASSUME IInv, CheckReader
  PROVE  IInv'
  <1>1. UNCHANGED <<doc, iface, startFile, svc, fence, jobLock, ifaceFence, req, pkg, overtaken>>
    BY DEF CheckReader, files
  <1>2. Typed /\ admin.at = "readers" /\ admin.todo \subseteq Jobs
    BY DEF IInv, Typed, CheckReader
  <1>3. PICK j \in admin.todo :
          \/ /\ MayPass(reader[j])
             /\ reader' = [reader EXCEPT ![j] = "free"]
             /\ admin' = [admin EXCEPT !.todo = @ \ {j}]
          \/ /\ admin' = [at |-> "release", todo |-> {}]
             /\ UNCHANGED reader
    BY DEF CheckReader
  <1>4. ReferencesHold'
    BY <1>1 DEF IInv, ReferencesHold
  <1>5. CASE admin' = [at |-> "release", todo |-> {}] /\ UNCHANGED reader
    <2>1. Guarded'
      BY <1>1, <1>2, <1>5 DEF IInv, Guarded, GuardAt, Is, Job
    <2>2. QED
      BY <1>1, <1>4, <1>5, <2>1, AdminInv DEF IInv, Typed, locks
  <1>6. CASE /\ MayPass(reader[j])
             /\ reader' = [reader EXCEPT ![j] = "free"]
             /\ admin' = [admin EXCEPT !.todo = @ \ {j}]
    <2>1. /\ reader' \in [Jobs -> Holders \ {"admin"}] /\ reader'[j] = "free"
          /\ \A k \in Jobs \ {j} : reader'[k] = reader[k]
          /\ reader[j] \notin Processes /\ j \in Jobs
      BY <1>2, <1>6, NamesAssumption DEF Typed, Holders, Processes, MayPass
    <2>2. /\ admin' \in [at : {"idle", "list", "readers", "jobs", "release"}, todo : SUBSET Jobs]
          /\ admin'.at = "readers" /\ admin'.todo = admin.todo \ {j}
      BY <1>2, <1>6 DEF Typed
    <2>3. \A p \in Processes : (InLock(p)' <=> InLock(p)) /\ Job(p)' = Job(p)
      BY <1>1 DEF InLock, Active, Job
    <2>4. Paths' /\ Session' /\ Passed' /\ Services'
      BY <1>1, MutationsKept
    <2>5. Typed'
      BY <1>1, <1>2, <2>1, <2>2 DEF Typed
    <2>6. Holding'
      BY <1>1, <2>3 DEF IInv, Holding, InLock, Active, Job
    <2>7. Reading'
      <3>1. ASSUME NEW p \in Processes, NEW k \in Jobs, reader'[k] = p
            PROVE  InLock(p) /\ Job(p) = k /\ Is(p, Interfacing) /\ ~At(p, "unlock")
        <4>1. reader[k] = p
          BY <2>1, <3>1, NamesAssumption DEF Processes
        <4>2. QED
          BY <4>1 DEF IInv, Reading
      <3>2. ASSUME NEW p \in Processes, At(p, "holdAgain") PROVE reader'[Job(p)] = p
        <4>1. reader[Job(p)] = p /\ Job(p) \in Jobs
          BY <1>2, <3>2, RequestFields DEF IInv, Reading, At, Steps
        <4>2. QED
          BY <2>1, <4>1
      <3>3. QED
        BY <1>1, <2>3, <3>1, <3>2 DEF Reading, Is, At
    <2>8. Guarded'
      <3>1. ASSUME NEW p \in Processes PROVE GuardAt(p, req[p].at)'
        <4>1. GuardAt(p, req[p].at)
          BY DEF IInv, Guarded
        <4>2. req[p].at \notin {"idle", "probe", "lock"} => Job(p) \in Jobs
          BY <1>2, RequestFields
        <4>3. reader[Job(p)] = p /\ Job(p) \in Jobs => reader'[Job(p)] = p /\ Job(p) # j
          BY <2>1
        <4>4. QED
          BY <1>1, <1>2, <2>2, <4>1, <4>2, <4>3 DEF GuardAt, Is, Job
      <3>2. QED
        BY <1>1, <1>2, <2>2, <3>1 DEF IInv, Guarded
    <2>9. QED
      BY <1>4, <2>4, <2>5, <2>6, <2>7, <2>8 DEF IInv
  <1>7. QED
    BY <1>3, <1>5, <1>6

\* With every reader gone no configuration is between validation and writing.
LEMMA FindReferencesInv ==
  ASSUME IInv, FindReferences
  PROVE  IInv'
  <1>1. /\ UNCHANGED <<doc, iface, startFile, svc, locks, req, pkg, overtaken>>
        /\ admin.at = "readers" /\ admin.todo = {}
        /\ admin' = [at |-> "jobs", todo |-> References]
    BY DEF FindReferences, files
  <1>2. References \in SUBSET Jobs
    BY DEF References
  <1>3. Guarded'
    BY <1>1 DEF IInv, Guarded, GuardAt, Is, Job, locks
  <1>4. ReferencesHold'
    BY <1>1 DEF IInv, ReferencesHold
  <1>5. QED
    BY <1>1, <1>2, <1>3, <1>4, AdminInv DEF IInv, Typed

\* The Jobs that refer to the Interface are locked.
LEMMA LockReferrerInv ==
  ASSUME IInv, LockReferrer
  PROVE  IInv'
  <1> DEFINE j == Min(admin.todo)
  <1>1. UNCHANGED <<doc, iface, startFile, svc, fence, ifaceFence, reader, req, pkg, overtaken>>
    BY DEF LockReferrer, files
  <1>2. Typed /\ admin.at = "jobs" /\ admin.todo \subseteq Jobs /\ ifaceFence = "admin"
    BY DEF IInv, Typed, Guarded, LockReferrer
  <1>3. j \in admin.todo /\ j \in Jobs
    BY <1>2, MinMax DEF LockReferrer
  <1>4. ReferencesHold'
    BY <1>1 DEF IInv, ReferencesHold
  <1>5. CASE admin' = [at |-> "release", todo |-> {}] /\ UNCHANGED jobLock
    <2>1. Guarded'
      BY <1>1, <1>2, <1>5 DEF IInv, Guarded, GuardAt, Is, Job
    <2>2. QED
      BY <1>1, <1>4, <1>5, <2>1, AdminInv DEF IInv, Typed, locks
  <1>6. CASE /\ MayPass(jobLock[j])
             /\ jobLock' = [jobLock EXCEPT ![j] = "admin"]
             /\ admin' = [admin EXCEPT !.todo = @ \ {j}]
    <2> HIDE DEF j
    <2>1. /\ jobLock' \in [Jobs -> Holders] /\ jobLock'[j] = "admin"
          /\ \A k \in Jobs \ {j} : jobLock'[k] = jobLock[k]
          /\ jobLock[j] \notin Processes
      BY <1>2, <1>3, <1>6, NamesAssumption DEF Typed, Holders, Owners, Processes, MayPass
    <2>2. /\ admin' \in [at : {"idle", "list", "readers", "jobs", "release"}, todo : SUBSET Jobs]
          /\ admin'.at = "jobs"
      BY <1>2, <1>6 DEF Typed
    <2>3. /\ Paths' /\ Session' /\ Passed' /\ Services'
          /\ \A p \in Processes : (InLock(p)' <=> InLock(p)) /\ Job(p)' = Job(p)
      BY <1>1, <2>1, MutationsKept DEF Processes
    <2>4. Typed'
      BY <1>1, <1>2, <2>1, <2>2 DEF Typed
    <2>5. Holding'
      <3>1. ASSUME NEW p \in Processes, InLock(p) PROVE jobLock'[Job(p)] = p
        <4>1. jobLock[Job(p)] = p /\ Job(p) \in Jobs
          BY <1>2, <3>1, RequestFields DEF IInv, Holding, InLock
        <4>2. QED
          BY <2>1, <4>1
      <3>2. \A p \in Callers, k \in Jobs : jobLock'[k] = p => InLock(p)' /\ Job(p)' = k
        BY <2>1, <2>3, NamesAssumption DEF IInv, Holding, Processes
      <3>3. \A k \in Jobs : jobLock'[k] = "pkg" => fence = "pkg" \/ (InLock("pkg") /\ Job("pkg") = k)
        BY <2>1 DEF IInv, Holding
      <3>4. QED
        BY <1>1, <1>2, <2>3, <3>1, <3>2, <3>3 DEF Holding, Processes
    <2>6. Reading'
      BY <1>1 DEF IInv, Reading, InLock, Active, Is, At, Job
    <2>7. Guarded'
      BY <1>1, <1>2, <2>2 DEF IInv, Guarded, GuardAt, Is, Job
    <2>8. QED
      BY <1>4, <2>3, <2>4, <2>5, <2>6, <2>7 DEF IInv
  <1>7. QED
    BY <1>5, <1>6 DEF LockReferrer

\* The Interface changes when nothing refers to it and nothing is about to.
LEMMA ChangeInterfaceInv ==
  ASSUME IInv, ChangeInterface
  PROVE  IInv'
  <1>1. /\ UNCHANGED <<doc, startFile, svc, locks, req, pkg, overtaken>>
        /\ admin.at = "jobs" /\ admin' = [at |-> "release", todo |-> {}]
    BY DEF ChangeInterface
  <1>2. /\ iface' = iface \/ References = {}
        /\ iface' \in {"none"} \cup Shapes
    BY DEF ChangeInterface, IInv, Typed
  <1>3. ReferencesHold'
    BY <1>1, <1>2 DEF IInv, ReferencesHold, References
  <1>4. Guarded'
    BY <1>1 DEF IInv, Guarded, GuardAt, Is, Job, locks
  <1>5. QED
    BY <1>1, <1>2, <1>3, <1>4, AdminInv

\* The Jobs' locks are given back, and the fence after the last of them.
LEMMA AdminReleaseInv ==
  ASSUME IInv, AdminRelease
  PROVE  IInv'
  <1> DEFINE held == {j \in Jobs : jobLock[j] = "admin"}
             top == Max(held)
  <1>1. UNCHANGED <<doc, iface, startFile, svc, fence, reader, req, pkg, overtaken>>
    BY DEF AdminRelease, files
  <1>2. Typed /\ admin.at = "release" /\ ifaceFence = "admin"
    BY DEF IInv, Typed, Guarded, AdminRelease
  <1>3. ReferencesHold'
    BY <1>1 DEF IInv, ReferencesHold
  <1>4. Reading'
    BY <1>1 DEF IInv, Reading, InLock, Active, Is, At, Job
  <1>5. CASE held # {} /\ jobLock' = [jobLock EXCEPT ![top] = "free"]
               /\ UNCHANGED <<ifaceFence, admin>>
    <2>1. top \in Jobs /\ jobLock[top] = "admin"
      <3>1. held \in SUBSET Jobs
        OBVIOUS
      <3>2. top \in held
        BY <1>5, <3>1, MinMax
      <3>3. QED
        BY <3>2
    <2> HIDE DEF top
    <2>2. /\ jobLock' \in [Jobs -> Holders] /\ jobLock'[top] = "free"
          /\ \A k \in Jobs \ {top} : jobLock'[k] = jobLock[k]
      BY <1>2, <1>5, <2>1 DEF Typed, Holders
    <2>3. /\ Paths' /\ Session' /\ Passed' /\ Services'
          /\ \A p \in Processes : (InLock(p)' <=> InLock(p)) /\ Job(p)' = Job(p)
      BY <1>1, <2>1, <2>2, MutationsKept
    <2>4. Typed'
      BY <1>1, <1>2, <1>5, <2>2 DEF Typed
    <2>5. Holding'
      <3>1. ASSUME NEW p \in Processes, InLock(p) PROVE jobLock'[Job(p)] = p
        <4>1. jobLock[Job(p)] = p /\ Job(p) \in Jobs
          BY <1>2, <3>1, RequestFields DEF IInv, Holding, InLock
        <4>2. QED
          BY <2>1, <2>2, <4>1, NamesAssumption DEF Processes
      <3>2. \A p \in Callers, k \in Jobs : jobLock'[k] = p => InLock(p)' /\ Job(p)' = k
        BY <2>2, <2>3, NamesAssumption DEF IInv, Holding, Processes
      <3>3. \A k \in Jobs : jobLock'[k] = "pkg" => fence = "pkg" \/ (InLock("pkg") /\ Job("pkg") = k)
        BY <2>2 DEF IInv, Holding
      <3>4. QED
        BY <1>1, <1>2, <1>5, <2>3, <3>1, <3>2, <3>3 DEF Holding, Processes
    <2>6. Guarded'
      BY <1>1, <1>5 DEF IInv, Guarded, GuardAt, Is, Job
    <2>7. QED
      BY <1>3, <1>4, <2>3, <2>4, <2>5, <2>6 DEF IInv
  <1>6. CASE held = {} /\ ifaceFence' = "free" /\ admin' = NoAdmin /\ UNCHANGED jobLock
    <2>1. NoAdmin.at = "idle" /\ NoAdmin.todo = {}
          /\ NoAdmin \in [at : {"idle", "list", "readers", "jobs", "release"}, todo : SUBSET Jobs]
      BY DEF NoAdmin
    <2>2. Paths' /\ Session' /\ Passed' /\ Services'
      BY <1>1, <1>6, MutationsKept
    <2>3. Typed'
      BY <1>1, <1>2, <1>6, <2>1 DEF Typed
    <2>4. Holding'
      BY <1>1, <1>6 DEF IInv, Holding, InLock, Active, Job
    <2>5. Guarded'
      BY <1>1, <1>2, <1>6, <2>1 DEF IInv, Guarded, GuardAt, Is, Job
    <2>6. QED
      BY <1>3, <1>4, <2>2, <2>3, <2>4, <2>5 DEF IInv
  <1>7. QED
    BY <1>5, <1>6 DEF AdminRelease

-----------------------------------------------------------------------------
(* What happens by itself                                                  *)

\* A service only comes to rest, or goes, by itself: what a mutation has seen of
\* it stays true.
LEMMA ServiceChangesInv ==
  ASSUME IInv, NEW j \in Jobs, ServiceChanges(j)
  PROVE  IInv'
  <1>1. UNCHANGED <<files, locks, req, pkg, admin, overtaken>>
    BY DEF ServiceChanges
  <1>2. /\ svc' \in [Jobs -> {"none", "stopped", "busy"}]
        /\ \A k \in Jobs : svc[k] # "busy" => svc'[k] # "busy"
        /\ \A k \in Jobs : svc[k] = "none" => svc'[k] = "none"
    BY DEF IInv, Typed, ServiceChanges
  <1>3. Typed'
    BY <1>1, <1>2 DEF IInv, Typed, files, locks
  <1>4. Services'
    <2>1. ASSUME NEW p \in Processes PROVE ServiceAt(p, req[p].at, svc[Job(p)])'
      <3>1. ServiceAt(p, req[p].at, svc[Job(p)])
        BY DEF IInv, Services
      <3>2. req[p].at \notin {"idle", "probe", "lock"} => Job(p) \in Jobs
        BY RequestFields DEF IInv
      <3>3. QED
        BY <1>1, <1>2, <3>1, <3>2 DEF ServiceAt, Is, Job
    <2>2. QED
      BY <2>1 DEF Services
  <1>5. Paths' /\ Holding' /\ Reading' /\ Passed' /\ Guarded' /\ ReferencesHold'
    <2>1. Paths' /\ Reading' /\ ReferencesHold'
      BY <1>1 DEF IInv, Paths, PathAt, Reading, InLock, Active, Is, At, Job, ReferencesHold,
                  files, locks
    <2>2. Holding' /\ Passed' /\ Guarded'
      BY <1>1 DEF IInv, Holding, Passed, Working, Guarded, GuardAt, InLock, Active, Is, Job,
                  files, locks
    <2>3. QED
      BY <2>1, <2>2
  <1>6. \A p \in Callers : ~Is(p, {"packageStop"})'
    BY <1>1 DEF IInv, Session, Is
  <1>7. Session'
    BY <1>1, <1>6, SessionKept DEF locks
  <1>8. QED
    BY <1>3, <1>4, <1>5, <1>7 DEF IInv

\* A lock that has changed hands in a crash was the dead owner's.
LEMMA OrphanStep ==
  ASSUME NEW lock, NEW p \in Owners, NEW q \in Owners
  PROVE  /\ Orphan(lock, p) = q => lock = q /\ q # p
         /\ lock = q /\ q # p => Orphan(lock, p) = q
         /\ Orphan(lock, p) \in {lock, "dead"}
  BY NamesAssumption DEF Orphan, Owners, Processes

\* A process dies at any step, in or out of its locks.
LEMMA CrashInv ==
  ASSUME IInv, NEW p \in Owners, Crash(p)
  PROVE  IInv'
  <1> USE DEF files
  <1>1. /\ \A j \in Jobs : jobLock'[j] = Orphan(jobLock[j], p)
        /\ \A j \in Jobs : reader'[j] = Orphan(reader[j], p)
        /\ fence' = Orphan(fence, p) /\ ifaceFence' = Orphan(ifaceFence, p)
        /\ req' = [q \in Processes |-> IF q = p THEN NoRequest ELSE req[q]]
        /\ \A q \in Processes : q # p => req'[q] = req[q]
        /\ p \in Processes => req'[p] = NoRequest
        /\ pkg' = IF p = "pkg" THEN NoPackage ELSE pkg
        /\ admin' = IF p = "admin" THEN NoAdmin ELSE admin
        /\ overtaken' = IF p = "pkg" THEN {} ELSE overtaken \ {p}
        /\ UNCHANGED <<doc, iface, startFile, svc>>
    BY DEF Crash
  <1>2. /\ Typed /\ NoRequest.op = "none" /\ NoRequest.at = "idle" /\ NoRequest \in Requests
        /\ NoPackage \in Packages /\ NoPackage.at = "idle" /\ NoPackage.todo = {}
        /\ NoAdmin.at = "idle"
        /\ NoAdmin \in [at : {"idle", "list", "readers", "jobs", "release"}, todo : SUBSET Jobs]
    BY DEF IInv, NoRequest, Requests, NoPackage, Packages, NoAdmin
  <1>3. /\ "pkg" \in Processes /\ "pkg" # "admin" /\ "admin" \notin Processes
        /\ "pkg" \notin Callers /\ Processes \subseteq Owners
        /\ "dead" \notin Owners /\ "free" \notin Owners /\ "admin" \in Owners
    BY NamesAssumption DEF Processes, Owners
  <1>4. /\ \A q \in Processes : InLock(q)' <=> InLock(q) /\ q # p
        /\ \A q \in Processes : q # p => Job(q)' = Job(q)
    BY <1>1, <1>2 DEF InLock, Active, Job
  <1>5. /\ \A j \in Jobs, q \in Owners : jobLock'[j] = q => jobLock[j] = q /\ q # p
        /\ \A j \in Jobs, q \in Owners : jobLock[j] = q /\ q # p => jobLock'[j] = q
        /\ \A j \in Jobs, q \in Owners : reader'[j] = q => reader[j] = q /\ q # p
        /\ \A j \in Jobs, q \in Owners : reader[j] = q /\ q # p => reader'[j] = q
        /\ \A q \in Owners : fence' = q => fence = q /\ q # p
        /\ \A q \in Owners : fence = q /\ q # p => fence' = q
        /\ \A q \in Owners : ifaceFence' = q => ifaceFence = q /\ q # p
        /\ \A q \in Owners : ifaceFence = q /\ q # p => ifaceFence' = q
    BY <1>1, OrphanStep
  <1>6. Typed'
    <2>1. /\ jobLock' \in [Jobs -> Holders]
          /\ reader' \in [Jobs -> Holders \ {"admin"}]
      <3>1. \A j \in Jobs : /\ Orphan(jobLock[j], p) \in Holders
                            /\ Orphan(reader[j], p) \in Holders \ {"admin"}
        BY <1>2 DEF Typed, Orphan, Holders
      <3>2. /\ jobLock' = [j \in Jobs |-> Orphan(jobLock[j], p)]
            /\ reader' = [j \in Jobs |-> Orphan(reader[j], p)]
        BY DEF Crash
      <3>3. QED
        BY <3>1, <3>2
    <2>2. fence' \in {"free", "dead", "pkg"} /\ ifaceFence' \in {"free", "dead", "admin"}
      BY <1>1, <1>2 DEF Typed, Orphan
    <2>3. req' \in [Processes -> Requests]
      BY <1>1, <1>2 DEF Typed
    <2>4. /\ pkg' \in Packages /\ overtaken' \in SUBSET Callers
          /\ admin' \in [at : {"idle", "list", "readers", "jobs", "release"}, todo : SUBSET Jobs]
      BY <1>1, <1>2 DEF Typed
    <2>5. QED
      BY <1>1, <1>2, <2>1, <2>2, <2>3, <2>4 DEF Typed
  <1>7. Paths' /\ Services' /\ ReferencesHold'
    BY <1>1, <1>2
    DEF IInv, Paths, PathAt, Services, ServiceAt, ReferencesHold, Is, Job
  <1>8. Holding'
    <2>1. \A q \in Processes : InLock(q)' => jobLock'[Job(q)'] = q
      <3>1. SUFFICES ASSUME NEW q \in Processes, q # p, InLock(q) PROVE jobLock'[Job(q)] = q
        BY <1>4
      <3>2. jobLock[Job(q)] = q /\ Job(q) \in Jobs
        BY <1>2, <3>1, RequestFields DEF IInv, Holding, InLock
      <3>3. QED
        BY <1>3, <1>5, <3>1, <3>2
    <2>2. \A q \in Callers, j \in Jobs : jobLock'[j] = q => InLock(q)' /\ Job(q)' = j
      BY <1>3, <1>4, <1>5 DEF IInv, Holding, Processes
    <2>3. \A j \in Jobs : jobLock'[j] = "pkg" => fence' = "pkg" \/ (InLock("pkg")' /\ Job("pkg")' = j)
      BY <1>3, <1>4, <1>5 DEF IInv, Holding
    <2>4. \A j \in Jobs : jobLock'[j] = "admin" => ifaceFence' = "admin"
      BY <1>3, <1>5 DEF IInv, Holding
    <2>5. QED
      BY <2>1, <2>2, <2>3, <2>4 DEF Holding
  <1>9. Reading'
    <2>1. ASSUME NEW q \in Processes, NEW j \in Jobs, reader'[j] = q
          PROVE  InLock(q)' /\ Job(q)' = j /\ Is(q, Interfacing)' /\ ~At(q, "unlock")'
      <3>1. reader[j] = q /\ q # p
        BY <1>3, <1>5, <2>1
      <3>2. InLock(q) /\ Job(q) = j /\ Is(q, Interfacing) /\ ~At(q, "unlock")
        BY <3>1 DEF IInv, Reading
      <3>3. QED
        BY <1>1, <1>4, <3>1, <3>2 DEF Is, At
    <2>2. ASSUME NEW q \in Processes, At(q, "holdAgain")' PROVE reader'[Job(q)'] = q
      <3>1. q # p /\ At(q, "holdAgain") /\ Job(q)' = Job(q)
        BY <1>1, <1>2, <2>2 DEF At, Job
      <3>2. reader[Job(q)] = q /\ Job(q) \in Jobs
        BY <1>2, <3>1, RequestFields DEF IInv, Reading, At, Steps
      <3>3. QED
        BY <1>3, <1>5, <3>1, <3>2
    <2>3. QED
      BY <2>1, <2>2 DEF Reading
  <1>10. Session'
    <2>1. \A q \in Callers : ~Is(q, {"packageStop"})'
      BY <1>1, <1>2 DEF IInv, Session, Is, Processes
    <2>2. CASE p = "pkg"
      <3>1. ~Active("pkg")' /\ fence' # "pkg" /\ pkg'.at = "idle"
        BY <1>1, <1>2, <1>3, <1>5, <2>2 DEF Active
      <3>2. QED
        BY <2>1, <3>1 DEF Session
    <2>3. CASE p # "pkg"
      <3>1. req'["pkg"] = req["pkg"] /\ pkg' = pkg
        BY <1>1, <1>3, <2>3
      <3>2. fence' = fence
        BY <1>1, <1>2, <1>3, <2>3 DEF Typed, Orphan
      <3>3. \A j \in Jobs : jobLock[j] = "pkg" => jobLock'[j] = "pkg"
        BY <1>3, <1>5, <2>3
      <3>4. QED
        BY <2>1, <3>1, <3>2, <3>3, SessionKept
    <2>4. QED
      BY <2>2, <2>3
  <1>11. Passed'
    <2>1. SUFFICES ASSUME fence' = "pkg", NEW q \in Working' PROVE q \in overtaken'
      BY DEF Passed
    <2>2. fence = "pkg" /\ p # "pkg"
      BY <1>3, <1>5, <2>1
    <2>3. q # p /\ q \in Working
      BY <1>1, <1>2, <2>1 DEF Working, Processes
    <2>4. QED
      BY <1>1, <2>2, <2>3 DEF IInv, Passed
  <1>12. Guarded'
    <2>1. ifaceFence' = "admin" <=> admin'.at # "idle"
      BY <1>1, <1>2, <1>3, <1>5 DEF IInv, Guarded
    <2>2. ASSUME NEW q \in Processes PROVE GuardAt(q, req[q].at)'
      <3>1. CASE q = p
        BY <1>1, <1>2, <3>1 DEF GuardAt
      <3>2. CASE q # p
        <4>1. req'[q] = req[q] /\ GuardAt(q, req[q].at)
          BY <1>1, <3>2 DEF IInv, Guarded
        <4>2. req[q].at \notin {"idle", "probe", "lock"} => Job(q) \in Jobs
          BY <1>2, RequestFields
        <4>3. reader[Job(q)] = q /\ Job(q) \in Jobs => reader'[Job(q)] = q
          BY <1>3, <1>5, <3>2
        <4>4. admin'.at \in {"readers", "jobs"} => admin' = admin
          BY <1>1, <1>2
        <4>5. QED
          BY <1>1, <4>1, <4>2, <4>3, <4>4 DEF GuardAt, Is, Job
      <3>3. QED
        BY <3>1, <3>2
    <2>3. QED
      BY <2>1, <2>2 DEF Guarded
  <1>13. QED
    BY <1>6, <1>7, <1>8, <1>9, <1>10, <1>11, <1>12 DEF IInv

-----------------------------------------------------------------------------
(* The theorems                                                            *)

\* IInv holds before the first request.
LEMMA InvInit ==
  ASSUME Init
  PROVE  IInv
  <1> USE DEF Init
  <1>1. /\ NoRequest.op = "none" /\ NoRequest.at = "idle" /\ NoRequest \in Requests
        /\ NoPackage \in Packages /\ NoPackage.at = "idle"
        /\ NoAdmin.at = "idle"
        /\ NoAdmin \in [at : {"idle", "list", "readers", "jobs", "release"}, todo : SUBSET Jobs]
    BY DEF NoRequest, Requests, NoPackage, Packages, NoAdmin
  <1>2. /\ \A p \in Processes : req[p] = NoRequest
        /\ "pkg" \in Processes /\ "free" \notin Owners /\ "free" # "admin"
    BY NamesAssumption DEF Processes, Owners
  <1>3. Typed
    BY <1>1 DEF Typed, Holders, Requests
  <1>4. Paths /\ Services /\ ReferencesHold
    BY <1>1, <1>2, NamesAssumption DEF Paths, PathAt, Services, ServiceAt, ReferencesHold
  <1>5. Holding
    BY <1>1, <1>2 DEF Holding, InLock, Active, Owners, Processes
  <1>6. Reading
    BY <1>1, <1>2 DEF Reading, At, Owners
  <1>7. Session
    BY <1>1, <1>2 DEF Session, Active, Is, Processes
  <1>8. Passed
    BY DEF Passed
  <1>9. Guarded
    BY <1>1, <1>2 DEF Guarded, GuardAt
  <1>10. QED
    BY <1>3, <1>4, <1>5, <1>6, <1>7, <1>8, <1>9 DEF IInv

\* Every step of a Job mutation keeps IInv.
LEMMA InvMutation ==
  ASSUME IInv, NEW p \in Processes, Mutation(p)
  PROVE  IInv'
  BY RequestInv, ProbeInv, LockInv, ProbeAgainInv, ReadInv, HoldInv, EnterInv, HoldAgainInv,
     ValidateInv, InspectInv, CreateInv, WriteInv, SaveInv, InstallInv, ConfirmInv, StartInv,
     StopInv, UninstallInv, RemoveInv, LeaveInv, UnlockInv
  DEF Mutation

\* Every step of the package script keeps IInv.
LEMMA InvPackage ==
  ASSUME IInv, Package
  PROVE  IInv'
  BY RunInv, EachInv, EachDoneInv, FenceInv, ListInv, AcquireJobInv, AcquiredInv,
     SessionJobInv, StoppedInv, DeletedInv, PkgReleaseInv
  DEF Package

\* Every step of the Interface's mutation keeps IInv.
LEMMA InvInterface ==
  ASSUME IInv, Interface
  PROVE  IInv'
  BY CreateInterfaceInv, GuardInv, ListReadersInv, CheckReaderInv, FindReferencesInv,
     LockReferrerInv, ChangeInterfaceInv, AdminReleaseInv
  DEF Interface

\* Every step keeps IInv.
LEMMA InvStep ==
  ASSUME IInv, [Next]_vars
  PROVE  IInv'
  <1>1. CASE UNCHANGED vars
    <2> USE <1>1 DEF vars, files, locks
    <2>1. Typed' /\ ReferencesHold' /\ Paths' /\ Reading' /\ Services'
      BY DEF IInv, Typed, ReferencesHold, Paths, PathAt, Reading, Services, ServiceAt, InLock,
             Active, Is, At, Job
    <2>2. Holding' /\ Passed' /\ Guarded'
      BY DEF IInv, Holding, Passed, Working, Guarded, GuardAt, InLock, Active, Is, Job
    <2>3. Session'
      BY SessionKept DEF IInv, Session, Is
    <2>4. QED
      BY <2>1, <2>2, <2>3 DEF IInv
  <1>2. CASE Next
    BY <1>2, InvMutation, InvPackage, InvInterface, ServiceChangesInv, CrashInv DEF Next
  <1>3. QED
    BY <1>1, <1>2

\* IInv holds in every reachable state.
THEOREM Inductive == Spec => []IInv
  <1>1. Init => IInv
    BY InvInit
  <1>2. IInv /\ [Next]_vars => IInv'
    BY InvStep
  <1>3. QED
    BY <1>1, <1>2, PTL DEF Spec

\* A configuration fits the Interface as it is, at every moment of every Job's
\* create, update and start and of the Interface's own mutation.
THEOREM ConfigurationsFit == Spec => []ReferencesHold
  BY Inductive, PTL DEF IInv

\* The records of TypeOK are those of Typed.
LEMMA TypesHold ==
  ASSUME Typed
  PROVE  TypeOK
  <1>1. startFile \subseteq SUBSET Jobs /\ Cardinality(startFile) <= 1
    <2>1. CASE startFile = {}
      BY <2>1, FS_EmptySet
    <2>2. CASE startFile # {}
      <3>1. PICK names \in SUBSET Jobs : startFile = {names}
        BY <2>2 DEF Typed
      <3>2. Cardinality({names}) = 1
        BY FS_Singleton
      <3>3. QED
        BY <3>1, <3>2
    <2>3. QED
      BY <2>1, <2>2
  <1>2. fence \in Holders /\ ifaceFence \in Holders /\ reader \in [Jobs -> Holders]
    BY DEF Typed, Holders, Owners, Processes
  <1>3. \A p \in Processes :
          req[p] \in [op : Ops, at : Steps, job : Jobs, to : Configs, ok : BOOLEAN]
                       \cup {NoRequest}
    BY DEF Typed, Requests
  <1>4. /\ pkg.op \in {"none", "install", "start", "stop", "uninstall"}
        /\ {pkg.todo, pkg.targets, pkg.restart, admin.todo} \subseteq SUBSET Jobs
    BY DEF Typed, Packages
  <1>5. QED
    BY <1>1, <1>2, <1>3, <1>4 DEF Typed, TypeOK

\* No lock of a living process is without the work it was taken for.
LEMMA LocksWork ==
  ASSUME IInv
  PROVE  LocksHaveWork
  <1>1. fence = "pkg" => pkg.op \in {"stop", "uninstall"}
    BY DEF IInv, Session
  <1>2. ASSUME NEW j \in Jobs, NEW p \in Processes, reader[j] = p
        PROVE  jobLock[j] = p
    BY <1>2 DEF IInv, Reading, Holding
  <1>3. ASSUME NEW j \in Jobs, NEW p \in Callers, jobLock[j] = p
        PROVE  req[p].op # "none" /\ Job(p) = j
    BY <1>3 DEF IInv, Holding, InLock, Active
  <1>4. ASSUME NEW j \in Jobs, jobLock[j] = "pkg"
        PROVE  fence = "pkg" \/ (req["pkg"].op # "none" /\ Job("pkg") = j)
    BY <1>4 DEF IInv, Holding, InLock, Active
  <1>5. QED
    BY <1>1, <1>2, <1>3, <1>4 DEF LocksHaveWork

\* Types, and no lock that a refusal, a failed step, an early return or a crash
\* has left behind without an owner at work.
THEOREM NoLockIsLeft == Spec => []LocksAreSound
  <1>1. IInv => LocksAreSound
    BY TypesHold, LocksWork DEF IInv, LocksAreSound
  <1>2. QED
    BY <1>1, Inductive, PTL

\* While the package script stops or deletes Jobs it is alone but for the
\* mutations that its fence overtook, and those are of other Jobs.
THEOREM ScriptIsAlone == Spec => []AloneUnlessOvertaken
  <1>1. IInv => AloneUnlessOvertaken
    <2>1. SUFFICES ASSUME IInv, pkg.at \in {"stop", "delete"}, NEW p \in Working
                   PROVE  p \in overtaken /\ Job(p) \notin pkg.targets
      BY DEF AloneUnlessOvertaken
    <2>2. fence = "pkg" /\ \A j \in pkg.targets : jobLock[j] = "pkg"
      BY <2>1 DEF IInv, Session
    <2>3. p \in overtaken
      BY <2>1, <2>2 DEF IInv, Passed
    <2>4. p \in Processes /\ p # "pkg" /\ InLock(p)
      BY <2>1, RequestFields, NamesAssumption DEF IInv, Working, Processes, InLock
    <2>5. jobLock[Job(p)] = p
      BY <2>1, <2>4 DEF IInv, Holding
    <2>6. QED
      BY <2>2, <2>3, <2>4, <2>5
  <1>2. QED
    BY <1>1, Inductive, PTL

\* Only four steps of a mutation touch a document: its own Job's, under the lock.
LEMMA WhoWrites ==
  ASSUME IInv, Next, NEW j \in Jobs, doc'[j] # doc[j]
  PROVE  \E p \in Processes :
           /\ InLock(p) /\ Job(p) = j
           /\ req[p].at \in {"create", "write", "save", "remove"}
           /\ ServiceAt(p, req[p].at, svc[j]) /\ PathAt(p, req[p].at)
           /\ doc'[j] = "none" => req[p].at \in {"write", "remove"}
  <1>1. PICK p \in Processes : Create(p) \/ Write(p) \/ Save(p) \/ Remove(p)
    <2>1. ~ UNCHANGED doc
      OBVIOUS
    <2>2. ASSUME NEW p \in Processes, Mutation(p)
          PROVE  Create(p) \/ Write(p) \/ Save(p) \/ Remove(p)
      <3>1. \/ Create(p) \/ Write(p) \/ Save(p) \/ Remove(p)
            \/ Request(p) \/ Probe(p) \/ Lock(p) \/ ProbeAgain(p) \/ Read(p)
            \/ Hold(p) \/ Enter(p) \/ HoldAgain(p) \/ Validate(p) \/ Inspect(p)
            \/ Install(p) \/ Confirm(p) \/ Start(p) \/ Stop(p) \/ Uninstall(p)
            \/ Leave(p) \/ Unlock(p)
        BY <2>2 DEF Mutation
      <3>2. QED
        BY <2>1, <3>1
        DEF Request, Probe, Lock, ProbeAgain, Read, Hold, Enter, HoldAgain, Validate, Inspect,
            Install, Confirm, Start, Stop, Uninstall, Leave, Unlock, files
    <2>3. Package => UNCHANGED doc
      BY DEF Package, Run, Each, EachDone, Fence, List, AcquireJob, Acquired, SessionJob,
             Stopped, Deleted, PkgRelease, files
    <2>4. Interface => UNCHANGED doc
      BY DEF Interface, CreateInterface, Guard, ListReaders, CheckReader, FindReferences,
             LockReferrer, ChangeInterface, AdminRelease, files
    <2>5. /\ \A k \in Jobs : ServiceChanges(k) => UNCHANGED doc
          /\ \A q \in Owners : Crash(q) => UNCHANGED doc
      BY DEF ServiceChanges, Crash, files
    <2>6. QED
      BY <2>1, <2>2, <2>3, <2>4, <2>5 DEF Next
  <1>2. req[p].at \in {"create", "write", "save", "remove"}
    BY <1>1 DEF Create, Write, Save, Remove, At
  <1>3. /\ InLock(p) /\ Job(p) \in Jobs /\ Typed /\ req[p].to \in Configs
        /\ PathAt(p, req[p].at) /\ ServiceAt(p, req[p].at, svc[Job(p)])
    BY <1>2, InsideFacts DEF Steps
  <1>4. Job(p) = j
    BY <1>1, <1>3 DEF Create, Write, Save, Remove, SetDoc, Typed
  <1>5. doc'[j] = "none" => req[p].at \in {"write", "remove"}
    BY <1>1, <1>3, <1>4, NamesAssumption DEF Create, Write, Save, Remove, SetDoc, Typed, Configs, At
  <1>6. QED
    BY <1>2, <1>3, <1>4, <1>5

\* The configuration of a Job that runs is neither changed nor removed.
THEOREM RunningStays == Spec => RunningIsFixed
  <1>1. IInv /\ [Next]_vars => [\A j \in Jobs : doc'[j] # doc[j] => svc[j] # "busy"]_vars
    <2>1. SUFFICES ASSUME IInv, Next, NEW j \in Jobs, doc'[j] # doc[j] PROVE svc[j] # "busy"
      OBVIOUS
    <2>2. QED
      BY <2>1, WhoWrites DEF ServiceAt
  <1>2. QED
    BY <1>1, Inductive, PTL DEF Spec, RunningIsFixed

\* A delete keeps the configuration until the service is gone.
THEOREM DeleteIsLast == Spec => DeleteLeavesNoService
  <1>1. IInv /\ [Next]_vars =>
          [\A j \in Jobs : doc[j] # "none" /\ doc'[j] = "none" /\ svc[j] # "none" =>
             \E p \in Processes : Is(p, {"create"}) /\ Job(p) = j]_vars
    <2>1. SUFFICES ASSUME IInv, Next, NEW j \in Jobs,
                          doc[j] # "none" /\ doc'[j] = "none" /\ svc[j] # "none"
                   PROVE  \E p \in Processes : Is(p, {"create"}) /\ Job(p) = j
      OBVIOUS
    <2>2. PICK p \in Processes :
            /\ Job(p) = j /\ req[p].at \in {"write", "remove"}
            /\ ServiceAt(p, req[p].at, svc[j]) /\ PathAt(p, req[p].at)
      BY <2>1, WhoWrites
    <2>3. Is(p, {"create"})
      BY <2>1, <2>2 DEF ServiceAt, PathAt, Is
    <2>4. QED
      BY <2>2, <2>3
  <1>2. QED
    BY <1>1, Inductive, PTL DEF Spec, DeleteLeavesNoService
=============================================================================
