------------------------------ MODULE Profiles ------------------------------
(* The Profiles of the earlier contract, which api/profile.js and            *)
(* api/method.js still serve: a Profile holds Methods, and the Job documents *)
(* written before DBus Interfaces name a Profile and a Method.  Every        *)
(* request is a CGI process; a change goes through the fence of the Profile  *)
(* and, where it may meet a running Job, through the operation locks of the  *)
(* Jobs that reference it (profiles/manager.js, guardMutation and            *)
(* withProfileFence).                                                        *)
(*                                                                           *)
(* A Method is its id and a body; a lock is its holder, because              *)
(* OperationLock models how it is taken.  The registry of readers is left    *)
(* out: no code in the repository ever puts a reader there; and so is the    *)
(* default Profile, a setting the validator of the settings no longer knows, *)
(* and the built-in Profiles, which refuse every change.                     *)
EXTENDS Integers, Sequences, FiniteSets

CONSTANTS Processes,    (* CGI processes serving requests                    *)
          Ids,          (* Profile ids                                       *)
          Methods,      (* Method ids                                        *)
          Jobs,
          Versions,     (* Neo versions: [core, pre]                         *)
          MaxRequests   (* bound on the requests                             *)

VARIABLES
  product,   (* "generic" reads the Job documents, "ls" their index          *)
  profiles,  (* [Ids -> [version, methods, least] or None]                   *)
  docs,      (* [Jobs -> [profile, method, readable] or None]                *)
  running,   (* Jobs whose service runs or is in an unknown state            *)
  fence,     (* [Ids -> process or Nobody]                                   *)
  jobLock,   (* [Jobs -> process or Nobody]                                  *)
  req,       (* [Processes -> the request in hand]                           *)
  runtime,   (* the version of the Neo server                                *)
  made       (* requests made                                                *)

vars == <<product, profiles, docs, running, fence, jobLock, req, runtime, made>>
shop == <<product, docs, running, runtime>>

Nobody == "nobody"
None == [is |-> "none"]
Idle == [at |-> "idle"]

-----------------------------------------------------------------------------
(* profiles/version.js.  A version is a core (a sequence of three numbers)   *)
(* and a pre-release: a sequence of <<"number", n>> and <<"word", n>>, words *)
(* numbered in their order.                                                  *)

\* parseSemVer
Identifiers == {"number", "word"} \X Nat
SemVers == [core : [1..3 -> Nat], pre : Seq(Identifiers)]

Sign(a, b) == IF a = b THEN 0 ELSE IF a < b THEN -1 ELSE 1

\* compareIdentifier
CompareIdentifier(a, b) == IF a[1] = b[1] THEN Sign(a[2], b[2])
                           ELSE IF a[1] = "number" THEN -1 ELSE 1

\* the first place where two sequences differ, or 0
Differ(a, b) == LET d == {i \in DOMAIN a \cap DOMAIN b : a[i] # b[i]}
                IN  IF d = {} THEN 0 ELSE CHOOSE i \in d : \A j \in d : i <= j

\* compareSemVer
Compare(a, b) ==
  LET core == Differ(a.core, b.core)
      pre == Differ(a.pre, b.pre)
  IN  IF core # 0 THEN Sign(a.core[core], b.core[core])
      ELSE IF a.pre = << >> \/ b.pre = << >> THEN Sign(Len(b.pre), Len(a.pre))
      ELSE IF pre # 0 THEN CompareIdentifier(a.pre[pre], b.pre[pre])
      ELSE Sign(Len(a.pre), Len(b.pre))

\* isCompatible
Compatible(id) == Compare(profiles[id].least, runtime) <= 0

-----------------------------------------------------------------------------
(* profiles/references.js                                                    *)

\* documents: what is wrong with a Job, and whether it then counts for all
Invalid(j) == \/ ~docs[j].readable
              \/ product = "generic" /\ docs[j].profile = "none"
Everyones(j) == Invalid(j)

\* find: the Jobs that reference a Profile, or one Method of it
Find(id, m) == {j \in Jobs : /\ docs[j] # None
                             /\ Everyones(j) \/ docs[j].profile = id
                             /\ Invalid(j) \/ m = "any" \/ docs[j].method = m}
Unclear(refs) == \E j \in refs : Invalid(j)

-----------------------------------------------------------------------------
(* A request: [op, id, method, body, at, seen].  A PUT of the whole Profile  *)
(* sends the one Method it names.                                            *)

Guarded == {"createProfile", "updateProfile", "createMethod", "updateMethod"}
Scope(r) == IF r.op \in {"updateMethod", "deleteMethod"} THEN r.method ELSE "any"

Ask(p) ==
  /\ req[p] = Idle /\ made < MaxRequests
  /\ \E op \in Guarded \cup {"deleteProfile", "deleteMethod"}, id \in Ids, m \in Methods, b \in 1..2 :
       req' = [req EXCEPT ![p] = [op |-> op, id |-> id, method |-> m, body |-> b, at |-> "fence",
                                  seen |-> None]]
  /\ made' = made + 1
  /\ UNCHANGED <<shop, profiles, fence, jobLock>>

At(p, place) == req[p].at = place
Refs(p) == Find(req[p].id, Scope(req[p]))
Goes(p, place) == req' = [req EXCEPT ![p].at = place]

\* done: every lock held is released, the Jobs' first
Release(p) ==
  /\ req' = [req EXCEPT ![p] = Idle]
  /\ fence' = [i \in Ids |-> IF fence[i] = p THEN Nobody ELSE fence[i]]
  /\ jobLock' = [j \in Jobs |-> IF jobLock[j] = p THEN Nobody ELSE jobLock[j]]

\* the fence; a second process on the same Profile is refused
TakeFence(p) ==
  /\ At(p, "fence")
  /\ IF fence[req[p].id] # Nobody
     THEN Release(p)
     ELSE /\ fence' = [fence EXCEPT ![req[p].id] = p]
          /\ Goes(p, IF req[p].op \in Guarded THEN "jobs" ELSE "read")
          /\ UNCHANGED jobLock
  /\ UNCHANGED <<shop, profiles, made>>

\* the references, their Jobs' locks in the order of names, and a second look
LockJobs(p) ==
  /\ At(p, "jobs")
  /\ IF Unclear(Refs(p)) \/ \E j \in Refs(p) : jobLock[j] # Nobody
     THEN Release(p)
     ELSE /\ jobLock' = [j \in Jobs |-> IF j \in Refs(p) THEN p ELSE jobLock[j]]
          /\ Goes(p, "again")
          /\ UNCHANGED fence
  /\ UNCHANGED <<shop, profiles, made>>

LookAgain(p) ==
  /\ At(p, "again")
  /\ IF Unclear(Refs(p)) THEN Release(p) ELSE Goes(p, "states") /\ UNCHANGED <<fence, jobLock>>
  /\ UNCHANGED <<shop, profiles, made>>

\* withStates: no referencing Job may run
States(p) ==
  /\ At(p, "states")
  /\ IF Refs(p) \cap running # {} THEN Release(p)
     ELSE Goes(p, "read") /\ UNCHANGED <<fence, jobLock>>
  /\ UNCHANGED <<shop, profiles, made>>

\* Mutant: a PUT may leave out a Method some Job references.
Refused_PutFree(p) ==
  LET now == profiles[req[p].id]
      names == IF now = None THEN {} ELSE DOMAIN now.methods
  IN  CASE req[p].op = "createProfile" -> now # None
        [] req[p].op = "updateProfile" -> now = None
        [] req[p].op = "createMethod"  -> now = None \/ req[p].method \in names
        [] req[p].op = "updateMethod"  -> req[p].method \notin names
        [] OTHER -> now = None \/ Find(req[p].id, "any") # {}

\* the operation reads the Profile and looks at the references it must respect
Refused(p) ==
  LET r == req[p]
      now == profiles[r.id]
      names == IF now = None THEN {} ELSE DOMAIN now.methods
  IN  CASE r.op = "createProfile" -> now # None
        [] r.op = "updateProfile" -> now = None \/ \E m \in names \ {r.method} : Find(r.id, m) # {}
        [] r.op = "createMethod"  -> now = None \/ r.method \in names
        [] r.op = "updateMethod"  -> r.method \notin names
        [] r.op = "deleteProfile" -> now = None \/ Find(r.id, "any") # {}
        [] r.op = "deleteMethod"  -> \/ r.method \notin names
                                     \/ Unclear(Find(r.id, "any")) \/ Find(r.id, r.method) # {}

Read(p) ==
  /\ At(p, "read")
  /\ IF Refused(p) THEN Release(p)
     ELSE /\ req' = [req EXCEPT ![p].at = "write", ![p].seen = profiles[req[p].id]]
          /\ UNCHANGED <<fence, jobLock>>
  /\ UNCHANGED <<shop, profiles, made>>

\* what the operation saves, from what it read
Saved(r) ==
  LET one == [m \in {r.method} |-> r.body]
      next(methods) == [version |-> r.seen.version + 1, methods |-> methods, least |-> r.seen.least]
  IN  CASE r.op = "createProfile" -> [version |-> 1, methods |-> one, least |-> CHOOSE v \in Versions : TRUE]
        [] r.op = "updateProfile" -> next(one)
        [] r.op \in {"createMethod", "updateMethod"} ->
             next([m \in DOMAIN r.seen.methods \cup {r.method} |->
                     IF m = r.method THEN r.body ELSE r.seen.methods[m]])
        [] r.op = "deleteMethod"  -> next([m \in DOMAIN r.seen.methods \ {r.method} |-> r.seen.methods[m]])
        [] OTHER                  -> None

Write(p) ==
  /\ At(p, "write")
  /\ profiles' = [profiles EXCEPT ![req[p].id] = Saved(req[p])]
  /\ Release(p)
  /\ UNCHANGED <<shop, made>>

-----------------------------------------------------------------------------
(* The others.                                                               *)

\* the Job manager: a document it writes names no Profile
SaveJob(j) ==
  /\ jobLock[j] = Nobody /\ j \notin running
  /\ docs' = [docs EXCEPT ![j] = [profile |-> "none", method |-> "none", readable |-> TRUE]]
  /\ UNCHANGED <<product, profiles, running, fence, jobLock, req, runtime, made>>

DeleteJob(j) ==
  /\ jobLock[j] = Nobody /\ docs[j] # None
  /\ docs' = [docs EXCEPT ![j] = None] /\ running' = running \ {j}
  /\ UNCHANGED <<product, profiles, fence, jobLock, req, runtime, made>>

\* the service of an old Job ends, whoever ends it
StopJob(j) ==
  /\ j \in running
  /\ running' = running \ {j}
  /\ UNCHANGED <<product, profiles, docs, fence, jobLock, req, runtime, made>>

\* the Neo server is replaced by a later one
Upgrade ==
  /\ \E v \in Versions : Compare(runtime, v) < 0 /\ runtime' = v
  /\ UNCHANGED <<product, profiles, docs, running, fence, jobLock, req, made>>

\* What the constants are: TLC evaluates it for its instances.
ConstantsFit == Nobody \notin Processes /\ Versions \subseteq SemVers

-----------------------------------------------------------------------------
Init ==
  /\ product \in {"generic", "ls"}
  /\ \E m \in Methods, v \in Versions, i \in Ids :
       profiles = [id \in Ids |-> IF id = i THEN [version |-> 1, methods |-> [x \in {m} |-> 1], least |-> v]
                                  ELSE None]
  /\ docs \in [Jobs -> {None} \cup [profile : {i \in Ids : profiles[i] # None}, method : Methods,
                                   readable : BOOLEAN]]
  /\ \A j \in Jobs : docs[j] # None => \E i \in Ids : docs[j].profile = i /\ docs[j].method \in DOMAIN profiles[i].methods
  /\ running \in SUBSET {j \in Jobs : docs[j] # None}
  /\ fence = [i \in Ids |-> Nobody] /\ jobLock = [j \in Jobs |-> Nobody]
  /\ req = [p \in Processes |-> Idle]
  /\ runtime \in Versions /\ made = 0

Step(p) == Ask(p) \/ TakeFence(p) \/ LockJobs(p) \/ LookAgain(p) \/ States(p) \/ Read(p) \/ Write(p)
Next == \/ \E p \in Processes : Step(p)
        \/ \E j \in Jobs : SaveJob(j) \/ DeleteJob(j) \/ StopJob(j)
        \/ Upgrade
Spec == Init /\ [][Next]_vars

-----------------------------------------------------------------------------
(* Properties.                                                               *)

\* references.js and manager.js: while a readable Job document names a Method
\* of a Profile, the Profile keeps that Method, whatever clients send.
ReferencedStays ==
  \A j \in Jobs : docs[j] # None /\ docs[j].readable /\ docs[j].profile # "none" =>
    profiles[docs[j].profile] # None /\ docs[j].method \in DOMAIN profiles[docs[j].profile].methods

\* guardMutation and withProfileFence: requests on one Profile do not undo one
\* another; a change raises the version by one, and what it does to a Method it
\* does at the request that names it or replaces the whole Profile.
EditCounts ==
  \A i \in Ids : profiles[i] # None /\ profiles'[i] # None /\ profiles'[i] # profiles[i] =>
       /\ profiles'[i].version = profiles[i].version + 1
       /\ \A m \in DOMAIN profiles[i].methods :
            \/ m \in DOMAIN profiles'[i].methods /\ profiles'[i].methods[m] = profiles[i].methods[m]
            \/ \E p \in Processes : /\ At(p, "write") /\ req'[p] = Idle
                                    /\ (req[p].op = "updateProfile" \/ req[p].method = m)
EveryEditCounts == [][EditCounts]_vars

\* version.js: a Profile a server could use stays usable when the server is
\* upgraded.
StaysCompatible ==
  \A i \in Ids : profiles[i] # None /\ Compatible(i) /\ profiles' = profiles => Compatible(i)'
UpgradeKeepsCompatible == [][StaysCompatible]_vars
=============================================================================
