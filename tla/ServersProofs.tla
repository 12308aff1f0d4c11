----------------------------- MODULE ServersProofs -----------------------------
(***************************************************************************)
(* Proofs about Servers for any names, Jobs, tables and columns, any set   *)
(* of processes and any number of requests: what a saved Job writes into   *)
(* is there, a profile keeps columns of its table, and a removed server    *)
(* does not come back.  In the second part, about Profiles: references     *)
(* keep Methods, edits add up, an upgrade keeps what it can use.  In the   *)
(* third, about ViewerApi: the pages of a walk are one table's, and whole. *)
(***************************************************************************)
EXTENDS Servers, Sequences, WellFoundedInduction, TLAPS

-----------------------------------------------------------------------------
(* The inductive invariant                                                 *)

Values    == {m.value : m \in Mappings} \cup {"VALUE"}
Strings   == {m.string : m \in Mappings} \cup {"", "STR_VALUE"}
Layouts   == {Given[t] : t \in DOMAIN Given} \cup {Missing} \cup {Made(string) : string \in Strings}
Profiles  == [table : Tables \cup {"DEFAULT_DBUS"}, value : Values, string : Strings]
Documents == [server : Names, table : Tables, value : Values, string : Strings]

Editing  == [at : {"create", "update", "write", "release"}, server : Names,
             new : BOOLEAN, profile : Profiles]
Removing == [at : {"remove", "unlink", "release"}, server : Names]
Setting  == [at : {"list", "settings"}, server : Names]
Saving   == [at : {"look", "make", "again", "columns", "save"}, job : Jobs, server : Names,
             seen : Tables \cup {"DEFAULT_DBUS"}, db : Documents,
             needs : BOOLEAN, fractional : BOOLEAN]
Requests == {Idle} \cup Editing \cup Removing \cup Setting \cup Saving

Typed ==
  /\ servers \in [Names -> Profiles \cup {Nothing}] /\ default \in Names
  /\ tables \in [Tables -> Layouts] /\ jobs \in [Jobs -> Documents \cup {Nothing}]
  /\ lock \in [Names -> Processes \cup {Nobody}] /\ request \in [Processes -> Requests]

\* A process between the lock and its release has the lock.
Locked(p) ==
  request[p].at \in {"write", "unlink", "release"} => lock[request[p].server] = p

\* Only a create writes where nothing is: an update has found its server under
\* the lock.
Found(p) ==
  /\ At(p, "create") => request[p].new
  /\ At(p, "write") /\ ~request[p].new => Registered(request[p].server)

\* A profile on its way has columns of its table.
Suits(r) == r.table \in DOMAIN Given => r.value \in Given[r.table].numeric
Chosen(p) ==
  request[p].at \in {"create", "update", "write"} => Suits(request[p].profile)

\* A table that is asked for gets the columns the Job will name, and a Job that
\* is about to be stored, or whose new table is told to the profile, names
\* columns that are there.
Mapped(db) == validatedExistingMapping(db.table, db.value, db.string, FALSE)
Making(p) ==
  /\ At(p, "make") => request[p].db.value = "VALUE"
  /\ request[p].at \in {"columns", "save"} => Mapped(request[p].db)
  /\ At(p, "columns") => request[p].db.table \notin DOMAIN Given

Clauses(p) == Locked(p) /\ Found(p) /\ Chosen(p) /\ Making(p)

\* The tables that were there stay as they were.
Stay == \A t \in Tables : t \in DOMAIN Given => tables[t] = Given[t]

IInv == /\ Typed /\ Stay /\ MappingFits /\ ProfileFits
        /\ \A p \in Processes : Clauses(p)

-----------------------------------------------------------------------------
(* The requests                                                            *)

\* Where a process is tells what its request is.
LEMMA Fields ==
  ASSUME Typed, NEW p \in Processes
  PROVE  /\ request[p] \in Requests
         /\ request[p].at \in {"create", "update", "write"} => request[p] \in Editing
         /\ request[p].at \in {"remove", "unlink"} => request[p] \in Removing
         /\ request[p].at = "release" => request[p] \in Editing \cup Removing
         /\ request[p].at \in {"list", "settings"} => request[p] \in Setting
         /\ request[p].at \in {"look", "make", "again", "columns", "save"} => request[p] \in Saving
  BY DEF Typed, Requests, Idle, Editing, Removing, Setting, Saving

\* Only the request of p goes on.
Alone(p) ==
  /\ request' \in [Processes -> Requests]
  /\ \A q \in Processes \ {p} : request'[q] = request[q]

\* A request that goes on stays what it is.
LEMMA Going ==
  ASSUME Typed, NEW p \in Processes, NEW place, Goes(p, place)
  PROVE  /\ \A q \in Processes \ {p} : request'[q] = request[q]
         /\ request[p] \in Editing /\ place \in {"create", "update", "write", "release"}
              => /\ Alone(p) /\ request'[p] \in Editing /\ request'[p].at = place
                 /\ request'[p].server = request[p].server
                 /\ request'[p].new = request[p].new
                 /\ request'[p].profile = request[p].profile
         /\ request[p] \in Removing /\ place \in {"remove", "unlink", "release"}
              => /\ Alone(p) /\ request'[p] \in Removing /\ request'[p].at = place
                 /\ request'[p].server = request[p].server
         /\ request[p] \in Setting /\ place \in {"list", "settings"}
              => Alone(p) /\ request'[p] \in Setting /\ request'[p].at = place
         /\ request[p] \in Saving /\ place \in {"look", "make", "again", "columns", "save"}
              => /\ Alone(p) /\ request'[p] \in Saving /\ request'[p].at = place
                 /\ request'[p].db = request[p].db
  <1> DEFINE r == [request[p] EXCEPT !.at = place]
  <1>1. /\ \A q \in Processes \ {p} : request'[q] = request[q]
        /\ request' = [request EXCEPT ![p] = r] /\ request'[p] = r
        /\ DOMAIN request' = Processes /\ request \in [Processes -> Requests]
    BY DEF Goes, Typed
  <1>2. r \in Requests => Alone(p)
    BY <1>1 DEF Alone
  <1>3. request[p] \in Editing /\ place \in {"create", "update", "write", "release"}
          => /\ r \in Editing /\ r.at = place /\ r.server = request[p].server
             /\ r.new = request[p].new /\ r.profile = request[p].profile
    BY DEF Editing
  <1>4. request[p] \in Removing /\ place \in {"remove", "unlink", "release"}
          => r \in Removing /\ r.at = place /\ r.server = request[p].server
    BY DEF Removing
  <1>5. request[p] \in Setting /\ place \in {"list", "settings"} => r \in Setting /\ r.at = place
    BY DEF Setting
  <1>6. request[p] \in Saving /\ place \in {"look", "make", "again", "columns", "save"}
          => r \in Saving /\ r.at = place /\ r.db = request[p].db
    BY DEF Saving
  <1>7. Editing \cup Removing \cup Setting \cup Saving \subseteq Requests
    BY DEF Requests
  <1> HIDE DEF r
  <1> QED
    BY <1>1, <1>2, <1>3, <1>4, <1>5, <1>6, <1>7

\* A request that ends leaves its process idle.
LEMMA Ending ==
  ASSUME Typed, NEW p \in Processes, Ends(p)
  PROVE  Alone(p) /\ request'[p].at = "idle" /\ Clauses(p)'
  BY DEF Typed, Ends, Alone, Requests, Idle, Clauses, Locked, Found, Chosen, Making, At

\* The first step of a request.
Opening(p) ==
  \/ CreateServer(p) \/ UpdateServer(p) \/ DeleteServer(p) \/ ReadSettings(p) \/ SaveJob(p)

\* What begins is a request with fields of its kind, and changes nothing else.
LEMMA Opens ==
  ASSUME ConstantsFit, IInv, NEW p \in Processes, Opening(p)
  PROVE  /\ UNCHANGED <<servers, default, tables, jobs, lock>>
         /\ \E r \in Requests :
              /\ request' = [request EXCEPT ![p] = r]
              /\ r.at \in {"create", "update", "remove", "list", "settings", "look"}
              /\ r.at = "create" => r.new
              /\ r.at \in {"create", "update"} => Suits(r.profile)
  <1>1. CASE CreateServer(p)
    <2>1. PICK s \in Names, t \in Tables, m \in Mappings :
            /\ Offered(t, m)
            /\ Begins(p, [at |-> "create", server |-> s, new |-> TRUE,
                          profile |-> Profile(t, m.value, m.string)])
            /\ UNCHANGED <<servers, default, tables, jobs, lock>>
      BY <1>1 DEF CreateServer
    <2> DEFINE r == [at |-> "create", server |-> s, new |-> TRUE, profile |-> Profile(t, m.value, m.string)]
    <2>2. Profile(t, m.value, m.string) \in Profiles
      BY DEF Profile, Profiles, Values, Strings
    <2>3. r \in Requests
      BY <2>2 DEF Requests, Editing
    <2>4. Suits(r.profile) /\ (r.at = "create" => r.new)
      BY <2>1 DEF Offered, Suits, Profile
    <2> HIDE DEF r
    <2>5. r.at = "create"
      BY DEF r
    <2>6. request' = [request EXCEPT ![p] = r]
      BY <2>1 DEF Begins, r
    <2> QED
      BY <2>1, <2>3, <2>4, <2>5, <2>6
  <1>2. CASE UpdateServer(p)
    <2>1. PICK s \in Names, t \in Tables, m \in Mappings :
            /\ Offered(t, m)
            /\ Begins(p, [at |-> "update", server |-> s, new |-> FALSE,
                          profile |-> Profile(t, m.value, m.string)])
            /\ UNCHANGED <<servers, default, tables, jobs, lock>>
      BY <1>2 DEF UpdateServer
    <2> DEFINE r == [at |-> "update", server |-> s, new |-> FALSE, profile |-> Profile(t, m.value, m.string)]
    <2>2. Profile(t, m.value, m.string) \in Profiles
      BY DEF Profile, Profiles, Values, Strings
    <2>3. r \in Requests
      BY <2>2 DEF Requests, Editing
    <2>4. Suits(r.profile) /\ (r.at = "create" => r.new)
      BY <2>1 DEF Offered, Suits, Profile
    <2> HIDE DEF r
    <2>5. r.at = "update"
      BY DEF r
    <2>6. request' = [request EXCEPT ![p] = r]
      BY <2>1 DEF Begins, r
    <2> QED
      BY <2>1, <2>3, <2>4, <2>5, <2>6
  <1>3. CASE DeleteServer(p)
    <2>1. PICK s \in Names \ {default} :
            /\ Begins(p, [at |-> "remove", server |-> s])
            /\ UNCHANGED <<servers, default, tables, jobs, lock>>
      BY <1>3 DEF DeleteServer
    <2> DEFINE r == [at |-> "remove", server |-> s]
    <2>2. r \in Requests /\ r.at = "remove"
      BY DEF Requests, Removing
    <2> HIDE DEF r
    <2>3. request' = [request EXCEPT ![p] = r]
      BY <2>1 DEF Begins, r
    <2> QED
      BY <2>1, <2>2, <2>3
  <1>4. CASE ReadSettings(p)
    BY <1>4 DEF ReadSettings, Begins, Requests, Setting, IInv, Typed
  <1>5. CASE SaveJob(p)
    <2>1. PICK j \in Jobs, s \in {x \in Names : Registered(x)}, t \in Tables, m \in Mappings,
               needs \in BOOLEAN, fractional \in BOOLEAN :
            /\ Begins(p, [at |-> "look", job |-> j, server |-> s, seen |-> servers[s].table,
                          db |-> Database(s, t, m.value, m.string),
                          needs |-> needs, fractional |-> fractional])
            /\ UNCHANGED <<servers, default, tables, jobs, lock>>
      BY <1>5 DEF SaveJob
    <2> DEFINE r == [at |-> "look", job |-> j, server |-> s, seen |-> servers[s].table,
                     db |-> Database(s, t, m.value, m.string),
                     needs |-> needs, fractional |-> fractional]
    <2>2. Database(s, t, m.value, m.string) \in Documents
      BY DEF Database, Documents, Values, Strings
    <2>3. servers[s] \in Profiles
      BY DEF IInv, Typed, Registered
    <2>4. servers[s].table \in Tables \cup {"DEFAULT_DBUS"}
      BY <2>3 DEF Profiles
    <2>5. r \in Requests
      BY <2>2, <2>4 DEF Requests, Saving
    <2> HIDE DEF r
    <2>6. r.at = "look"
      BY DEF r
    <2>7. request' = [request EXCEPT ![p] = r]
      BY <2>1 DEF Begins, r
    <2> QED
      BY <2>1, <2>5, <2>6, <2>7
  <1> QED
    BY <1>1, <1>2, <1>3, <1>4, <1>5 DEF Opening

-----------------------------------------------------------------------------
(* What a step does                                                        *)

\* A step of p takes a free lock or gives its own back, removes a server whose
\* lock it has, leaves the tables that are there, and writes profiles and Jobs
\* that name columns of their tables.
Effects(p) ==
  /\ servers' \in [Names -> Profiles \cup {Nothing}] /\ default' \in Names
  /\ tables' \in [Tables -> Layouts] /\ jobs' \in [Jobs -> Documents \cup {Nothing}]
  /\ lock' \in [Names -> Processes \cup {Nobody}]
  /\ \A s \in Names : /\ lock[s] \notin {Nobody, p} => lock'[s] = lock[s]
                      /\ Registered(s) /\ lock[s] # p => Registered(s)'
                      /\ servers'[s] \in {servers[s], Nothing} \/ Suits(servers'[s])
  /\ \A t \in Tables : Known(t) => tables'[t] = tables[t]
  /\ \A j \in Jobs : jobs'[j] \in {jobs[j], Nothing} \/ Mapped(jobs'[j])

\* A mapping that fits is one of a table that is there.
LEMMA MappedKnown ==
  ASSUME NEW db, Mapped(db)
  PROVE  Known(db.table)
  <1>1. Missing.numeric = {}
    BY DEF Missing
  <1>2. tables[db.table].numeric # {}
    BY DEF Mapped, validatedExistingMapping
  <1> QED
    BY <1>1, <1>2 DEF Known

\* A mapping that fits stays so.
LEMMA MappedStays ==
  ASSUME NEW p, Effects(p), NEW db \in Documents, Mapped(db)
  PROVE  Mapped(db)'
  <1>1. db.table \in Tables
    BY DEF Documents
  <1>2. tables'[db.table] = tables[db.table]
    BY <1>1, MappedKnown DEF Effects
  <1> QED
    BY <1>2 DEF Mapped, validatedExistingMapping

\* What holds of a process holds after a step of another.
LEMMA OthersStep ==
  ASSUME ConstantsFit, IInv, NEW p \in Processes, Effects(p), Alone(p), NEW q \in Processes \ {p}
  PROVE  Clauses(q)'
  <1>1. request'[q] = request[q] /\ Clauses(q) /\ Typed
    BY DEF IInv, Alone
  <1>2. Locked(q)'
    <2>1. request[q].at \in {"write", "unlink", "release"} =>
            /\ request[q].server \in Names /\ lock[request[q].server] = q /\ q # Nobody
      BY <1>1, Fields DEF Clauses, Locked, Editing, Removing, ConstantsFit
    <2> QED
      BY <1>1, <2>1 DEF Locked, Effects
  <1>3. Found(q)'
    <2>1. At(q, "write") => request[q].server \in Names /\ lock[request[q].server] = q
      BY <1>1, Fields DEF Clauses, Locked, Editing, At
    <2> QED
      BY <1>1, <2>1 DEF Found, Clauses, At, Effects
  <1>4. Chosen(q)'
    BY <1>1 DEF Clauses, Chosen, Suits
  <1>5. Making(q)'
    <2>1. request[q].at \in {"columns", "save"} => request[q].db \in Documents
      BY <1>1, Fields DEF Saving
    <2> QED
      BY <1>1, <2>1, MappedStays DEF Clauses, Making, At
  <1> QED
    BY <1>2, <1>3, <1>4, <1>5 DEF Clauses

\* So a step keeps IInv when it has these effects and the request that took it
\* is as it should be.
LEMMA Kept ==
  ASSUME ConstantsFit, IInv, NEW p \in Processes, Effects(p), Alone(p), Clauses(p)'
  PROVE  IInv'
  <1>1. Typed'
    BY DEF Typed, Effects, Alone
  <1>2. \A q \in Processes : Clauses(q)'
    BY OthersStep
  <1>3. Stay'
    <2> SUFFICES ASSUME NEW t \in Tables, t \in DOMAIN Given PROVE tables'[t] = Given[t]
      BY DEF Stay
    <2> QED
      BY DEF IInv, Stay, Known, Effects, ConstantsFit
  <1>4. MappingFits'
    <2> SUFFICES ASSUME NEW j \in Jobs, NEW db, db = jobs'[j], db # Nothing PROVE Mapped(db)'
      BY DEF MappingFits, Mapped
    <2>1. db \in Documents
      BY DEF Effects
    <2>2. Mapped(db)
      BY DEF Effects, IInv, MappingFits, Mapped
    <2> QED
      BY <2>1, <2>2, MappedStays
  <1>5. ProfileFits'
    <2> SUFFICES ASSUME NEW s \in Names, servers'[s] # Nothing PROVE Suits(servers'[s])
      BY DEF ProfileFits, Suits, Registered
    <2> QED
      BY DEF Effects, IInv, ProfileFits, Suits, Registered
  <1> QED
    BY <1>1, <1>2, <1>3, <1>4, <1>5 DEF IInv

-----------------------------------------------------------------------------
(* The actions                                                             *)

\* A step that only moves its request has no other effect.
LEMMA NoEffect ==
  ASSUME Typed, NEW p \in Processes, UNCHANGED <<servers, default, tables, jobs, lock>>
  PROVE  Effects(p)
  BY DEF Typed, Effects, Registered

\* A request begins.
LEMMA OpeningStep ==
  ASSUME ConstantsFit, IInv, NEW p \in Processes, Opening(p)
  PROVE  IInv'
  <1>1. PICK r \in Requests :
          /\ request' = [request EXCEPT ![p] = r]
          /\ r.at \in {"create", "update", "remove", "list", "settings", "look"}
          /\ r.at = "create" => r.new
          /\ r.at \in {"create", "update"} => Suits(r.profile)
    BY Opens
  <1>2. request'[p] = r /\ Alone(p)
    BY <1>1 DEF IInv, Typed, Alone
  <1>3. Clauses(p)'
    BY <1>1, <1>2 DEF Clauses, Locked, Found, Chosen, Making, Suits, At
  <1>4. Effects(p)
    BY Opens, NoEffect DEF IInv
  <1> QED
    BY <1>2, <1>3, <1>4, Kept

\* A create and an update look under the lock, a removal asks for the Jobs
\* of the server there.
LEMMA LockedStep ==
  ASSUME ConstantsFit, IInv, NEW p \in Processes, CreateLocked(p) \/ UpdateLocked(p) \/ RemoveLocked(p)
  PROVE  IInv'
  <1> DEFINE s == request[p].server
  <1>1. /\ request[p].at \in {"create", "update", "remove"} /\ Acquires(p, s)
        /\ UNCHANGED <<servers, default, tables, jobs>>
    BY DEF CreateLocked, UpdateLocked, RemoveLocked, At
  <1>2. Typed /\ Clauses(p) /\ s \in Names
    BY <1>1, Fields DEF IInv, Editing, Removing
  <1>3. Effects(p) /\ lock'[s] = p
    BY <1>1, <1>2 DEF Typed, Effects, Acquires, Registered
  <1>4. CASE CreateLocked(p) \/ UpdateLocked(p)
    <2>1. PICK place \in {"write", "release"} :
            /\ Goes(p, place)
            /\ place = "write" /\ UpdateLocked(p) => Registered(s)
      BY <1>4 DEF CreateLocked, UpdateLocked
    <2>2. request[p] \in Editing /\ request[p].at \in {"create", "update"}
      BY <1>2, <1>4, Fields DEF CreateLocked, UpdateLocked, At
    <2>3. /\ Alone(p) /\ request'[p].at = place /\ request'[p].server = s
          /\ request'[p].new = request[p].new /\ request'[p].profile = request[p].profile
      BY <1>2, <2>1, <2>2, Going
    <2>4. Clauses(p)'
      BY <1>1, <1>2, <1>3, <1>4, <2>1, <2>2, <2>3
         DEF Clauses, Locked, Found, Chosen, Making, Suits, At, Registered, CreateLocked
    <2> QED
      BY <1>3, <2>3, <2>4, Kept
  <1>5. CASE RemoveLocked(p)
    <2>1. PICK place \in {"unlink", "release"} : Goes(p, place)
      BY <1>5 DEF RemoveLocked
    <2>2. request[p] \in Removing
      BY <1>2, <1>5, Fields DEF RemoveLocked, At
    <2>3. Alone(p) /\ request'[p].at = place /\ request'[p].server = s
      BY <1>2, <2>1, <2>2, Going
    <2>4. Clauses(p)'
      BY <1>3, <2>1, <2>3 DEF Clauses, Locked, Found, Chosen, Making, At
    <2> QED
      BY <1>3, <2>3, <2>4, Kept
  <1> QED
    BY <1>4, <1>5

\* The server is written, and the lock given back in the next step.
LEMMA WriteStep ==
  ASSUME ConstantsFit, IInv, NEW p \in Processes, WriteServer(p)
  PROVE  IInv'
  <1>1. /\ At(p, "write") /\ Goes(p, "release")
        /\ servers' = [servers EXCEPT ![request[p].server] = request[p].profile]
        /\ UNCHANGED <<default, tables, jobs, lock>>
    BY DEF WriteServer
  <1>2. Typed /\ Clauses(p) /\ request[p] \in Editing
    BY <1>1, Fields DEF IInv, At
  <1>3. /\ Alone(p) /\ request'[p].at = "release" /\ request'[p].server = request[p].server
    BY <1>1, <1>2, Going
  <1>4. Clauses(p)'
    BY <1>1, <1>2, <1>3 DEF Clauses, Locked, Found, Chosen, Making, At
  <1>5. /\ request[p].profile \in Profiles /\ Suits(request[p].profile)
        /\ request[p].profile # Nothing /\ request[p].server \in Names
    <2>1. request[p].profile \in Profiles /\ request[p].server \in Names
      BY <1>2 DEF Editing
    <2>2. Nothing \notin Profiles
      BY DEF Nothing, Profiles
    <2> QED
      BY <1>1, <1>2, <2>1, <2>2 DEF Clauses, Chosen, At
  <1>6. Effects(p)
    BY <1>1, <1>2, <1>5 DEF Typed, Effects, Registered
  <1> QED
    BY <1>3, <1>4, <1>6, Kept

\* The server is removed under its lock.
LEMMA UnlinkStep ==
  ASSUME ConstantsFit, IInv, NEW p \in Processes, Unlink(p)
  PROVE  IInv'
  <1>1. /\ At(p, "unlink") /\ Goes(p, "release")
        /\ servers' = [servers EXCEPT ![request[p].server] = Nothing]
        /\ UNCHANGED <<default, tables, jobs, lock>>
    BY DEF Unlink
  <1>2. Typed /\ Clauses(p) /\ request[p] \in Removing
    BY <1>1, Fields DEF IInv, At
  <1>3. Alone(p) /\ request'[p].at = "release" /\ request'[p].server = request[p].server
    BY <1>1, <1>2, Going
  <1>4. Clauses(p)'
    BY <1>1, <1>2, <1>3 DEF Clauses, Locked, Found, Chosen, Making, At
  <1>5. lock[request[p].server] = p /\ request[p].server \in Names
    BY <1>1, <1>2 DEF Clauses, Locked, At, Removing
  <1>6. Effects(p)
    BY <1>1, <1>2, <1>5 DEF Typed, Effects, Registered
  <1> QED
    BY <1>3, <1>4, <1>6, Kept

\* The lock is given back.
LEMMA ReleaseStep ==
  ASSUME ConstantsFit, IInv, NEW p \in Processes, Release(p)
  PROVE  IInv'
  <1>1. /\ At(p, "release") /\ Releases(request[p].server) /\ Ends(p)
        /\ UNCHANGED <<servers, default, tables, jobs>>
    BY DEF Release
  <1>2. Typed /\ Clauses(p)
    BY DEF IInv
  <1>3. lock[request[p].server] = p
    BY <1>1, <1>2 DEF Clauses, Locked, At
  <1>4. Effects(p)
    BY <1>1, <1>2, <1>3 DEF Typed, Effects, Registered, Releases
  <1> QED
    BY <1>1, <1>2, <1>4, Ending, Kept

\* A held lock refuses the request.
LEMMA RefusedStep ==
  ASSUME ConstantsFit, IInv, NEW p \in Processes, Refused(p, request[p].server)
  PROVE  IInv'
  BY Ending, NoEffect, Kept DEF IInv, Refused

\* A listing restores localhost.
LEMMA ListStep ==
  ASSUME ConstantsFit, IInv, NEW p \in Processes, ListServers(p)
  PROVE  IInv'
  <1> DEFINE restored == Profile("DEFAULT_DBUS", "VALUE", "")
  <1>1. /\ At(p, "list")
        /\ \/ servers' = servers
           \/ servers' = [servers EXCEPT ![Local] = restored]
        /\ Goes(p, "settings") \/ Ends(p)
        /\ UNCHANGED <<default, tables, jobs, lock>>
    <2>1. servers' = [servers EXCEPT ![Local] = IF servers[Local] = Nothing THEN restored ELSE servers[Local]]
      BY DEF ListServers
    <2> QED
      BY <2>1 DEF ListServers, IInv, Typed
  <1>2. Typed /\ request[p] \in Setting
    BY <1>1, Fields DEF IInv, At
  <1>3. Alone(p) /\ Clauses(p)'
    <2>1. CASE Goes(p, "settings")
      BY <1>2, <2>1, Going DEF Clauses, Locked, Found, Chosen, Making, At
    <2> QED
      BY <1>1, <1>2, <2>1, Ending
  <1>4. restored \in Profiles /\ restored # Nothing /\ Suits(restored)
    BY DEF Profile, Profiles, Values, Strings, Nothing, Suits, ConstantsFit
  <1> HIDE DEF restored
  <1>5. Effects(p)
    BY <1>1, <1>2, <1>4 DEF Typed, Effects, Registered
  <1> QED
    BY <1>3, <1>5, Kept

\* The settings are written back with the default that was read or asked for.
LEMMA SettingsStep ==
  ASSUME ConstantsFit, IInv, NEW p \in Processes, WriteSettings(p)
  PROVE  IInv'
  <1>1. /\ At(p, "settings") /\ default' = request[p].server /\ Ends(p)
        /\ UNCHANGED <<servers, tables, jobs, lock>>
    BY DEF WriteSettings
  <1>2. Typed /\ request[p].server \in Names
    BY <1>1, Fields DEF IInv, At, Setting
  <1>3. Effects(p)
    BY <1>1, <1>2 DEF Typed, Effects, Registered
  <1> QED
    BY <1>1, <1>2, <1>3, Ending, Kept

\* The save of a Job goes on with the document as it is.
LEMMA SaveGoes ==
  ASSUME NEW p \in Processes, Typed, Clauses(p), NEW place \in {"again", "columns", "save"}, Goes(p, place),
         NEW db, request[p] \in Saving, request[p].db = db,
         place \in {"columns", "save"} => Mapped(db)',
         place = "columns" => db.table \notin DOMAIN Given
  PROVE  Alone(p) /\ Clauses(p)'
  <1>1. Alone(p) /\ request'[p].at = place /\ request'[p].db = db
    BY Going
  <1> QED
    BY <1>1 DEF Clauses, Locked, Found, Chosen, Making, Mapped, At

\* The mapping that a save has looked up fits, whatever its Tags need.
LEMMA FitsMapped ==
  ASSUME NEW r, Fits(r)
  PROVE  Mapped(r.db)
  BY DEF Fits, Mapped, validatedExistingMapping

\* The save looks the table up: a missing one will be made with the columns
\* that the Job is to name.
LEMMA LookStep ==
  ASSUME ConstantsFit, IInv, NEW p \in Processes, Look(p)
  PROVE  IInv'
  <1> DEFINE r == request[p]
             made == Database(r.server, r.db.table, "VALUE", IF r.needs THEN "STR_VALUE" ELSE "")
  <1>1. At(p, "look") /\ UNCHANGED <<servers, default, tables, jobs, lock>>
    BY DEF Look
  <1>2. Typed /\ Clauses(p) /\ r \in Saving
    BY <1>1, Fields DEF IInv, At
  <1>3. Effects(p)
    BY <1>1, <1>2, NoEffect
  <1>4. CASE request' = [request EXCEPT ![p].at = "make", ![p].db = made]
    <2>1. made \in Documents /\ made.value = "VALUE"
      BY <1>2 DEF Saving, Documents, Database, Values, Strings
    <2> HIDE DEF made
    <2> DEFINE next == [r EXCEPT !.at = "make", !.db = made]
    <2>2. next \in Saving /\ next.at = "make" /\ next.db = made
      BY <1>2, <2>1 DEF Saving
    <2>3. request' = [request EXCEPT ![p] = next]
      BY <1>4
    <2> HIDE DEF next
    <2>4. request'[p] = next /\ Alone(p)
      BY <1>2, <2>2, <2>3 DEF Typed, Alone, Requests
    <2>5. Clauses(p)'
      BY <2>1, <2>2, <2>4 DEF Clauses, Locked, Found, Chosen, Making, At
    <2> QED
      BY <1>3, <2>4, <2>5, Kept
  <1>5. CASE Fits(r) /\ Goes(p, "save")
    <2>1. PICK db : db = r.db
      OBVIOUS
    <2>2. Mapped(db)'
      BY <1>2, <1>3, <1>5, <2>1, FitsMapped, MappedStays DEF Saving
    <2>3. Alone(p) /\ Clauses(p)'
      BY <1>2, <1>5, <2>1, <2>2, SaveGoes
    <2> QED
      BY <1>3, <2>3, Kept
  <1>6. CASE Ends(p)
    BY <1>2, <1>3, <1>6, Ending, Kept
  <1> QED
    BY <1>4, <1>5, <1>6 DEF Look

\* The table is made with the columns that the Job names.
LEMMA MakeStep ==
  ASSUME ConstantsFit, IInv, NEW p \in Processes, MakeTable(p)
  PROVE  IInv'
  <1>0. PICK db : db = request[p].db
    OBVIOUS
  <1>1. /\ At(p, "make") /\ ~Known(db.table)
        /\ tables' = [tables EXCEPT ![db.table] = Made(db.string)]
        /\ UNCHANGED <<servers, default, jobs, lock>>
    BY <1>0 DEF MakeTable
  <1>2. PICK place \in {"columns", "save"} : Goes(p, place)
    BY DEF MakeTable
  <1>3. Typed /\ Clauses(p) /\ Stay /\ request[p] \in Saving
    BY <1>1, Fields DEF IInv, At
  <1>4. db \in Documents /\ db.table \in Tables /\ db.string \in Strings /\ db.value = "VALUE"
    <2>1. db \in Documents
      BY <1>0, <1>3 DEF Saving
    <2> QED
      BY <1>0, <1>1, <1>3, <2>1 DEF Documents, Clauses, Making
  <1>5. Made(db.string) \in Layouts
    BY <1>4 DEF Layouts
  <1>6. Effects(p)
    BY <1>1, <1>3, <1>4, <1>5 DEF Typed, Effects, Known, Registered
  <1>7. Mapped(db)'
    <2>1. tables'[db.table] = Made(db.string)
      BY <1>1, <1>3, <1>4 DEF Typed
    <2>2. "VALUE" \in Made(db.string).numeric /\ (db.string # "" => db.string \in Made(db.string).strings)
      BY DEF Made
    <2> QED
      BY <1>4, <2>1, <2>2 DEF Mapped, validatedExistingMapping
  <1>8. db.table \notin DOMAIN Given
    BY <1>1, <1>3, <1>4 DEF Stay, Known, ConstantsFit
  <1>9. Alone(p) /\ Clauses(p)'
    BY <1>0, <1>2, <1>3, <1>7, <1>8, SaveGoes
  <1> QED
    BY <1>6, <1>9, Kept

\* The table cannot be made, perhaps because another has made it.
LEMMA MakeFailsStep ==
  ASSUME ConstantsFit, IInv, NEW p \in Processes, MakeFails(p)
  PROVE  IInv'
  <1>1. /\ At(p, "make") /\ (Ends(p) \/ Goes(p, "again"))
        /\ UNCHANGED <<servers, default, tables, jobs, lock>>
    BY DEF MakeFails
  <1>2. Typed /\ Clauses(p) /\ request[p] \in Saving
    BY <1>1, Fields DEF IInv, At
  <1>3. Alone(p) /\ Clauses(p)'
    BY <1>1, <1>2, SaveGoes, Ending
  <1> QED
    BY <1>1, <1>2, <1>3, NoEffect, Kept

\* The save looks at the table that another has made.
LEMMA LookAgainStep ==
  ASSUME ConstantsFit, IInv, NEW p \in Processes, LookAgain(p)
  PROVE  IInv'
  <1>1. /\ At(p, "again") /\ (Ends(p) \/ (Fits(request[p]) /\ Goes(p, "save")))
        /\ UNCHANGED <<servers, default, tables, jobs, lock>>
    BY DEF LookAgain
  <1>2. Typed /\ Clauses(p) /\ request[p] \in Saving
    BY <1>1, Fields DEF IInv, At
  <1>3. Effects(p)
    BY <1>1, <1>2, NoEffect
  <1>4. PICK db : db = request[p].db
    OBVIOUS
  <1>5. Fits(request[p]) => Mapped(db)'
    BY <1>2, <1>3, <1>4, FitsMapped, MappedStays DEF Saving
  <1>6. Alone(p) /\ Clauses(p)'
    BY <1>1, <1>2, <1>4, <1>5, SaveGoes, Ending
  <1> QED
    BY <1>3, <1>6, Kept

\* The profile whose default table was made is told its columns: that table was
\* not there before, and a server that is gone has no table.
LEMMA ColumnsStep ==
  ASSUME ConstantsFit, IInv, NEW p \in Processes, SetDefaultTableColumns(p)
  PROVE  IInv'
  <1> DEFINE r == request[p]
             old == servers[r.server]
             told == Profile(old.table, r.db.value, r.db.string)
  <1>1. /\ At(p, "columns") /\ (Goes(p, "save") \/ Ends(p))
        /\ UNCHANGED <<default, tables, jobs, lock>>
        /\ servers' = [servers EXCEPT ![r.server] = IF old.table = r.db.table THEN told ELSE old]
    BY DEF SetDefaultTableColumns
  <1>2. Typed /\ Clauses(p) /\ r \in Saving
    BY <1>1, Fields DEF IInv, At
  <1>3. /\ r.server \in Names /\ r.db.table \in Tables /\ r.db.value \in Values
        /\ r.db.string \in Strings
    BY <1>2 DEF Saving, Documents
  <1>4. Mapped(r.db) /\ r.db.table \notin DOMAIN Given
    BY <1>1, <1>2 DEF Clauses, Making, At
  <1>5. old.table = r.db.table => /\ Registered(r.server) /\ told \in Profiles
                                  /\ told # Nothing /\ Suits(told)
    <2>1. old.table = r.db.table => Registered(r.server)
      BY <1>3 DEF Registered, ConstantsFit
    <2> QED
      BY <1>3, <1>4, <2>1 DEF Profile, Profiles, Nothing, Suits
  <1> HIDE DEF told
  <1>6. Effects(p)
    BY <1>1, <1>2, <1>3, <1>5 DEF Typed, Effects, Registered
  <1>7. PICK db : db = r.db
    OBVIOUS
  <1>8. Mapped(db)'
    BY <1>2, <1>4, <1>6, <1>7, MappedStays DEF Saving
  <1>9. Alone(p) /\ Clauses(p)'
    BY <1>1, <1>2, <1>7, <1>8, SaveGoes, Ending
  <1> QED
    BY <1>6, <1>9, Kept

\* The document is written.
LEMMA StoreStep ==
  ASSUME ConstantsFit, IInv, NEW p \in Processes, StoreJob(p)
  PROVE  IInv'
  <1>1. /\ At(p, "save") /\ Ends(p) /\ UNCHANGED <<servers, default, tables, lock>>
        /\ jobs' = [jobs EXCEPT ![request[p].job] = request[p].db]
    BY DEF StoreJob
  <1>2. Typed /\ Clauses(p) /\ request[p] \in Saving
    BY <1>1, Fields DEF IInv, At
  <1>3. request[p].db \in Documents /\ Mapped(request[p].db)
    BY <1>1, <1>2 DEF Saving, Clauses, Making, At
  <1>4. Effects(p)
    BY <1>1, <1>2, <1>3 DEF Typed, Effects, Registered
  <1> QED
    BY <1>1, <1>2, <1>4, Ending, Kept

\* A Job is deleted in one step.
LEMMA DeleteJobStep ==
  ASSUME ConstantsFit, IInv, NEW p \in Processes, DeleteJob(p)
  PROVE  IInv'
  <1>1. PICK j \in Jobs : /\ Ready(p) /\ request' = [request EXCEPT ![p] = Idle]
                          /\ jobs' = [jobs EXCEPT ![j] = Nothing]
                          /\ UNCHANGED <<servers, default, tables, lock>>
    BY DEF DeleteJob, Begins
  <1>2. Typed
    BY DEF IInv
  <1>3. Alone(p) /\ request'[p] = Idle
    BY <1>1, <1>2 DEF Typed, Alone, Requests
  <1>4. Clauses(p)'
    BY <1>3 DEF Clauses, Locked, Found, Chosen, Making, At, Idle
  <1>5. Effects(p)
    BY <1>1, <1>2 DEF Typed, Effects, Registered
  <1> QED
    BY <1>3, <1>4, <1>5, Kept

-----------------------------------------------------------------------------
(* The theorems                                                            *)

\* At first only localhost is there, of its own table.
LEMMA InvInit ==
  ASSUME ConstantsFit, Init
  PROVE  IInv
  <1>1. Typed
    <2>1. Profile("DEFAULT_DBUS", "VALUE", "") \in Profiles
      BY DEF Profile, Profiles, Values, Strings
    <2>2. \A t \in Tables : tables[t] \in Layouts
      BY DEF Init, Layouts
    <2> QED
      BY <2>1, <2>2 DEF Init, Typed, ConstantsFit, Requests
  <1>2. Stay /\ MappingFits
    BY DEF Init, Stay, MappingFits
  <1>3. ProfileFits
    BY DEF Init, ProfileFits, Registered, Profile, ConstantsFit
  <1>4. \A p \in Processes : Clauses(p)
    BY DEF Init, Clauses, Locked, Found, Chosen, Making, At, Idle
  <1> QED
    BY <1>1, <1>2, <1>3, <1>4 DEF IInv

\* Every step keeps the invariant.
LEMMA InvStep ==
  ASSUME ConstantsFit, IInv, [Next]_vars
  PROVE  IInv'
  <1>1. CASE UNCHANGED vars
    BY <1>1 DEF vars, IInv, Typed, Stay, MappingFits, ProfileFits, Registered, Clauses, Locked, Found,
                Chosen, Making, Mapped, At, validatedExistingMapping
  <1>2. ASSUME NEW p \in Processes,
               \/ Opening(p) \/ CreateLocked(p) \/ UpdateLocked(p) \/ RemoveLocked(p)
               \/ WriteServer(p) \/ Unlink(p) \/ Release(p) \/ Refused(p, request[p].server)
               \/ ListServers(p) \/ WriteSettings(p) \/ Look(p) \/ MakeTable(p) \/ MakeFails(p)
               \/ LookAgain(p) \/ SetDefaultTableColumns(p) \/ StoreJob(p) \/ DeleteJob(p)
        PROVE  IInv'
    BY <1>2, OpeningStep, LockedStep, WriteStep, UnlinkStep, ReleaseStep, RefusedStep, ListStep,
       SettingsStep, LookStep, MakeStep, MakeFailsStep, LookAgainStep, ColumnsStep, StoreStep,
       DeleteJobStep
  <1> QED
    BY <1>1, <1>2 DEF Next, Opening

(***************************************************************************)
(* The inductive invariant holds in every reachable state.                 *)
(***************************************************************************)
THEOREM Inductive == ConstantsFit /\ Spec => []IInv
  <1>1. ConstantsFit /\ Init => ConstantsFit /\ IInv
    BY InvInit
  <1>2. ConstantsFit /\ IInv /\ [Next]_vars => ConstantsFit' /\ IInv'
    BY InvStep
  <1> QED
    BY <1>1, <1>2, PTL DEF Spec

(***************************************************************************)
(* What a saved Job writes into is there, with the columns its document    *)
(* names, however many requests looked up and made the table at once.      *)
(***************************************************************************)
THEOREM SavedJobsFit == ConstantsFit /\ Spec => []MappingFits
  <1>1. IInv => MappingFits
    BY DEF IInv
  <1> QED
    BY <1>1, Inductive, PTL

(***************************************************************************)
(* A profile of a table that was there keeps columns of that table.        *)
(***************************************************************************)
THEOREM ProfilesFit == ConstantsFit /\ Spec => []ProfileFits
  <1>1. IInv => ProfileFits
    BY DEF IInv
  <1> QED
    BY <1>1, Inductive, PTL

(***************************************************************************)
(* A removed server comes back by a create only: an update has found it    *)
(* under the lock that a removal needs, and a Job's new table is told only *)
(* to a profile of that table.                                             *)
(***************************************************************************)
THEOREM RemovedStays == ConstantsFit /\ Spec => NeverResurrected
  <1>1. ASSUME ConstantsFit, IInv, Next, NEW s \in Names \ {Local}, Registered(s)', ~Registered(s)
        PROVE  \E p \in Processes : At(p, "write") /\ request[p].server = s /\ request[p].new
    <2>1. Typed
      BY <1>1 DEF IInv
    <2>2. PICK p \in Processes : WriteServer(p) \/ Unlink(p) \/ ListServers(p) \/ SetDefaultTableColumns(p)
      <3> DEFINE Writes(p) == WriteServer(p) \/ Unlink(p) \/ ListServers(p) \/ SetDefaultTableColumns(p)
      <3> SUFFICES ASSUME NEW p \in Processes, servers' # servers, ~Writes(p),
                          \/ CreateServer(p) \/ CreateLocked(p) \/ UpdateServer(p) \/ UpdateLocked(p)
                          \/ Release(p) \/ DeleteServer(p) \/ RemoveLocked(p)
                          \/ Refused(p, request[p].server) \/ ReadSettings(p) \/ WriteSettings(p)
                          \/ SaveJob(p) \/ Look(p) \/ MakeTable(p) \/ MakeFails(p) \/ LookAgain(p)
                          \/ StoreJob(p) \/ DeleteJob(p)
                   PROVE  FALSE
        BY <1>1 DEF Next, Registered
      <3>1. ~(CreateServer(p) \/ UpdateServer(p) \/ DeleteServer(p) \/ ReadSettings(p) \/ SaveJob(p))
        BY DEF CreateServer, UpdateServer, DeleteServer, ReadSettings, SaveJob
      <3>2. ~(CreateLocked(p) \/ UpdateLocked(p) \/ RemoveLocked(p) \/ Release(p)
              \/ Refused(p, request[p].server) \/ WriteSettings(p))
        BY DEF CreateLocked, UpdateLocked, RemoveLocked, Release, Refused, WriteSettings
      <3>3. ~(Look(p) \/ MakeTable(p) \/ MakeFails(p) \/ LookAgain(p) \/ StoreJob(p) \/ DeleteJob(p))
        BY DEF Look, MakeTable, MakeFails, LookAgain, StoreJob, DeleteJob
      <3> QED
        BY <3>1, <3>2, <3>3
    <2>3. ~Unlink(p) /\ ~ListServers(p)
      BY <1>1, <2>1 DEF Unlink, ListServers, Registered, Typed
    <2>4. ~SetDefaultTableColumns(p)
      <3> SUFFICES ASSUME SetDefaultTableColumns(p) PROVE FALSE
        OBVIOUS
      <3>1. request[p] \in Saving
        BY <2>1, Fields DEF SetDefaultTableColumns, At
      <3>2. request[p].db.table \in Tables /\ request[p].server = s
        <4>1. request[p].db.table \in Tables
          BY <3>1 DEF Saving, Documents
        <4>2. request[p].server = s
          BY <1>1, <2>1 DEF SetDefaultTableColumns, Registered, Typed
        <4> QED
          BY <4>1, <4>2
      <3>3. servers[s].table # request[p].db.table
        BY <1>1, <3>2 DEF Registered, ConstantsFit
      <3>4. servers'[s] = servers[s]
        BY <2>1, <3>2, <3>3 DEF SetDefaultTableColumns, Typed
      <3> QED
        BY <1>1, <3>4 DEF Registered
    <2>5. At(p, "write") /\ request[p].server = s
      BY <1>1, <2>1, <2>2, <2>3, <2>4 DEF WriteServer, Registered, Typed
    <2>6. request[p].new
      <3>1. request[p] \in Editing
        BY <2>1, <2>5, Fields DEF At
      <3> QED
        BY <1>1, <2>5, <3>1 DEF IInv, Clauses, Found, Editing
    <2> QED
      BY <2>5, <2>6
  <1>2. ConstantsFit /\ IInv /\ [Next]_vars => ConstantsFit' /\ [NotResurrected]_vars
    BY <1>1 DEF NotResurrected
  <1> QED
    BY <1>2, Inductive, PTL DEF Spec, NeverResurrected

-----------------------------------------------------------------------------
(***************************************************************************)
(* Profiles, for any processes, Profiles, Methods, Jobs and versions: what *)
(* Job documents name stays, two requests do not undo one another, and the *)
(* versions are in an order an upgrade goes up in.                         *)
(***************************************************************************)
CONSTANTS Ids, Methods, Versions
VARIABLES product, profiles, docs, running, fence, jobLock, req, runtime, made
PR == INSTANCE Profiles

\* Whatever is not empty has a first place.
LEMMA FirstPlace ==
  ASSUME NEW S \in SUBSET Nat, S # {}
  PROVE  \E i \in S : \A k \in S : i <= k
  <1>1. \E i \in S : \A k \in S : <<k, i>> \notin OpToRel(<, Nat)
    BY NatLessThanWellFounded, WFMin
  <1>2. ASSUME NEW i \in Nat, NEW k \in Nat, k < i  PROVE <<k, i>> \in OpToRel(<, Nat)
    BY <1>2 DEF OpToRel
  <1>3. \A i, k \in Nat : k < i \/ i <= k
    OBVIOUS
  <1>4. QED
    BY <1>1, <1>2, <1>3

\* Where two sequences differ first.
LEMMA DifferFirst ==
  ASSUME NEW a, NEW b, DOMAIN a \subseteq Nat \ {0}, DOMAIN b \subseteq Nat \ {0}
  PROVE  \/ PR!Differ(a, b) = 0 /\ \A i \in DOMAIN a \cap DOMAIN b : a[i] = b[i]
         \/ /\ PR!Differ(a, b) \in DOMAIN a \cap DOMAIN b /\ a[PR!Differ(a, b)] # b[PR!Differ(a, b)]
            /\ \A i \in DOMAIN a \cap DOMAIN b : i < PR!Differ(a, b) => a[i] = b[i]
  <1>1. PICK d : d = {i \in DOMAIN a \cap DOMAIN b : a[i] # b[i]}
    OBVIOUS
  <1>2. PR!Differ(a, b) = IF d = {} THEN 0 ELSE CHOOSE i \in d : \A j \in d : i <= j
    BY <1>1 DEF PR!Differ
  <1>3. CASE d = {}
    BY <1>1, <1>2, <1>3
  <1>4. CASE d # {}
    <2>1. d \in SUBSET Nat
      BY <1>1
    <2>2. \E i \in d : \A j \in d : i <= j
      BY <1>4, <2>1, FirstPlace
    <2>3. PR!Differ(a, b) \in d /\ \A j \in d : PR!Differ(a, b) <= j
      BY <1>2, <1>4, <2>2
    <2>4. ASSUME NEW i \in DOMAIN a \cap DOMAIN b, i < PR!Differ(a, b) PROVE a[i] = b[i]
      <3>1. i \in Nat /\ PR!Differ(a, b) \in Nat
        BY <2>1, <2>3
      <3>2. i \notin d
        BY <2>3, <2>4, <3>1
      <3>3. QED
        BY <1>1, <3>2
    <2>5. QED
      BY <1>1, <2>3, <2>4
  <1>5. QED
    BY <1>3, <1>4

LEMMA DifferIs ==
  ASSUME NEW a, NEW b, DOMAIN a \subseteq Nat \ {0}, DOMAIN b \subseteq Nat \ {0}
  PROVE  /\ (\A i \in DOMAIN a \cap DOMAIN b : a[i] = b[i]) => PR!Differ(a, b) = 0
         /\ \A n \in DOMAIN a \cap DOMAIN b :
              a[n] # b[n] /\ (\A i \in DOMAIN a \cap DOMAIN b : i < n => a[i] = b[i])
                => PR!Differ(a, b) = n
  <1>1. \A i, n \in Nat : i < n \/ n < i \/ i = n
    OBVIOUS
  <1>2. ASSUME \A i \in DOMAIN a \cap DOMAIN b : a[i] = b[i] PROVE PR!Differ(a, b) = 0
    BY <1>2, DifferFirst
  <1>3. ASSUME NEW n \in DOMAIN a \cap DOMAIN b, a[n] # b[n],
               \A i \in DOMAIN a \cap DOMAIN b : i < n => a[i] = b[i]
        PROVE  PR!Differ(a, b) = n
    <2>1. /\ PR!Differ(a, b) \in DOMAIN a \cap DOMAIN b /\ a[PR!Differ(a, b)] # b[PR!Differ(a, b)]
          /\ \A i \in DOMAIN a \cap DOMAIN b : i < PR!Differ(a, b) => a[i] = b[i]
      BY <1>3, DifferFirst
    <2>2. n \in Nat /\ PR!Differ(a, b) \in Nat
      BY <2>1
    <2>3. QED
      BY <1>1, <1>3, <2>1, <2>2
  <1>4. QED
    BY <1>2, <1>3

\* The first place where a differs from c, b being between them.
LEMMA DifferThrough ==
  ASSUME NEW a, NEW b, NEW c, DOMAIN a \subseteq Nat \ {0}, DOMAIN b \subseteq Nat \ {0},
         DOMAIN c \subseteq Nat \ {0},
         NEW p, p = PR!Differ(a, b), NEW q, q = PR!Differ(b, c),
         \A i \in DOMAIN b, k \in Nat \ {0} : k < i => k \in DOMAIN b
  PROVE  /\ p # 0 /\ (q = 0 \/ p < q) /\ p \in DOMAIN c => PR!Differ(a, c) = p /\ b[p] = c[p]
         /\ q # 0 /\ (p = 0 \/ q < p) /\ q \in DOMAIN a => PR!Differ(a, c) = q /\ a[q] = b[q]
         /\ p # 0 /\ q = p /\ a[p] # c[p] => PR!Differ(a, c) = p
  <1>1. \/ p = 0 /\ \A i \in DOMAIN a \cap DOMAIN b : a[i] = b[i]
        \/ /\ p \in DOMAIN a \cap DOMAIN b /\ a[p] # b[p]
           /\ \A i \in DOMAIN a \cap DOMAIN b : i < p => a[i] = b[i]
    BY DifferFirst
  <1>2. \/ q = 0 /\ \A i \in DOMAIN b \cap DOMAIN c : b[i] = c[i]
        \/ /\ q \in DOMAIN b \cap DOMAIN c /\ b[q] # c[q]
           /\ \A i \in DOMAIN b \cap DOMAIN c : i < q => b[i] = c[i]
    BY DifferFirst
  <1>3. ASSUME p # 0, q = 0 \/ p < q, p \in DOMAIN c
        PROVE  PR!Differ(a, c) = p /\ b[p] = c[p]
    <2>1. p \in DOMAIN a /\ p \in DOMAIN b /\ p \in Nat
      BY <1>1, <1>3
    <2>2. b[p] = c[p]
      BY <1>2, <1>3, <2>1
    <2>3. ASSUME NEW i \in DOMAIN a \cap DOMAIN c, i < p PROVE a[i] = c[i]
      <3>1. i \in DOMAIN b /\ i \in Nat
        BY <2>1, <2>3
      <3>2. b[i] = c[i]
        <4>1. q = 0 \/ i < q
          <5>1. CASE q = 0
            BY <5>1
          <5>2. CASE q # 0
            BY <1>2, <1>3, <2>1, <2>3, <3>1, <5>2
          <5>3. QED
            BY <5>1, <5>2
        <4>2. QED
          BY <1>2, <2>3, <3>1, <4>1
      <3>3. QED
        BY <1>1, <1>3, <2>3, <3>1, <3>2
    <2>4. a[p] # c[p]
      BY <1>1, <1>3, <2>2
    <2>5. QED
      BY <1>3, <2>1, <2>2, <2>3, <2>4, DifferIs
  <1>4. ASSUME q # 0, p = 0 \/ q < p, q \in DOMAIN a
        PROVE  PR!Differ(a, c) = q /\ a[q] = b[q]
    <2>1. q \in DOMAIN c /\ q \in DOMAIN b /\ q \in Nat
      BY <1>2, <1>4
    <2>2. a[q] = b[q]
      BY <1>1, <1>4, <2>1
    <2>3. ASSUME NEW i \in DOMAIN a \cap DOMAIN c, i < q PROVE a[i] = c[i]
      <3>1. i \in DOMAIN b /\ i \in Nat
        BY <2>1, <2>3
      <3>2. a[i] = b[i]
        <4>1. p = 0 \/ i < p
          <5>1. CASE p = 0
            BY <5>1
          <5>2. CASE p # 0
            BY <1>1, <1>4, <2>1, <2>3, <3>1, <5>2
          <5>3. QED
            BY <5>1, <5>2
        <4>2. QED
          BY <1>1, <2>3, <3>1, <4>1
      <3>3. QED
        BY <1>2, <1>4, <2>3, <3>1, <3>2
    <2>4. a[q] # c[q]
      BY <1>2, <1>4, <2>2
    <2>5. QED
      BY <1>4, <2>1, <2>2, <2>3, <2>4, DifferIs
  <1>5. ASSUME p # 0, q = p, a[p] # c[p] PROVE PR!Differ(a, c) = p
    <2>1. p \in DOMAIN a /\ p \in DOMAIN b /\ p \in DOMAIN c /\ p \in Nat
      BY <1>1, <1>2, <1>5
    <2>2. ASSUME NEW i \in DOMAIN a \cap DOMAIN c, i < p PROVE a[i] = c[i]
      <3>1. i \in DOMAIN b /\ i \in Nat
        BY <2>1, <2>2
      <3>2. QED
        BY <1>1, <1>2, <1>5, <2>2, <3>1
    <2>3. QED
      BY <1>5, <2>1, <2>2, DifferIs
  <1>6. QED
    BY <1>3, <1>4, <1>5

\* Identifiers, and the numbers of a core, are in a linear order.
LEMMA SignOrders ==
  ASSUME NEW x \in Nat, NEW y \in Nat
  PROVE  /\ PR!Sign(x, y) \in {-1, 0, 1}
         /\ (PR!Sign(x, y) = 0 <=> x = y) /\ (PR!Sign(x, y) < 0 <=> x < y) /\ (PR!Sign(x, y) <= 0 <=> x <= y)
  BY DEF PR!Sign

LEMMA IdentifiersOrdered ==
  ASSUME NEW x \in PR!Identifiers, NEW y \in PR!Identifiers, NEW z \in PR!Identifiers
  PROVE  /\ PR!CompareIdentifier(x, y) \in {-1, 0, 1}
         /\ PR!CompareIdentifier(x, y) = 0 <=> x = y
         /\ PR!CompareIdentifier(x, y) < 0 /\ PR!CompareIdentifier(y, z) < 0 => PR!CompareIdentifier(x, z) < 0
  BY DEF PR!Identifiers, PR!CompareIdentifier, PR!Sign

\* The order of cores, which Compare looks at first.
CoreSign(a, b) == IF PR!Differ(a.core, b.core) = 0 THEN 0
                  ELSE PR!Sign(a.core[PR!Differ(a.core, b.core)], b.core[PR!Differ(a.core, b.core)])

LEMMA CoreOrder ==
  ASSUME NEW a \in PR!SemVers, NEW b \in PR!SemVers
  PROVE  /\ CoreSign(a, b) \in {-1, 0, 1}
         /\ CoreSign(a, b) = 0 <=> a.core = b.core
         /\ PR!Differ(a.core, b.core) = 0 <=> a.core = b.core
         /\ CoreSign(a, b) # 0 => PR!Compare(a, b) = CoreSign(a, b)
  <1>1. a.core \in [1..3 -> Nat] /\ b.core \in [1..3 -> Nat]
    BY DEF PR!SemVers
  <1>2. PICK d : d = PR!Differ(a.core, b.core)
    OBVIOUS
  <1>3. \/ d = 0 /\ \A i \in 1..3 : a.core[i] = b.core[i]
        \/ d \in 1..3 /\ a.core[d] # b.core[d]
    <2>1. DOMAIN a.core = 1..3 /\ DOMAIN b.core = 1..3 /\ 1..3 \subseteq Nat \ {0}
      BY <1>1
    <2>2. QED
      BY <1>2, <2>1, DifferFirst
  <1>4. d = 0 <=> a.core = b.core
    BY <1>1, <1>3
  <1>5. ASSUME d # 0 PROVE PR!Sign(a.core[d], b.core[d]) \in {-1, 1}
    <2>1. a.core[d] \in Nat /\ b.core[d] \in Nat /\ a.core[d] # b.core[d]
      BY <1>1, <1>3, <1>5
    <2>2. QED
      BY <2>1, SignOrders
  <1>6. CoreSign(a, b) = IF d = 0 THEN 0 ELSE PR!Sign(a.core[d], b.core[d])
    BY <1>2 DEF CoreSign
  <1>7. d # 0 => PR!Compare(a, b) = PR!Sign(a.core[d], b.core[d])
    BY <1>2 DEF PR!Compare
  <1>8. QED
    BY <1>2, <1>4, <1>5, <1>6, <1>7

LEMMA CoreThrough ==
  ASSUME NEW a \in PR!SemVers, NEW b \in PR!SemVers, NEW c \in PR!SemVers,
         CoreSign(a, b) <= 0, CoreSign(b, c) <= 0, CoreSign(a, b) # 0 \/ CoreSign(b, c) # 0
  PROVE  CoreSign(a, c) = -1
  <1>1. a.core \in [1..3 -> Nat] /\ b.core \in [1..3 -> Nat] /\ c.core \in [1..3 -> Nat]
    BY DEF PR!SemVers
  <1>2. PICK p, q, r : p = PR!Differ(a.core, b.core) /\ q = PR!Differ(b.core, c.core) /\ r = PR!Differ(a.core, c.core)
    OBVIOUS
  <1>3. DOMAIN a.core = 1..3 /\ DOMAIN b.core = 1..3 /\ DOMAIN c.core = 1..3 /\ 1..3 \subseteq Nat \ {0}
        /\ \A i \in 1..3, k \in Nat \ {0} : k < i => k \in 1..3
    BY <1>1
  <1>4. p \in {0} \cup 1..3 /\ q \in {0} \cup 1..3
    BY <1>2, <1>3, DifferFirst
  <1>5. /\ p # 0 /\ (q = 0 \/ p < q) => r = p /\ b.core[p] = c.core[p]
        /\ q # 0 /\ (p = 0 \/ q < p) => r = q /\ a.core[q] = b.core[q]
        /\ p # 0 /\ q = p /\ a.core[p] # c.core[p] => r = p
    <2>1. /\ p # 0 /\ (q = 0 \/ p < q) /\ p \in DOMAIN c.core => r = p /\ b.core[p] = c.core[p]
          /\ q # 0 /\ (p = 0 \/ q < p) /\ q \in DOMAIN a.core => r = q /\ a.core[q] = b.core[q]
          /\ p # 0 /\ q = p /\ a.core[p] # c.core[p] => r = p
      BY <1>2, <1>3, DifferThrough
    <2>2. QED
      BY <1>3, <1>4, <2>1
  <1>6. ASSUME p # 0 PROVE a.core[p] < b.core[p]
    <2>1. CoreSign(a, b) = PR!Sign(a.core[p], b.core[p]) /\ CoreSign(a, b) # 0
      BY <1>2, <1>6, CoreOrder DEF CoreSign
    <2>2. a.core[p] \in Nat /\ b.core[p] \in Nat
      BY <1>1, <1>4, <1>6
    <2>3. QED
      BY <2>1, <2>2, SignOrders
  <1>7. ASSUME q # 0 PROVE b.core[q] < c.core[q]
    <2>1. CoreSign(b, c) = PR!Sign(b.core[q], c.core[q]) /\ CoreSign(b, c) # 0
      BY <1>2, <1>7, CoreOrder DEF CoreSign
    <2>2. b.core[q] \in Nat /\ c.core[q] \in Nat
      BY <1>1, <1>4, <1>7
    <2>3. QED
      BY <2>1, <2>2, SignOrders
  <1>8. p # 0 \/ q # 0
    BY <1>2 DEF CoreSign
  <1>9. r # 0 /\ r \in 1..3 /\ a.core[r] < c.core[r]
    <2>1. \A i \in 1..3 : a.core[i] \in Nat /\ b.core[i] \in Nat /\ c.core[i] \in Nat
      BY <1>1
    <2>2. CASE p # 0 /\ (q = 0 \/ p < q)
      BY <1>4, <1>5, <1>6, <2>2
    <2>3. CASE q # 0 /\ (p = 0 \/ q < p)
      BY <1>4, <1>5, <1>7, <2>3
    <2>4. CASE p # 0 /\ q = p
      BY <1>4, <1>5, <1>6, <1>7, <2>1, <2>4
    <2>5. QED
      BY <1>4, <1>8, <2>2, <2>3, <2>4
  <1>10. a.core[r] \in Nat /\ c.core[r] \in Nat /\ CoreSign(a, c) = PR!Sign(a.core[r], c.core[r])
    BY <1>1, <1>2, <1>9 DEF CoreSign
  <1>11. QED
    BY <1>9, <1>10 DEF PR!Sign

\* The order of pre-releases, which Compare looks at where the cores agree.
PreSign(x, y) == IF x = << >> \/ y = << >> THEN PR!Sign(Len(y), Len(x))
                 ELSE IF PR!Differ(x, y) # 0 THEN PR!CompareIdentifier(x[PR!Differ(x, y)], y[PR!Differ(x, y)])
                 ELSE PR!Sign(Len(x), Len(y))

LEMMA PreOrder ==
  ASSUME NEW a \in PR!SemVers, NEW b \in PR!SemVers, a.core = b.core
  PROVE  PR!Compare(a, b) = PreSign(a.pre, b.pre)
  <1>1. PR!Differ(a.core, b.core) = 0
    BY CoreOrder
  <1>2. QED
    BY <1>1 DEF PR!Compare, PreSign

LEMMA PreThrough ==
  ASSUME NEW x \in Seq(PR!Identifiers), NEW y \in Seq(PR!Identifiers), NEW z \in Seq(PR!Identifiers),
         PreSign(x, y) <= 0, PreSign(y, z) < 0
  PROVE  PreSign(x, z) <= 0
  <1> USE DEF PreSign
  <1>1. /\ Len(x) \in Nat /\ DOMAIN x = 1..Len(x) /\ Len(y) \in Nat /\ DOMAIN y = 1..Len(y)
        /\ Len(z) \in Nat /\ DOMAIN z = 1..Len(z)
    OBVIOUS
  <1>2. /\ x = << >> <=> Len(x) = 0
        /\ y = << >> <=> Len(y) = 0
        /\ z = << >> <=> Len(z) = 0
    OBVIOUS
  <1>3. CASE z = << >>
    BY <1>1, <1>2, <1>3, SignOrders
  <1>4. ASSUME z # << >> PROVE x # << >> /\ y # << >>
    <2>1. y # << >>
      <3>1. SUFFICES ASSUME y = << >> PROVE FALSE
        OBVIOUS
      <3>2. PreSign(y, z) = PR!Sign(Len(z), Len(y)) /\ Len(y) = 0
        BY <1>2, <3>1
      <3>3. QED
        BY <1>1, <3>2, SignOrders
    <2>2. x # << >>
      <3>1. SUFFICES ASSUME x = << >> PROVE FALSE
        OBVIOUS
      <3>2. PreSign(x, y) = PR!Sign(Len(y), Len(x)) /\ Len(x) = 0
        BY <1>2, <3>1
      <3>3. Len(y) <= 0
        BY <1>1, <3>2, SignOrders
      <3>4. QED
        BY <1>1, <1>2, <2>1, <3>3
    <2>3. QED
      BY <2>1, <2>2
  <1>5. CASE z # << >>
    <2>1. PICK p, q, r : p = PR!Differ(x, y) /\ q = PR!Differ(y, z) /\ r = PR!Differ(x, z)
      OBVIOUS
    <2>2. /\ PreSign(x, y) = IF p # 0 THEN PR!CompareIdentifier(x[p], y[p]) ELSE PR!Sign(Len(x), Len(y))
          /\ PreSign(y, z) = IF q # 0 THEN PR!CompareIdentifier(y[q], z[q]) ELSE PR!Sign(Len(y), Len(z))
          /\ PreSign(x, z) = IF r # 0 THEN PR!CompareIdentifier(x[r], z[r]) ELSE PR!Sign(Len(x), Len(z))
      BY <1>4, <1>5, <2>1
    <2>3. /\ DOMAIN x \subseteq Nat \ {0} /\ DOMAIN y \subseteq Nat \ {0} /\ DOMAIN z \subseteq Nat \ {0}
          /\ \A i \in DOMAIN y, k \in Nat \ {0} : k < i => k \in DOMAIN y
      BY <1>1
    <2>4. /\ \/ p = 0 /\ \A i \in DOMAIN x \cap DOMAIN y : x[i] = y[i]
             \/ p \in DOMAIN x \cap DOMAIN y /\ x[p] # y[p]
          /\ \/ q = 0 /\ \A i \in DOMAIN y \cap DOMAIN z : y[i] = z[i]
             \/ /\ q \in DOMAIN y \cap DOMAIN z /\ y[q] # z[q]
                /\ \A i \in DOMAIN y \cap DOMAIN z : i < q => y[i] = z[i]
      BY <2>1, <2>3, DifferFirst
    <2>5. /\ p # 0 /\ (q = 0 \/ p < q) /\ p \in DOMAIN z => r = p /\ y[p] = z[p]
          /\ q # 0 /\ (p = 0 \/ q < p) /\ q \in DOMAIN x => r = q /\ x[q] = y[q]
          /\ p # 0 /\ q = p /\ x[p] # z[p] => r = p
      BY <2>1, <2>3, DifferThrough, SMTT(30)
    <2>6. /\ p # 0 => p \in DOMAIN x /\ p \in DOMAIN y /\ p \in 1..Len(x) /\ p \in 1..Len(y)
          /\ q # 0 => q \in DOMAIN y /\ q \in DOMAIN z /\ q \in 1..Len(y) /\ q \in 1..Len(z)
      BY <1>1, <2>4
    <2>7. /\ \A i \in DOMAIN x : x[i] \in PR!Identifiers
          /\ \A i \in DOMAIN y : y[i] \in PR!Identifiers
          /\ \A i \in DOMAIN z : z[i] \in PR!Identifiers
      OBVIOUS
    <2>8. p = 0 => Len(x) <= Len(y)
      BY <1>1, <2>2, SignOrders
    <2>9. q = 0 => Len(y) < Len(z)
      BY <1>1, <2>2, SignOrders
    <2>10. p # 0 => PR!CompareIdentifier(x[p], y[p]) < 0
      BY <2>2, <2>4, <2>6, <2>7, IdentifiersOrdered
    <2>11. q # 0 => PR!CompareIdentifier(y[q], z[q]) < 0
      BY <2>2
    <2>12. CASE p # 0 /\ (q = 0 \/ p < q)
      <3>1. p \in DOMAIN z
        <4>1. p \in 1..Len(y) /\ (q = 0 => Len(y) < Len(z)) /\ (q # 0 => q \in 1..Len(z))
          BY <2>6, <2>9, <2>12
        <4>2. QED
          BY <1>1, <2>12, <4>1
      <3>2. r # 0 /\ PR!CompareIdentifier(x[r], z[r]) < 0
        BY <2>5, <2>10, <2>12, <3>1
      <3>3. QED
        BY <2>2, <2>7, <2>12, <3>2, <2>5, <2>6, <3>1, IdentifiersOrdered
    <2>13. CASE q # 0 /\ (p = 0 \/ q < p) /\ q \in DOMAIN x
      <3>1. r # 0 /\ PR!CompareIdentifier(x[r], z[r]) < 0
        BY <2>5, <2>11, <2>13
      <3>2. QED
        BY <2>2, <2>7, <2>13, <3>1, <2>5, <2>6, IdentifiersOrdered
    <2>14. CASE p # 0 /\ q = p
      <3>1. PR!CompareIdentifier(x[p], z[p]) < 0
        BY <2>6, <2>7, <2>10, <2>11, <2>14, IdentifiersOrdered
      <3>2. x[p] # z[p]
        BY <2>6, <2>7, <2>14, <3>1, IdentifiersOrdered
      <3>3. r = p
        BY <2>5, <2>14, <3>2
      <3>4. QED
        BY <2>2, <2>6, <2>7, <2>14, <3>1, <3>3, IdentifiersOrdered
    <2>15. CASE q # 0 /\ p = 0 /\ q \notin DOMAIN x
      <3>1. Len(x) < q /\ q <= Len(z)
        BY <1>1, <2>6, <2>15
      <3>2. ASSUME NEW i \in DOMAIN x \cap DOMAIN z PROVE x[i] = z[i]
        BY <1>1, <2>4, <2>8, <2>15, <3>1, <3>2
      <3>3. r = 0
        BY <2>1, <2>3, <3>2, DifferIs
      <3>4. QED
        BY <1>1, <2>2, <2>6, <2>15, <3>1, <3>3, SignOrders
    <2>16. CASE q = 0 /\ p = 0
      <3>1. Len(x) <= Len(y) /\ Len(y) < Len(z)
        BY <2>8, <2>9, <2>16
      <3>2. ASSUME NEW i \in DOMAIN x \cap DOMAIN z PROVE x[i] = z[i]
        BY <1>1, <2>4, <2>6, <2>16, <3>1, <3>2
      <3>3. r = 0
        BY <2>1, <2>3, <3>2, DifferIs
      <3>4. QED
        BY <1>1, <2>2, <3>1, <3>3, SignOrders
    <2>17. QED
      <3>1. p \in Nat /\ q \in Nat
        BY <2>6
      <3>2. p < q \/ q < p \/ p = q
        BY <3>1
      <3>3. q < p => q \in DOMAIN x \/ q = 0
        BY <1>1, <2>6, <3>1
      <3>4. QED
        BY <2>12, <2>13, <2>14, <2>15, <2>16, <3>2, <3>3
  <1>6. QED
    BY <1>3, <1>5

\* What no version before another exceeds, it does not exceed either.
LEMMA VersionsOrdered ==
  ASSUME NEW a \in PR!SemVers, NEW b \in PR!SemVers, NEW c \in PR!SemVers,
         PR!Compare(a, b) <= 0, PR!Compare(b, c) < 0
  PROVE  PR!Compare(a, c) <= 0
  <1>1. CoreSign(a, b) <= 0 /\ CoreSign(b, c) <= 0
    <2>1. CoreSign(a, b) = 0 \/ CoreSign(a, b) = PR!Compare(a, b)
      BY CoreOrder
    <2>2. CoreSign(b, c) = 0 \/ CoreSign(b, c) = PR!Compare(b, c)
      BY CoreOrder
    <2>3. CoreSign(a, b) \in {-1, 0, 1} /\ CoreSign(b, c) \in {-1, 0, 1}
      BY CoreOrder
    <2>4. QED
      BY <2>1, <2>2, <2>3
  <1>2. CASE CoreSign(a, b) # 0 \/ CoreSign(b, c) # 0
    <2>1. CoreSign(a, c) = -1
      BY <1>1, <1>2, CoreThrough
    <2>2. PR!Compare(a, c) = -1
      BY <2>1, CoreOrder
    <2>3. QED
      BY <2>2
  <1>3. CASE CoreSign(a, b) = 0 /\ CoreSign(b, c) = 0
    <2>1. a.core = b.core /\ b.core = c.core
      BY <1>3, CoreOrder
    <2>2. a.pre \in Seq(PR!Identifiers) /\ b.pre \in Seq(PR!Identifiers) /\ c.pre \in Seq(PR!Identifiers)
      BY DEF PR!SemVers
    <2>3. PreSign(a.pre, b.pre) <= 0 /\ PreSign(b.pre, c.pre) < 0
      BY <2>1, PreOrder
    <2>4. PreSign(a.pre, c.pre) <= 0
      BY <2>2, <2>3, PreThrough
    <2>5. QED
      BY <2>1, <2>4, PreOrder
  <1>4. QED
    BY <1>2, <1>3

-----------------------------------------------------------------------------
MethodTables   == UNION {[S -> 1..2] : S \in SUBSET Methods}
StoredProfiles   == {PR!None} \cup [version : Nat, methods : MethodTables, least : Versions]
JobDocuments == {PR!None} \cup [profile : Ids \cup {"none"}, method : Methods \cup {"none"}, readable : BOOLEAN]
AskPlaces   == {"fence", "jobs", "again", "states", "read", "write"}
Asked    == [op : PR!Guarded \cup {"deleteProfile", "deleteMethod"}, id : Ids, method : Methods,
             body : 1..2, at : AskPlaces, seen : StoredProfiles]

ProfilesTyped ==
  /\ profiles \in [Ids -> StoredProfiles] /\ docs \in [Jobs -> JobDocuments]
  /\ fence \in [Ids -> Processes \cup {PR!Nobody}] /\ jobLock \in [Jobs -> Processes \cup {PR!Nobody}]
  /\ req \in [Processes -> {PR!Idle} \cup Asked] /\ runtime \in Versions

\* A process past the fence of its Profile is the only one there.
Fenced(p) == req[p].at \in AskPlaces \ {"fence"} => fence[req[p].id] = p

\* What it is about to save is made from what is there, and a Profile is
\* created only where none is.
SeenFresh(p) == PR!At(p, "write") => /\ req[p].seen = profiles[req[p].id]
                                     /\ req[p].seen = PR!None <=> req[p].op = "createProfile"

\* A readable Job document that names a Method of a Profile.
NamesMethod(j, id) == docs[j] # PR!None /\ docs[j].readable /\ docs[j].profile = id /\ id # "none"

\* What a process is about to save keeps the Methods that Jobs name.
MethodsKept(p) == PR!At(p, "write") => \A j \in Jobs : NamesMethod(j, req[p].id) =>
             PR!Saved(req[p]) # PR!None /\ docs[j].method \in DOMAIN PR!Saved(req[p]).methods

ProfilesInv == PR!ConstantsFit /\ ProfilesTyped /\ PR!ReferencedStays /\ \A p \in Processes : Fenced(p) /\ SeenFresh(p) /\ MethodsKept(p)

-----------------------------------------------------------------------------
(* Every step keeps the invariant                                            *)

LEMMA NamedIs ==
  ASSUME ProfilesTyped, PR!ReferencedStays, NEW j \in Jobs, NEW id, NamesMethod(j, id)
  PROVE  /\ docs[j] # PR!None /\ docs[j].readable /\ docs[j].profile = id
         /\ profiles[id] # PR!None /\ docs[j].method \in DOMAIN profiles[id].methods
  BY DEF NamesMethod, PR!ReferencedStays

\* A Job that names a Method is found by who asks for the Method or the Profile.
LEMMA FoundByName ==
  ASSUME NEW j \in Jobs, NEW id, NamesMethod(j, id)
  PROVE  j \in PR!Find(id, docs[j].method) /\ j \in PR!Find(id, "any")
  BY DEF NamesMethod, PR!Find

LEMMA AskedFields ==
  ASSUME ProfilesTyped, NEW p \in Processes, req[p].at \in AskPlaces
  PROVE  /\ req[p] \in Asked /\ req[p].id \in Ids /\ req[p].method \in Methods
         /\ req[p].op \in PR!Guarded \cup {"deleteProfile", "deleteMethod"}
         /\ req[p].seen \in StoredProfiles /\ req[p].body \in 1..2
  <1>1. req[p] \in {PR!Idle} \cup Asked
    BY DEF ProfilesTyped
  <1>2. req[p] # PR!Idle
    BY DEF PR!Idle, AskPlaces
  <1>3. QED
    BY <1>1, <1>2 DEF Asked

\* The processes other than p, when nothing but the request of p changes.
LEMMA OthersStay ==
  ASSUME ProfilesInv, NEW p \in Processes, NEW x, req' = [req EXCEPT ![p] = x],
         UNCHANGED <<docs, profiles>>,
         \A i \in Ids : fence[i] # p /\ fence[i] # PR!Nobody => fence'[i] = fence[i]
  PROVE  /\ PR!ReferencedStays'
         /\ \A q \in Processes \ {p} : Fenced(q)' /\ SeenFresh(q)' /\ MethodsKept(q)'
  <1>1. PR!ReferencedStays'
    BY DEF ProfilesInv, PR!ReferencedStays
  <1>2. ASSUME NEW q \in Processes \ {p} PROVE Fenced(q)' /\ SeenFresh(q)' /\ MethodsKept(q)'
    <2>1. req'[q] = req[q]
      BY DEF ProfilesInv, ProfilesTyped
    <2>2. Fenced(q) /\ SeenFresh(q) /\ MethodsKept(q)
      BY DEF ProfilesInv
    <2>3. Fenced(q)'
      <3>1. SUFFICES ASSUME req[q].at \in AskPlaces \ {"fence"} PROVE fence'[req[q].id] = q
        BY <2>1 DEF Fenced
      <3>2. fence[req[q].id] = q /\ req[q].id \in Ids /\ q # p
        BY <2>2, <3>1, AskedFields DEF Fenced, ProfilesInv
      <3>3. QED
        BY <3>2 DEF ProfilesInv, PR!ConstantsFit
    <2>4. SeenFresh(q)'
      BY <2>1, <2>2 DEF SeenFresh, PR!At
    <2>5. MethodsKept(q)'
      BY <2>1, <2>2 DEF MethodsKept, PR!At, NamesMethod
    <2>6. QED
      BY <2>3, <2>4, <2>5
  <1>3. QED
    BY <1>1, <1>2

LEMMA Freed ==
  ASSUME ProfilesInv, NEW p \in Processes, PR!Release(p), UNCHANGED <<docs, profiles, runtime>>
  PROVE  ProfilesInv'
  <1>1. /\ PR!ReferencedStays'
        /\ \A q \in Processes \ {p} : Fenced(q)' /\ SeenFresh(q)' /\ MethodsKept(q)'
    BY OthersStay DEF PR!Release
  <1>2. req'[p] = PR!Idle
    BY DEF ProfilesInv, ProfilesTyped, PR!Release
  <1>3. Fenced(p)' /\ SeenFresh(p)' /\ MethodsKept(p)'
    BY <1>2 DEF Fenced, SeenFresh, MethodsKept, PR!At, PR!Idle, AskPlaces
  <1>4. ProfilesTyped'
    <2>1. fence' \in [Ids -> Processes \cup {PR!Nobody}] /\ jobLock' \in [Jobs -> Processes \cup {PR!Nobody}]
      BY DEF ProfilesInv, ProfilesTyped, PR!Release
    <2>2. req' \in [Processes -> {PR!Idle} \cup Asked]
      BY DEF ProfilesInv, ProfilesTyped, PR!Release
    <2>3. QED
      BY <2>1, <2>2 DEF ProfilesInv, ProfilesTyped
  <1>5. QED
    BY <1>1, <1>3, <1>4 DEF ProfilesInv

\* A process goes on, holding the fence.
LEMMA GoneOn ==
  ASSUME ProfilesInv, NEW p \in Processes, req[p].at \in AskPlaces, NEW place \in AskPlaces \ {"fence", "write"},
         PR!Goes(p, place), UNCHANGED <<docs, profiles, runtime>>,
         fence' = [fence EXCEPT ![req[p].id] = p], fence[req[p].id] \in {p, PR!Nobody},
         jobLock' \in [Jobs -> Processes \cup {PR!Nobody}]
  PROVE  ProfilesInv'
  <1>0. req[p] \in Asked /\ req[p].id \in Ids
    BY AskedFields DEF ProfilesInv
  <1>a. PICK x : x = [req[p] EXCEPT !.at = place]
    OBVIOUS
  <1>b. req' = [req EXCEPT ![p] = x] /\ x \in Asked /\ x.id = req[p].id /\ x.at = place
    <2>1. req' = [req EXCEPT ![p] = x]
      BY <1>a DEF PR!Goes
    <2>2. x \in Asked /\ x.id = req[p].id /\ x.at = place
      BY <1>0, <1>a DEF Asked
    <2>3. QED
      BY <2>1, <2>2
  <1>1. /\ PR!ReferencedStays'
        /\ \A q \in Processes \ {p} : Fenced(q)' /\ SeenFresh(q)' /\ MethodsKept(q)'
    <2>1. \A i \in Ids : fence[i] # p /\ fence[i] # PR!Nobody => fence'[i] = fence[i]
      BY <1>0 DEF ProfilesInv, ProfilesTyped
    <2>2. QED
      BY <1>b, <2>1, OthersStay
  <1>2. req'[p] = x
    BY <1>b DEF ProfilesInv, ProfilesTyped
  <1>3. Fenced(p)' /\ SeenFresh(p)' /\ MethodsKept(p)'
    <2>1. fence'[req[p].id] = p
      BY <1>0 DEF ProfilesInv, ProfilesTyped
    <2>2. QED
      BY <1>b, <1>2, <2>1 DEF Fenced, SeenFresh, MethodsKept, PR!At
  <1>4. ProfilesTyped'
    <2>1. fence' \in [Ids -> Processes \cup {PR!Nobody}]
      BY <1>0 DEF ProfilesInv, ProfilesTyped
    <2>2. req' \in [Processes -> {PR!Idle} \cup Asked]
      BY <1>b DEF ProfilesInv, ProfilesTyped
    <2>3. QED
      BY <2>1, <2>2 DEF ProfilesInv, ProfilesTyped
  <1>5. QED
    BY <1>1, <1>3, <1>4 DEF ProfilesInv

LEMMA AskKeeps ==
  ASSUME ProfilesInv, NEW p \in Processes, PR!Ask(p)
  PROVE  ProfilesInv'
  <1>1. PICK op \in PR!Guarded \cup {"deleteProfile", "deleteMethod"}, id \in Ids, m \in Methods, b \in 1..2 :
          req' = [req EXCEPT ![p] = [op |-> op, id |-> id, method |-> m, body |-> b, at |-> "fence",
                                     seen |-> PR!None]]
    BY DEF PR!Ask
  <1>2. PICK x : x = [op |-> op, id |-> id, method |-> m, body |-> b, at |-> "fence", seen |-> PR!None]
    OBVIOUS
  <1>3. req' = [req EXCEPT ![p] = x] /\ x \in Asked /\ x.at = "fence"
    BY <1>1, <1>2 DEF Asked, StoredProfiles, AskPlaces
  <1>4. UNCHANGED <<docs, profiles, runtime, fence, jobLock>>
    BY DEF PR!Ask, PR!shop
  <1>5. /\ PR!ReferencedStays'
        /\ \A q \in Processes \ {p} : Fenced(q)' /\ SeenFresh(q)' /\ MethodsKept(q)'
    BY <1>3, <1>4, OthersStay
  <1>6. req'[p] = x
    BY <1>3 DEF ProfilesInv, ProfilesTyped
  <1>7. Fenced(p)' /\ SeenFresh(p)' /\ MethodsKept(p)'
    BY <1>3, <1>6 DEF Fenced, SeenFresh, MethodsKept, PR!At
  <1>8. ProfilesTyped'
    <2>1. req' \in [Processes -> {PR!Idle} \cup Asked]
      BY <1>3 DEF ProfilesInv, ProfilesTyped
    <2>2. QED
      BY <1>4, <2>1 DEF ProfilesInv, ProfilesTyped
  <1>9. QED
    BY <1>5, <1>7, <1>8 DEF ProfilesInv

LEMMA TakeFenceKeeps ==
  ASSUME ProfilesInv, NEW p \in Processes, PR!TakeFence(p)
  PROVE  ProfilesInv'
  <1>1. req[p].at \in AskPlaces /\ UNCHANGED <<docs, profiles, runtime>>
    BY DEF PR!TakeFence, PR!At, AskPlaces, PR!shop
  <1>2. CASE fence[req[p].id] # PR!Nobody
    BY <1>1, <1>2, Freed DEF PR!TakeFence
  <1>3. CASE fence[req[p].id] = PR!Nobody
    <2>1. PICK place \in {"jobs", "read"} : PR!Goes(p, place)
      BY <1>3 DEF PR!TakeFence
    <2>2. place \in AskPlaces \ {"fence", "write"}
      BY DEF AskPlaces
    <2>3. fence' = [fence EXCEPT ![req[p].id] = p] /\ jobLock' \in [Jobs -> Processes \cup {PR!Nobody}]
      BY <1>3 DEF PR!TakeFence, ProfilesInv, ProfilesTyped
    <2>4. QED
      BY <1>1, <1>3, <2>1, <2>2, <2>3, GoneOn
  <1>4. QED
    BY <1>2, <1>3

LEMMA HoldingFence ==
  ASSUME ProfilesInv, NEW p \in Processes, req[p].at \in AskPlaces \ {"fence"}
  PROVE  fence[req[p].id] = p /\ fence = [fence EXCEPT ![req[p].id] = p]
  <1>1. fence[req[p].id] = p
    BY DEF ProfilesInv, Fenced
  <1>2. QED
    BY <1>1 DEF ProfilesInv, ProfilesTyped

LEMMA LocksKeep ==
  ASSUME ProfilesInv, NEW p \in Processes, PR!LockJobs(p) \/ PR!LookAgain(p) \/ PR!States(p)
  PROVE  ProfilesInv'
  <1>1. req[p].at \in AskPlaces \ {"fence"} /\ UNCHANGED <<docs, profiles, runtime>>
    BY DEF PR!LockJobs, PR!LookAgain, PR!States, PR!At, AskPlaces, PR!shop
  <1>2. CASE PR!Release(p)
    BY <1>1, <1>2, Freed
  <1>3. CASE ~PR!Release(p)
    <2>1. PICK place \in {"again", "states", "read"} : PR!Goes(p, place)
      BY <1>3 DEF PR!LockJobs, PR!LookAgain, PR!States
    <2>2. place \in AskPlaces \ {"fence", "write"}
      BY DEF AskPlaces
    <2>3. jobLock' \in [Jobs -> Processes \cup {PR!Nobody}] /\ fence' = fence
      BY <1>3 DEF PR!LockJobs, PR!LookAgain, PR!States, ProfilesInv, ProfilesTyped
    <2>4. QED
      BY <1>1, <2>1, <2>2, <2>3, HoldingFence, GoneOn
  <1>4. QED
    BY <1>2, <1>3

\* What Read lets through: the Profile the operation needs, the Methods it keeps.
AsRead(x, p) == x = [req[p] EXCEPT !.at = "write", !.seen = profiles[req[p].id]]
ReadAs(x, p) == /\ x \in Asked /\ x.id = req[p].id /\ x.at = "write" /\ x.seen = profiles[req[p].id]
                /\ x.op = req[p].op /\ x.method = req[p].method
                /\ x.seen = PR!None <=> x.op = "createProfile"

LEMMA ReadFresh ==
  ASSUME ProfilesInv, NEW p \in Processes, req[p].at = "read", ~PR!Refused(p), NEW x, AsRead(x, p)
  PROVE  ReadAs(x, p)
  <1>1. req[p] \in Asked /\ req[p].op \in PR!Guarded \cup {"deleteProfile", "deleteMethod"} /\ req[p].id \in Ids
    BY AskedFields DEF ProfilesInv, AskPlaces
  <1>2. profiles[req[p].id] \in StoredProfiles
    BY <1>1 DEF ProfilesInv, ProfilesTyped
  <1>3. /\ x \in Asked /\ x.id = req[p].id /\ x.at = "write" /\ x.seen = profiles[req[p].id]
        /\ x.op = req[p].op /\ x.method = req[p].method
    BY <1>1, <1>2 DEF AsRead, Asked, AskPlaces
  <1>4. profiles[req[p].id] = PR!None <=> req[p].op = "createProfile"
    BY <1>1 DEF PR!Refused, PR!Guarded
  <1>5. QED
    BY <1>3, <1>4 DEF ReadAs

LEMMA ReadKept ==
  ASSUME ProfilesInv, NEW p \in Processes, req[p].at = "read", ~PR!Refused(p), NEW x, AsRead(x, p),
         NEW j \in Jobs, NamesMethod(j, req[p].id)
  PROVE  PR!Saved(x) # PR!None /\ docs[j].method \in DOMAIN PR!Saved(x).methods
  <1>1. /\ x.seen = profiles[req[p].id] /\ x.op = req[p].op /\ x.method = req[p].method /\ x.id = req[p].id
        /\ x.seen = PR!None <=> x.op = "createProfile"
    BY ReadFresh DEF ReadAs
  <1>2. PICK m : m = docs[j].method
    OBVIOUS
  <1>3. /\ x.seen # PR!None /\ m \in DOMAIN x.seen.methods
        /\ j \in PR!Find(x.id, m) /\ j \in PR!Find(x.id, "any")
    BY <1>1, <1>2, NamedIs, FoundByName DEF ProfilesInv
  <1>4. x.op \in PR!Guarded \cup {"deleteProfile", "deleteMethod"}
    BY <1>1, AskedFields DEF ProfilesInv, AskPlaces
  <1>5. x.op # "createProfile" /\ x.op # "deleteProfile"
    BY <1>1, <1>3 DEF PR!Refused
  <1>6. CASE x.op = "updateProfile"
    <2>1. m = x.method
      BY <1>1, <1>3, <1>6 DEF PR!Refused
    <2>2. PR!Saved(x) = [version |-> x.seen.version + 1, methods |-> [k \in {x.method} |-> x.body], least |-> x.seen.least]
      BY <1>6 DEF PR!Saved
    <2>3. QED
      BY <1>2, <2>1, <2>2 DEF PR!None
  <1>7. CASE x.op \in {"createMethod", "updateMethod"}
    <2>1. PICK ms : ms = [k \in DOMAIN x.seen.methods \cup {x.method} |->
                           IF k = x.method THEN x.body ELSE x.seen.methods[k]]
      OBVIOUS
    <2>2. PR!Saved(x) = [version |-> x.seen.version + 1, methods |-> ms, least |-> x.seen.least]
      BY <1>7, <2>1 DEF PR!Saved
    <2>3. m \in DOMAIN ms
      BY <1>3, <2>1
    <2>4. QED
      BY <1>2, <2>2, <2>3 DEF PR!None
  <1>8. CASE x.op = "deleteMethod"
    <2>1. m # x.method
      BY <1>1, <1>3, <1>8 DEF PR!Refused
    <2>2. PICK ms : ms = [k \in DOMAIN x.seen.methods \ {x.method} |-> x.seen.methods[k]]
      OBVIOUS
    <2>3. PR!Saved(x) = [version |-> x.seen.version + 1, methods |-> ms, least |-> x.seen.least]
      BY <1>8, <2>2 DEF PR!Saved
    <2>4. m \in DOMAIN ms
      BY <1>3, <2>1, <2>2
    <2>5. QED
      BY <1>2, <2>3, <2>4 DEF PR!None
  <1>9. QED
    BY <1>4, <1>5, <1>6, <1>7, <1>8 DEF PR!Guarded

LEMMA ReadKeeps ==
  ASSUME ProfilesInv, NEW p \in Processes, PR!Read(p)
  PROVE  ProfilesInv'
  <1>1. req[p].at = "read" /\ UNCHANGED <<docs, profiles, runtime>> /\ req[p].at \in AskPlaces \ {"fence"}
    BY DEF PR!Read, PR!At, PR!shop, AskPlaces
  <1>2. CASE PR!Refused(p)
    BY <1>1, <1>2, Freed DEF PR!Read
  <1>3. CASE ~PR!Refused(p)
    <2>1. PICK x : AsRead(x, p)
      BY DEF AsRead
    <2>2. req' = [req EXCEPT ![p] = x] /\ fence' = fence /\ jobLock' = jobLock
      BY <1>3, <2>1 DEF PR!Read, AsRead
    <2>3. /\ PR!ReferencedStays'
          /\ \A q \in Processes \ {p} : Fenced(q)' /\ SeenFresh(q)' /\ MethodsKept(q)'
      BY <1>1, <2>2, OthersStay
    <2>4. /\ x \in Asked /\ x.id = req[p].id /\ x.at = "write" /\ x.seen = profiles[req[p].id]
          /\ x.seen = PR!None <=> x.op = "createProfile"
      BY <1>1, <1>3, <2>1, ReadFresh DEF ReadAs
    <2>5. req'[p] = x
      BY <2>2 DEF ProfilesInv, ProfilesTyped
    <2>6. Fenced(p)'
      BY <1>1, <2>2, <2>4, <2>5, HoldingFence DEF Fenced
    <2>7. SeenFresh(p)'
      BY <1>1, <2>4, <2>5 DEF SeenFresh
    <2>8. MethodsKept(p)'
      <3>1. ASSUME NEW j \in Jobs, NamesMethod(j, x.id)
            PROVE  PR!Saved(x) # PR!None /\ docs[j].method \in DOMAIN PR!Saved(x).methods
        BY <1>1, <1>3, <2>1, <2>4, <3>1, ReadKept
      <3>2. QED
        BY <1>1, <2>5, <3>1 DEF MethodsKept, NamesMethod
    <2>9. ProfilesTyped'
      <3>1. req' \in [Processes -> {PR!Idle} \cup Asked]
        BY <2>2, <2>4 DEF ProfilesInv, ProfilesTyped
      <3>2. QED
        BY <1>1, <2>2, <3>1 DEF ProfilesInv, ProfilesTyped
    <2>10. QED
      BY <2>3, <2>6, <2>7, <2>8, <2>9 DEF ProfilesInv
  <1>4. QED
    BY <1>2, <1>3

\* What an operation saves is a Profile, or nothing when it removes one.
LEMMA SavedIs ==
  ASSUME ProfilesInv, NEW p \in Processes, PR!At(p, "write")
  PROVE  /\ PR!Saved(req[p]) \in StoredProfiles
         /\ PR!Saved(req[p]) = PR!None => req[p].op = "deleteProfile"
  <1>1. /\ req[p] \in Asked /\ req[p].op \in PR!Guarded \cup {"deleteProfile", "deleteMethod"}
        /\ req[p].method \in Methods /\ req[p].body \in 1..2 /\ req[p].seen \in StoredProfiles
        /\ req[p].seen = PR!None <=> req[p].op = "createProfile"
    BY AskedFields DEF ProfilesInv, PR!At, AskPlaces, SeenFresh
  <1>2. ASSUME NEW v \in Nat, NEW S \in SUBSET Methods, NEW ms \in [S -> 1..2], NEW l \in Versions,
               PR!Saved(req[p]) = [version |-> v, methods |-> ms, least |-> l]
        PROVE  PR!Saved(req[p]) \in StoredProfiles /\ PR!Saved(req[p]) # PR!None
    <2>1. ms \in MethodTables
      BY DEF MethodTables
    <2>2. QED
      BY <1>2, <2>1 DEF StoredProfiles, PR!None
  <1>3. PICK one : one = [m \in {req[p].method} |-> req[p].body] /\ one \in [{req[p].method} -> 1..2]
    <2>1. [m \in {req[p].method} |-> req[p].body] \in [{req[p].method} -> 1..2]
      BY <1>1
    <2>2. QED
      BY <2>1
  <1>4. CASE req[p].op = "createProfile"
    <2>1. PICK l : l = (CHOOSE v \in Versions : TRUE) /\ l \in Versions
      BY DEF ProfilesInv, ProfilesTyped
    <2>2. PR!Saved(req[p]) = [version |-> 1, methods |-> one, least |-> l]
      BY <1>3, <1>4, <2>1 DEF PR!Saved
    <2>3. {req[p].method} \in SUBSET Methods
      BY <1>1
    <2>4. QED
      BY <1>2, <1>3, <2>1, <2>2, <2>3
  <1>5. CASE req[p].op = "deleteProfile"
    BY <1>5 DEF PR!Saved, StoredProfiles
  <1>6. CASE req[p].op \notin {"createProfile", "deleteProfile"}
    <2>1. req[p].seen \in [version : Nat, methods : MethodTables, least : Versions]
      BY <1>1, <1>6 DEF StoredProfiles
    <2>2. PICK v, old, l : /\ v = req[p].seen.version + 1 /\ v \in Nat /\ l = req[p].seen.least /\ l \in Versions
                           /\ old = req[p].seen.methods /\ old \in MethodTables
      BY <2>1
    <2>3. PICK D \in SUBSET Methods : old \in [D -> 1..2]
      BY <2>2 DEF MethodTables
    <2>4. CASE req[p].op = "updateProfile"
      <3>1. PR!Saved(req[p]) = [version |-> v, methods |-> one, least |-> l]
        BY <1>3, <2>2, <2>4 DEF PR!Saved
      <3>2. {req[p].method} \in SUBSET Methods
        BY <1>1
      <3>3. QED
        BY <1>2, <1>3, <2>2, <2>4, <3>1, <3>2
    <2>5. CASE req[p].op \in {"createMethod", "updateMethod"}
      <3>1. PICK ms : ms = [m \in DOMAIN old \cup {req[p].method} |-> IF m = req[p].method THEN req[p].body ELSE old[m]]
        OBVIOUS
      <3>2. PR!Saved(req[p]) = [version |-> v, methods |-> ms, least |-> l]
        BY <2>2, <2>5, <3>1 DEF PR!Saved
      <3>3. D \cup {req[p].method} \in SUBSET Methods /\ ms \in [D \cup {req[p].method} -> 1..2]
        BY <1>1, <2>3, <3>1
      <3>4. QED
        BY <1>2, <2>2, <2>5, <3>2, <3>3
    <2>6. CASE req[p].op = "deleteMethod"
      <3>1. PICK ms : ms = [m \in DOMAIN old \ {req[p].method} |-> old[m]]
        OBVIOUS
      <3>2. PR!Saved(req[p]) = [version |-> v, methods |-> ms, least |-> l]
        BY <2>2, <2>6, <3>1 DEF PR!Saved
      <3>3. D \ {req[p].method} \in SUBSET Methods /\ ms \in [D \ {req[p].method} -> 1..2]
        BY <1>1, <2>3, <3>1
      <3>4. QED
        BY <1>2, <2>2, <2>6, <3>2, <3>3
    <2>7. QED
      BY <1>1, <1>6, <2>4, <2>5, <2>6 DEF PR!Guarded
  <1>7. QED
    BY <1>4, <1>5, <1>6

LEMMA WriteKeeps ==
  ASSUME ProfilesInv, NEW p \in Processes, PR!Write(p)
  PROVE  ProfilesInv'
  <1>1. PR!At(p, "write") /\ req[p].at \in AskPlaces \ {"fence"} /\ UNCHANGED <<docs, runtime>>
    BY DEF PR!Write, PR!At, AskPlaces, PR!shop
  <1>2. req[p].id \in Ids /\ fence[req[p].id] = p
    BY <1>1, AskedFields, HoldingFence DEF ProfilesInv, AskPlaces
  <1>3. profiles' = [profiles EXCEPT ![req[p].id] = PR!Saved(req[p])]
    BY DEF PR!Write
  <1>4. PR!Release(p) /\ req' = [req EXCEPT ![p] = PR!Idle]
    BY DEF PR!Write, PR!Release
  <1>5. PR!ReferencedStays'
    <2>1. SUFFICES ASSUME NEW j \in Jobs, docs[j] # PR!None, docs[j].readable, docs[j].profile # "none"
                   PROVE  /\ profiles'[docs[j].profile] # PR!None
                          /\ docs[j].method \in DOMAIN profiles'[docs[j].profile].methods
      BY <1>1 DEF PR!ReferencedStays
    <2>2. docs[j].profile \in Ids
      BY <2>1 DEF ProfilesInv, ProfilesTyped, JobDocuments
    <2>3. CASE docs[j].profile = req[p].id
      <3>1. NamesMethod(j, req[p].id)
        BY <2>1, <2>3 DEF NamesMethod
      <3>2. PR!Saved(req[p]) # PR!None /\ docs[j].method \in DOMAIN PR!Saved(req[p]).methods
        BY <1>1, <3>1 DEF ProfilesInv, MethodsKept
      <3>3. profiles'[docs[j].profile] = PR!Saved(req[p])
        BY <1>2, <1>3, <2>3 DEF ProfilesInv, ProfilesTyped
      <3>4. QED
        BY <3>2, <3>3
    <2>4. CASE docs[j].profile # req[p].id
      <3>1. profiles'[docs[j].profile] = profiles[docs[j].profile]
        BY <1>3, <2>2, <2>4 DEF ProfilesInv, ProfilesTyped
      <3>2. QED
        BY <2>1, <3>1 DEF ProfilesInv, PR!ReferencedStays
    <2>5. QED
      BY <2>3, <2>4
  <1>6. ASSUME NEW q \in Processes \ {p} PROVE Fenced(q)' /\ SeenFresh(q)' /\ MethodsKept(q)'
    <2>1. req'[q] = req[q] /\ Fenced(q) /\ SeenFresh(q) /\ MethodsKept(q)
      BY <1>4 DEF ProfilesInv, ProfilesTyped
    <2>2. Fenced(q)'
      <3>1. SUFFICES ASSUME req[q].at \in AskPlaces \ {"fence"} PROVE fence'[req[q].id] = q
        BY <2>1 DEF Fenced
      <3>2. fence[req[q].id] = q /\ req[q].id \in Ids /\ q # p
        BY <2>1, <3>1, AskedFields DEF Fenced, ProfilesInv
      <3>3. QED
        BY <1>4, <3>2 DEF PR!Release, ProfilesInv
    <2>3. SeenFresh(q)'
      <3>1. ASSUME PR!At(q, "write") PROVE profiles'[req[q].id] = profiles[req[q].id]
        <4>1. fence[req[q].id] = q /\ req[q].id \in Ids
          BY <2>1, <3>1, AskedFields DEF Fenced, ProfilesInv, PR!At, AskPlaces
        <4>2. req[q].id # req[p].id
          BY <1>2, <4>1
        <4>3. QED
          BY <1>3, <4>1, <4>2 DEF ProfilesInv, ProfilesTyped
      <3>2. QED
        BY <2>1, <3>1 DEF SeenFresh, PR!At
    <2>4. MethodsKept(q)'
      BY <1>1, <2>1 DEF MethodsKept, PR!At, NamesMethod
    <2>5. QED
      BY <2>2, <2>3, <2>4
  <1>7. req'[p] = PR!Idle
    BY <1>4 DEF ProfilesInv, ProfilesTyped
  <1>8. Fenced(p)' /\ SeenFresh(p)' /\ MethodsKept(p)'
    BY <1>7 DEF Fenced, SeenFresh, MethodsKept, PR!At, PR!Idle, AskPlaces
  <1>9. ProfilesTyped'
    <2>1. fence' \in [Ids -> Processes \cup {PR!Nobody}] /\ jobLock' \in [Jobs -> Processes \cup {PR!Nobody}]
      BY <1>4 DEF PR!Release, ProfilesInv, ProfilesTyped
    <2>2. req' \in [Processes -> {PR!Idle} \cup Asked]
      BY <1>4 DEF ProfilesInv, ProfilesTyped
    <2>3. profiles' \in [Ids -> StoredProfiles]
      BY <1>1, <1>3, SavedIs DEF ProfilesInv, ProfilesTyped
    <2>4. QED
      BY <1>1, <2>1, <2>2, <2>3 DEF ProfilesInv, ProfilesTyped
  <1>10. QED
    BY <1>5, <1>6, <1>8, <1>9 DEF ProfilesInv

\* The Job manager and the services only take references away.
LEMMA JobsKeep ==
  ASSUME ProfilesInv, NEW j \in Jobs, PR!SaveJob(j) \/ PR!DeleteJob(j) \/ PR!StopJob(j)
  PROVE  ProfilesInv'
  <1>1. UNCHANGED <<profiles, fence, jobLock, req, runtime>>
    BY DEF PR!SaveJob, PR!DeleteJob, PR!StopJob
  <1>2. docs' \in [Jobs -> JobDocuments] /\ \A k \in Jobs : \A id : NamesMethod(k, id)' => NamesMethod(k, id) /\ docs'[k] = docs[k]
    <2>1. PICK d \in {PR!None, [profile |-> "none", method |-> "none", readable |-> TRUE]} :
            docs' = docs \/ docs' = [docs EXCEPT ![j] = d]
      BY DEF PR!SaveJob, PR!DeleteJob, PR!StopJob
    <2>2. d \in JobDocuments
      <3>1. [profile |-> "none", method |-> "none", readable |-> TRUE]
              \in [profile : Ids \cup {"none"}, method : Methods \cup {"none"}, readable : BOOLEAN]
        OBVIOUS
      <3>2. QED
        BY <3>1 DEF JobDocuments
    <2>3. docs' \in [Jobs -> JobDocuments]
      BY <2>1, <2>2 DEF ProfilesInv, ProfilesTyped
    <2>4. ASSUME NEW k \in Jobs, NEW id, NamesMethod(k, id)' PROVE NamesMethod(k, id) /\ docs'[k] = docs[k]
      <3>1. docs'[k] = docs[k] \/ docs'[k] = d
        BY <2>1 DEF ProfilesInv, ProfilesTyped
      <3>2. docs'[k] # PR!None /\ docs'[k].profile = id /\ id # "none" /\ docs'[k].readable
        BY <2>4 DEF NamesMethod
      <3>3. d = PR!None \/ d.profile = "none"
        OBVIOUS
      <3>4. docs'[k] = docs[k]
        BY <3>1, <3>2, <3>3
      <3>5. QED
        BY <3>2, <3>4 DEF NamesMethod
    <2>5. QED
      BY <2>3, <2>4
  <1>3. PR!ReferencedStays'
    <2>1. SUFFICES ASSUME NEW k \in Jobs, docs'[k] # PR!None, docs'[k].readable, docs'[k].profile # "none"
                   PROVE  /\ profiles[docs'[k].profile] # PR!None
                          /\ docs'[k].method \in DOMAIN profiles[docs'[k].profile].methods
      BY <1>1 DEF PR!ReferencedStays
    <2>2. PICK id : id = docs'[k].profile
      OBVIOUS
    <2>3. docs'[k] = docs[k]
      <3>1. NamesMethod(k, id)'
        BY <2>1, <2>2 DEF NamesMethod
      <3>2. QED
        BY <1>2, <3>1
    <2>4. QED
      BY <2>1, <2>3 DEF ProfilesInv, PR!ReferencedStays
  <1>4. ASSUME NEW q \in Processes PROVE Fenced(q)' /\ SeenFresh(q)' /\ MethodsKept(q)'
    <2>1. Fenced(q) /\ SeenFresh(q) /\ MethodsKept(q)
      BY DEF ProfilesInv
    <2>2. Fenced(q)' /\ SeenFresh(q)'
      BY <1>1, <2>1 DEF Fenced, SeenFresh, PR!At
    <2>3. MethodsKept(q)'
      <3>1. SUFFICES ASSUME PR!At(q, "write"), NEW k \in Jobs, NamesMethod(k, req[q].id)'
                     PROVE  PR!Saved(req[q]) # PR!None /\ docs'[k].method \in DOMAIN PR!Saved(req[q]).methods
        BY <1>1 DEF MethodsKept, PR!At, NamesMethod
      <3>2. NamesMethod(k, req[q].id) /\ docs'[k] = docs[k]
        BY <1>1, <1>2, <3>1
      <3>3. QED
        BY <2>1, <3>1, <3>2 DEF MethodsKept
    <2>4. QED
      BY <2>2, <2>3
  <1>5. ProfilesTyped'
    BY <1>1, <1>2 DEF ProfilesInv, ProfilesTyped
  <1>6. QED
    BY <1>3, <1>4, <1>5 DEF ProfilesInv

LEMMA NothingKeeps ==
  ASSUME ProfilesInv, UNCHANGED <<profiles, docs, fence, jobLock, req>>, runtime' \in Versions
  PROVE  ProfilesInv'
  <1>1. ProfilesTyped' /\ PR!ReferencedStays'
    BY DEF ProfilesInv, ProfilesTyped, PR!ReferencedStays
  <1>2. ASSUME NEW q \in Processes PROVE Fenced(q)' /\ SeenFresh(q)' /\ MethodsKept(q)'
    BY DEF ProfilesInv, Fenced, SeenFresh, MethodsKept, PR!At, NamesMethod
  <1>3. QED
    BY <1>1, <1>2 DEF ProfilesInv

LEMMA ProfilesBegin == PR!ConstantsFit /\ PR!Init => ProfilesInv
  <1> SUFFICES ASSUME PR!ConstantsFit, PR!Init PROVE ProfilesInv
    OBVIOUS
  <1>1. PICK m \in Methods, v \in Versions, i \in Ids :
          profiles = [id \in Ids |-> IF id = i THEN [version |-> 1, methods |-> [x \in {m} |-> 1], least |-> v]
                                     ELSE PR!None]
    BY DEF PR!Init
  <1>2. profiles \in [Ids -> StoredProfiles]
    <2>1. [x \in {m} |-> 1] \in MethodTables
      <3>1. {m} \in SUBSET Methods /\ [x \in {m} |-> 1] \in [{m} -> 1..2]
        OBVIOUS
      <3>2. QED
        BY <3>1 DEF MethodTables
    <2>2. PICK ms : ms = [x \in {m} |-> 1] /\ ms \in MethodTables
      BY <2>1
    <2>3. [version |-> 1, methods |-> ms, least |-> v] \in StoredProfiles
      BY <2>2 DEF StoredProfiles
    <2>4. QED
      BY <1>1, <2>2, <2>3 DEF StoredProfiles
  <1>3. docs \in [Jobs -> JobDocuments]
    BY DEF PR!Init, JobDocuments
  <1>4. /\ fence = [k \in Ids |-> PR!Nobody] /\ jobLock = [j \in Jobs |-> PR!Nobody]
        /\ req = [p \in Processes |-> PR!Idle] /\ runtime \in Versions
    BY DEF PR!Init
  <1>5. ProfilesTyped
    BY <1>2, <1>3, <1>4 DEF ProfilesTyped
  <1>6. PR!ReferencedStays
    <2>1. SUFFICES ASSUME NEW j \in Jobs, docs[j] # PR!None
                   PROVE  /\ profiles[docs[j].profile] # PR!None
                          /\ docs[j].method \in DOMAIN profiles[docs[j].profile].methods
      BY DEF PR!ReferencedStays
    <2>2. PICK k \in Ids : docs[j].profile = k /\ docs[j].method \in DOMAIN profiles[k].methods
      BY <2>1 DEF PR!Init
    <2>3. profiles[k] # PR!None
      <3>1. docs[j].profile \in {h \in Ids : profiles[h] # PR!None}
        BY <2>1 DEF PR!Init
      <3>2. QED
        BY <2>2, <3>1
    <2>4. QED
      BY <2>2, <2>3
  <1>7. \A p \in Processes : Fenced(p) /\ SeenFresh(p) /\ MethodsKept(p)
    BY <1>4 DEF Fenced, SeenFresh, MethodsKept, PR!At, PR!Idle, AskPlaces
  <1>8. QED
    BY <1>5, <1>6, <1>7 DEF ProfilesInv

LEMMA ProfilesInductive == ProfilesInv /\ [PR!Next]_PR!vars => ProfilesInv'
  <1> SUFFICES ASSUME ProfilesInv, [PR!Next]_PR!vars PROVE ProfilesInv'
    OBVIOUS
  <1>1. CASE \E p \in Processes : PR!Step(p)
    <2>1. PICK p \in Processes : PR!Step(p)
      BY <1>1
    <2>2. QED
      BY <2>1, AskKeeps, TakeFenceKeeps, LocksKeep, ReadKeeps, WriteKeeps DEF PR!Step
  <1>2. CASE \E j \in Jobs : PR!SaveJob(j) \/ PR!DeleteJob(j) \/ PR!StopJob(j)
    BY <1>2, JobsKeep
  <1>3. CASE PR!Upgrade \/ UNCHANGED PR!vars
    <2>1. UNCHANGED <<profiles, docs, fence, jobLock, req>> /\ runtime' \in Versions
      BY <1>3 DEF PR!Upgrade, PR!vars, ProfilesInv, ProfilesTyped
    <2>2. QED
      BY <2>1, NothingKeeps
  <1>4. QED
    BY <1>1, <1>2, <1>3 DEF PR!Next

\* While a readable Job document names a Method, its Profile keeps it.
THEOREM ReferencesAreKept == PR!ConstantsFit /\ PR!Spec => []PR!ReferencedStays
  <1>1. ProfilesInv => PR!ReferencedStays
    BY DEF ProfilesInv
  <1>2. QED
    BY <1>1, ProfilesBegin, ProfilesInductive, PTL DEF PR!Spec

\* Two requests on one Profile do not undo one another.
THEOREM EditsCount == PR!ConstantsFit /\ PR!Spec => PR!EveryEditCounts
  <1>1. ASSUME ProfilesInv, [PR!Next]_PR!vars PROVE PR!EditCounts
    <2>1. SUFFICES ASSUME NEW i \in Ids, profiles[i] # PR!None, profiles'[i] # PR!None, profiles'[i] # profiles[i]
                   PROVE  /\ profiles'[i].version = profiles[i].version + 1
                          /\ \A m \in DOMAIN profiles[i].methods :
                               \/ m \in DOMAIN profiles'[i].methods /\ profiles'[i].methods[m] = profiles[i].methods[m]
                               \/ \E p \in Processes : /\ PR!At(p, "write") /\ req'[p] = PR!Idle
                                                       /\ (req[p].op = "updateProfile" \/ req[p].method = m)
      BY DEF PR!EditCounts
    <2>2. PICK p \in Processes : PR!Write(p)
      <3>1. CASE \E p \in Processes : PR!Step(p)
        BY <2>1, <3>1 DEF PR!Step, PR!Ask, PR!TakeFence, PR!LockJobs, PR!LookAgain, PR!States, PR!Read
      <3>2. CASE UNCHANGED profiles
        BY <2>1, <3>2
      <3>3. QED
        BY <1>1, <3>1, <3>2 DEF PR!Next, PR!vars, PR!SaveJob, PR!DeleteJob, PR!StopJob, PR!Upgrade
    <2>3. /\ PR!At(p, "write") /\ req'[p] = PR!Idle /\ i = req[p].id /\ profiles'[i] = PR!Saved(req[p])
      BY <1>1, <2>1, <2>2 DEF PR!Write, PR!Release, ProfilesInv, ProfilesTyped
    <2>4. /\ req[p].seen = profiles[i] /\ req[p].op # "createProfile" /\ req[p].op # "deleteProfile"
          /\ req[p].op \in PR!Guarded \cup {"deleteProfile", "deleteMethod"}
      <3>1. req[p].op \in PR!Guarded \cup {"deleteProfile", "deleteMethod"}
        BY <1>1, <2>3, AskedFields DEF ProfilesInv, PR!At, AskPlaces
      <3>2. req[p].seen = profiles[i] /\ req[p].op # "createProfile"
        BY <1>1, <2>1, <2>3 DEF ProfilesInv, SeenFresh
      <3>3. req[p].op # "deleteProfile"
        BY <2>1, <2>3 DEF PR!Saved
      <3>4. QED
        BY <3>1, <3>2, <3>3
    <2>5. CASE req[p].op = "updateProfile"
      <3>1. PR!Saved(req[p]).version = req[p].seen.version + 1
        BY <2>5 DEF PR!Saved
      <3>2. QED
        BY <2>3, <2>4, <2>5, <3>1
    <2>6. CASE req[p].op \in {"createMethod", "updateMethod"}
      <3>1. PICK ms : ms = [k \in DOMAIN req[p].seen.methods \cup {req[p].method} |->
                             IF k = req[p].method THEN req[p].body ELSE req[p].seen.methods[k]]
        OBVIOUS
      <3>2. PR!Saved(req[p]).version = req[p].seen.version + 1 /\ PR!Saved(req[p]).methods = ms
        BY <2>6, <3>1 DEF PR!Saved
      <3>3. ASSUME NEW m \in DOMAIN profiles[i].methods, req[p].method # m
            PROVE  m \in DOMAIN ms /\ ms[m] = profiles[i].methods[m]
        BY <2>4, <3>1, <3>3
      <3>4. QED
        BY <2>3, <2>4, <3>2, <3>3
    <2>7. CASE req[p].op = "deleteMethod"
      <3>1. PICK ms : ms = [k \in DOMAIN req[p].seen.methods \ {req[p].method} |-> req[p].seen.methods[k]]
        OBVIOUS
      <3>2. PR!Saved(req[p]).version = req[p].seen.version + 1 /\ PR!Saved(req[p]).methods = ms
        BY <2>7, <3>1 DEF PR!Saved
      <3>3. ASSUME NEW m \in DOMAIN profiles[i].methods, req[p].method # m
            PROVE  m \in DOMAIN ms /\ ms[m] = profiles[i].methods[m]
        BY <2>4, <3>1, <3>3
      <3>4. QED
        BY <2>3, <2>4, <3>2, <3>3
    <2>8. QED
      BY <2>4, <2>5, <2>6, <2>7 DEF PR!Guarded
  <1>2. QED
    BY <1>1, ProfilesBegin, ProfilesInductive, PTL DEF PR!Spec, PR!EveryEditCounts

\* The order of versions is transitive, so an upgrade leaves what was usable usable.
THEOREM UpgradeIsSafe == PR!ConstantsFit /\ PR!Spec => PR!UpgradeKeepsCompatible
  <1>1. ASSUME ProfilesInv, [PR!Next]_PR!vars PROVE PR!StaysCompatible
    <2>1. SUFFICES ASSUME NEW i \in Ids, profiles[i] # PR!None, PR!Compatible(i), profiles' = profiles
                   PROVE  PR!Compatible(i)'
      BY DEF PR!StaysCompatible
    <2>2. PICK least : least = profiles[i].least /\ least \in PR!SemVers /\ PR!Compare(least, runtime) <= 0
      BY <1>1, <2>1 DEF PR!Compatible, ProfilesInv, ProfilesTyped, StoredProfiles, PR!ConstantsFit
    <2>3. PR!Compare(least, runtime') <= 0
      <3>1. CASE PR!Upgrade
        <4>1. PICK v \in Versions : PR!Compare(runtime, v) < 0 /\ runtime' = v
          BY <3>1 DEF PR!Upgrade
        <4>2. runtime \in PR!SemVers /\ v \in PR!SemVers
          BY <1>1 DEF ProfilesInv, ProfilesTyped, PR!ConstantsFit
        <4>3. QED
          BY <2>2, <4>1, <4>2, VersionsOrdered
      <3>2. CASE ~PR!Upgrade
        <4>1. runtime' = runtime
          BY <1>1, <3>2 DEF PR!Next, PR!vars, PR!Step, PR!Ask, PR!TakeFence, PR!LockJobs, PR!LookAgain, PR!States, PR!Read, PR!Write,
                            PR!shop, PR!SaveJob, PR!DeleteJob, PR!StopJob
        <4>2. QED
          BY <2>2, <4>1
      <3>3. QED
        BY <3>1, <3>2
    <2>4. QED
      BY <2>1, <2>2, <2>3 DEF PR!Compatible
  <1>2. QED
    BY <1>1, ProfilesBegin, ProfilesInductive, PTL DEF PR!Spec, PR!UpgradeKeepsCompatible

-----------------------------------------------------------------------------
(***************************************************************************)
(* ViewerApi, for any Jobs, servers, Tags, windows and sizes of a page,    *)
(* any number of edits and stored rows: a walk stays in the table that was *)
(* asked for, and its pages together hold every row that was there.        *)
(***************************************************************************)
CONSTANTS Products, StoredJobs, StoredServers, Normal, Catalogs, NameLists, Sizes, Windows, Limits,
          MaxAt, MaxEdits
VARIABLES shapes, job, server, stored, walk, listing, edits
VA == INSTANCE ViewerApi WITH Documents <- StoredJobs, Servers <- StoredServers

-----------------------------------------------------------------------------
(* A walk as a value, and the rows of its pages                              *)

Counts == [VA!Tags -> Nat]
Spelt  == {Normal[s] : s \in DOMAIN Normal}
Pages  == [table : VA!Tables, rows : SUBSET [tag : VA!Tags, at : Int]]
Walks  == [is : {"asked", "checked", "query", "shown"}, kind : {"page", "chart"}, ask : StoredJobs,
           names : SUBSET VA!Tags, latest : BOOLEAN, size : Nat \ {0}, lo : Int, hi : Int, page : Nat,
           source : {VA!Nothing} \cup [table : VA!Tables, value : Spelt, text : Spelt], pages : Seq(Pages), more : BOOLEAN,
           before : [VA!Tables -> Counts], quiet : BOOLEAN]

Table(w)     == Normal[w.ask.table]
Below(a, b)  == \A tag \in VA!Tags : a[tag] <= b[tag]
In(w, n)     == {at \in 1..n : w.lo <= at /\ at <= w.hi}
Low(w)       == IF w.lo > 1 THEN w.lo ELSE 1
High(w, n)   == IF w.hi < n THEN w.hi ELSE n
PlaceOf(w, at, n) == IF w.latest THEN High(w, n) - at ELSE at - Low(w)
All(w, c)    == UNION {{VA!Row(tag, at) : at \in In(w, c[tag])} : tag \in w.names}
Slice(w, p, c) ==
  UNION {{VA!Row(tag, at) : at \in {a \in In(w, c[tag]) : /\ p * w.size <= PlaceOf(w, a, c[tag])
                                                         /\ PlaceOf(w, a, c[tag]) < p * w.size + w.size}}
           : tag \in w.names}
Full(w, p, c) ==
  \A tag \in w.names : \A at \in In(w, c[tag]) : PlaceOf(w, at, c[tag]) # p * w.size + w.size

\* The rows of the Tags when each page was read: they only get more.
History(w, st, c) ==
  /\ c \in [DOMAIN w.pages -> Counts]
  /\ \A i \in DOMAIN c : Below(w.before[Table(w)], c[i]) /\ Below(c[i], st)
  /\ \A i, j \in DOMAIN c : i <= j => Below(c[i], c[j])
  /\ \A i \in DOMAIN c : w.pages[i].table = Table(w) /\ w.pages[i].rows = Slice(w, i - 1, c[i])
  /\ w.is = "shown" /\ ~w.more => Full(w, w.page, c[w.page + 1])

Charted(w, st, c) ==
  /\ c \in Counts /\ Below(w.before[Table(w)], c) /\ Below(c, st)
  /\ w.pages[1].table = Table(w) /\ w.pages[1].rows = All(w, c)

Placed(w) == w.is \in {"checked", "query", "shown"} =>
  w.source # VA!Nothing /\ w.source.table = Table(w) /\ Table(w) \in VA!Tables
RowsKept(w, st) == Table(w) \in VA!Tables => Below(w.before[Table(w)], st) /\ (w.quiet => w.before[Table(w)] = st)
Paging(w, st) == w.kind = "page" =>
  /\ w.is # "query" /\ w.page <= Len(w.pages) /\ (w.is = "shown" => Len(w.pages) = w.page + 1)
  /\ w.pages # << >> => Table(w) \in VA!Tables
  /\ \E c : History(w, st, c)
Charting(w, st) == w.kind = "chart" =>
  /\ w.page = 0 /\ ~w.more
  /\ IF w.is = "shown" THEN Len(w.pages) = 1 /\ \E c : Charted(w, st, c) ELSE w.pages = << >>
Walking(w, st) == w \in Walks /\ Placed(w) /\ RowsKept(w, st) /\ Paging(w, st) /\ Charting(w, st)

Away == walk.is \in {"idle", "refused"}
ViewerTyped == /\ job \in StoredJobs \cup {VA!Nothing} /\ server \in StoredServers \cup {VA!Nothing}
         /\ stored \in [VA!Tables -> Counts]
ViewerInv  == VA!ConstantsFit /\ ViewerTyped /\ (~Away => Walking(walk, stored[Table(walk)]))

-----------------------------------------------------------------------------
LEMMA PageIs ==
  ASSUME walk \in Walks, NEW c \in Counts
  PROVE  /\ VA!PageRows(c) = Slice(walk, walk.page, c)
         /\ ~VA!HasMore(c) => Full(walk, walk.page, c)
  <1>1. PICK w : w = walk /\ w \in Walks
    OBVIOUS
  <1>2. PICK off : off = w.page * w.size /\ off \in Nat
    <2>1. w.page \in Nat /\ w.size \in Nat
      BY <1>1 DEF Walks
    <2>2. w.page * w.size \in Nat
      BY <2>1
    <2>3. QED
      BY <2>2
  <1>3. VA!Offset = off /\ w.size \in Nat \ {0} /\ w.lo \in Int /\ w.hi \in Int /\ w.names \subseteq VA!Tags
    BY <1>1, <1>2 DEF VA!Offset, Walks
  <1>4. ASSUME NEW tag \in w.names
        PROVE  /\ VA!Within(tag, c) = In(w, c[tag])
               /\ \A at \in In(w, c[tag]) : VA!Place(tag, at, c) = PlaceOf(w, at, c[tag]) /\ PlaceOf(w, at, c[tag]) \in Int
    <2>1. c[tag] \in Nat
      BY <1>3 DEF Counts
    <2>2. VA!Within(tag, c) = In(w, c[tag])
      BY <1>1 DEF VA!Within, In
    <2>3. ASSUME NEW at \in In(w, c[tag])
          PROVE  VA!Place(tag, at, c) = PlaceOf(w, at, c[tag]) /\ PlaceOf(w, at, c[tag]) \in Int
      <3>1. at \in Int
        BY DEF In
      <3>2. VA!Place(tag, at, c) = PlaceOf(w, at, c[tag])
        BY <1>1 DEF VA!Place, PlaceOf, VA!Newest, VA!Oldest, Low, High
      <3>3. QED
        BY <1>3, <2>1, <3>1, <3>2 DEF PlaceOf, Low, High
    <2>4. QED
      BY <2>2, <2>3
  <1>5. ASSUME NEW tag \in w.names
        PROVE  /\ {a \in VA!Fetched(tag, c) : VA!Place(tag, a, c) # VA!Offset + w.size}
                    = {a \in In(w, c[tag]) : off <= PlaceOf(w, a, c[tag]) /\ PlaceOf(w, a, c[tag]) < off + w.size}
               /\ \A at \in In(w, c[tag]) : PlaceOf(w, at, c[tag]) = off + w.size => at \in VA!Fetched(tag, c)
    <2>1. ASSUME NEW a \in In(w, c[tag])
          PROVE  /\ a \in VA!Fetched(tag, c) <=> PlaceOf(w, a, c[tag]) \in off..off + w.size
                 /\ VA!Place(tag, a, c) = PlaceOf(w, a, c[tag]) /\ PlaceOf(w, a, c[tag]) \in Int
      BY <1>1, <1>3, <1>4 DEF VA!Fetched
    <2>2. VA!Fetched(tag, c) \subseteq In(w, c[tag])
      BY <1>4 DEF VA!Fetched
    <2>3. QED
      BY <1>2, <1>3, <2>1, <2>2
  <1>6. VA!PageRows(c) =
          UNION {{VA!Row(tag, at) : at \in {a \in VA!Fetched(tag, c) : VA!Place(tag, a, c) # VA!Offset + w.size}}
                   : tag \in w.names}
    BY <1>1 DEF VA!PageRows
  <1>7. VA!PageRows(c) = Slice(w, w.page, c)
    BY <1>2, <1>5, <1>6 DEF Slice
  <1>8. ASSUME NEW tag \in w.names, NEW at \in In(w, c[tag]), PlaceOf(w, at, c[tag]) = off + w.size
        PROVE  VA!HasMore(c)
    BY <1>1, <1>3, <1>4, <1>5, <1>8 DEF VA!HasMore
  <1>9. QED
    BY <1>1, <1>2, <1>7, <1>8 DEF Full

\* The parts of a walk.
LEMMA WalkFields ==
  ASSUME NEW w \in Walks
  PROVE  DOMAIN w = {"is", "kind", "ask", "names", "latest", "size", "lo", "hi", "page", "source", "pages", "more",
                     "before", "quiet"}
  BY DEF Walks

\* What a page may hold.
LEMMA SliceIs ==
  ASSUME NEW w \in Walks, NEW c \in Counts, NEW p
  PROVE  Slice(w, p, c) \in SUBSET [tag : VA!Tags, at : Int] /\ All(w, c) \in SUBSET [tag : VA!Tags, at : Int]
  BY DEF Slice, All, In, VA!Row, Walks

\* What a step of a walk leaves alone.
Same(v, w) == /\ v.ask = w.ask /\ v.kind = w.kind /\ v.names = w.names /\ v.latest = w.latest /\ v.size = w.size
              /\ v.lo = w.lo /\ v.hi = w.hi /\ v.before = w.before

LEMMA SameRows ==
  ASSUME NEW v, NEW w, Same(v, w)
  PROVE  /\ Table(v) = Table(w)
         /\ \A p, c : Slice(v, p, c) = Slice(w, p, c) /\ All(v, c) = All(w, c) /\ (Full(v, p, c) <=> Full(w, p, c))
  BY DEF Same, Table, Slice, All, Full, In, PlaceOf, Low, High

LEMMA BelowTrans ==
  ASSUME NEW a \in Counts, NEW b \in Counts, NEW c \in Counts, Below(a, b), Below(b, c)
  PROVE  Below(a, c)
  <1>1. ASSUME NEW tag \in VA!Tags PROVE a[tag] <= c[tag]
    <2>1. a[tag] \in Nat /\ b[tag] \in Nat /\ c[tag] \in Nat
      BY DEF Counts
    <2>2. a[tag] <= b[tag] /\ b[tag] <= c[tag]
      BY DEF Below
    <2>3. QED
      BY <2>1, <2>2
  <1>2. QED
    BY <1>1 DEF Below

LEMMA BelowSelf ==
  ASSUME NEW a \in Counts
  PROVE  Below(a, a)
  <1>1. \A tag \in VA!Tags : a[tag] \in Nat
    BY DEF Counts
  <1>2. QED
    BY <1>1 DEF Below

\* Pages that were shown stay what they are while more rows are stored.
LEMMA HistoryStays ==
  ASSUME NEW w, NEW v, Same(v, w), v.pages = w.pages, NEW st \in Counts, NEW st2 \in Counts, Below(st, st2),
         NEW c, History(w, st, c),
         v.is = "shown" => w.is = "shown" /\ v.page = w.page /\ v.more = w.more
  PROVE  History(v, st2, c)
  <1>1. Table(v) = Table(w) /\ \A p, k : Slice(v, p, k) = Slice(w, p, k) /\ (Full(v, p, k) <=> Full(w, p, k))
    BY SameRows
  <1>2. ASSUME NEW i \in DOMAIN c PROVE Below(c[i], st2)
    <2>1. c[i] \in Counts /\ Below(c[i], st)
      BY DEF History
    <2>2. QED
      BY <2>1, BelowTrans
  <1>3. v.before = w.before
    BY DEF Same
  <1>4. QED
    BY <1>1, <1>2, <1>3 DEF History

LEMMA ChartedStays ==
  ASSUME NEW w, NEW v, Same(v, w), v.pages = w.pages, NEW st \in Counts, NEW st2 \in Counts, Below(st, st2),
         NEW c, Charted(w, st, c)
  PROVE  Charted(v, st2, c)
  <1>1. Table(v) = Table(w) /\ All(v, c) = All(w, c) /\ v.before = w.before
    BY SameRows DEF Same
  <1>2. Below(c, st2)
    BY BelowTrans DEF Charted
  <1>3. QED
    BY <1>1, <1>2 DEF Charted

\* A page is read: it replaces what later pages showed.
LEMMA PageRead ==
  ASSUME NEW w, NEW st \in Counts, Walking(w, st), w.is = "checked", w.kind = "page", NEW m \in BOOLEAN,
         ~m => Full(w, w.page, st),
         NEW v, v = [w EXCEPT !.is = "shown", !.more = m,
                       !.pages = Append(SubSeq(w.pages, 1, w.page), [table |-> Table(w), rows |-> Slice(w, w.page, st)])]
  PROVE  Walking(v, st)
  <1>1. w \in Walks /\ Table(w) \in VA!Tables /\ w.page \in Nat /\ w.page <= Len(w.pages) /\ w.pages \in Seq(Pages)
    BY DEF Walking, Walks, Placed, Paging
  <1>2. PICK new : new = [table |-> Table(w), rows |-> Slice(w, w.page, st)] /\ new \in Pages
    <2>1. PICK rs : rs = Slice(w, w.page, st) /\ rs \in SUBSET [tag : VA!Tags, at : Int]
      BY <1>1, SliceIs
    <2>2. [table |-> Table(w), rows |-> rs] \in Pages
      BY <1>1, <2>1 DEF Pages
    <2>3. QED
      BY <2>1, <2>2
  <1>3. PICK ps : ps = Append(SubSeq(w.pages, 1, w.page), new)
    OBVIOUS
  <1>4. /\ ps \in Seq(Pages) /\ Len(ps) = w.page + 1 /\ ps[w.page + 1] = new
        /\ DOMAIN ps = 1..w.page + 1 /\ \A i \in 1..w.page : ps[i] = w.pages[i] /\ i \in DOMAIN w.pages
    BY <1>1, <1>2, <1>3
  <1>5. /\ v.is = "shown" /\ v.more = m /\ v.pages = ps /\ v.page = w.page /\ v.source = w.source /\ v.quiet = w.quiet
        /\ Same(v, w) /\ v \in Walks
    <2>1. v = [w EXCEPT !.is = "shown", !.more = m, !.pages = ps]
      BY <1>2, <1>3
    <2>2. v \in Walks
      BY <1>1, <1>2, <1>3, <1>4 DEF Walks
    <2>3. v.is = "shown" /\ v.more = m /\ v.pages = ps
      BY <1>1, <2>1, WalkFields
    <2>4. v.page = w.page /\ v.source = w.source /\ v.quiet = w.quiet /\ Same(v, w)
      BY <1>1, <2>1, WalkFields DEF Same
    <2>5. QED
      BY <2>2, <2>3, <2>4
  <1>6. Table(v) = Table(w) /\ \A p, k : Slice(v, p, k) = Slice(w, p, k) /\ (Full(v, p, k) <=> Full(w, p, k))
    BY <1>5, SameRows
  <1>7. Placed(v) /\ RowsKept(v, st) /\ Charting(v, st)
    BY <1>1, <1>5, <1>6 DEF Walking, Placed, RowsKept, Charting, Same
  <1>8. PICK c : History(w, st, c)
    BY DEF Walking, Paging
  <1>9. PICK d : d = [i \in 1..w.page + 1 |-> IF i = w.page + 1 THEN st ELSE c[i]]
    OBVIOUS
  <1>10. History(v, st, d)
    <2>1. \A i \in 1..w.page : d[i] = c[i] /\ i \in DOMAIN c /\ c[i] \in Counts
      BY <1>1, <1>4, <1>8, <1>9 DEF History
    <2>2. d[w.page + 1] = st /\ DOMAIN d = DOMAIN v.pages /\ DOMAIN d = 1..w.page + 1 /\ d \in [DOMAIN v.pages -> Counts]
      <3>1. \A i \in 1..w.page + 1 : i \in 1..w.page \/ i = w.page + 1
        BY <1>1
      <3>2. \A i \in 1..w.page + 1 : d[i] \in Counts
        BY <1>9, <2>1, <3>1
      <3>3. DOMAIN d = 1..w.page + 1 /\ DOMAIN v.pages = 1..w.page + 1 /\ w.page + 1 \in 1..w.page + 1
        BY <1>1, <1>4, <1>5, <1>9
      <3>4. d \in [DOMAIN v.pages -> Counts]
        BY <1>9, <3>2, <3>3
      <3>5. QED
        BY <1>9, <3>3, <3>4
    <2>3. \A i \in DOMAIN d : i \in 1..w.page \/ i = w.page + 1
      BY <1>1, <2>2
    <2>4. Below(w.before[Table(w)], st) /\ Below(st, st)
      BY <1>1, BelowSelf DEF Walking, RowsKept
    <2>5. ASSUME NEW i \in DOMAIN d
          PROVE  /\ Below(v.before[Table(v)], d[i]) /\ Below(d[i], st)
                 /\ v.pages[i].table = Table(v) /\ v.pages[i].rows = Slice(v, i - 1, d[i])
      <3>1. v.before[Table(v)] = w.before[Table(w)]
        BY <1>5, <1>6 DEF Same
      <3>2. CASE i \in 1..w.page
        <4>1. d[i] = c[i] /\ i \in DOMAIN c /\ v.pages[i] = w.pages[i]
          BY <1>4, <1>5, <2>1, <3>2
        <4>2. /\ Below(w.before[Table(w)], c[i]) /\ Below(c[i], st)
              /\ w.pages[i].table = Table(w) /\ w.pages[i].rows = Slice(w, i - 1, c[i])
          BY <1>8, <4>1 DEF History
        <4>3. QED
          BY <1>6, <3>1, <4>1, <4>2
      <3>3. CASE i = w.page + 1
        <4>1. i - 1 = w.page
          BY <1>1, <3>3
        <4>2. v.pages[i] = new
          BY <1>4, <1>5, <3>3
        <4>3. QED
          BY <1>2, <1>6, <2>2, <2>4, <3>1, <3>3, <4>1, <4>2
      <3>4. QED
        BY <2>3, <3>2, <3>3
    <2>6. ASSUME NEW i \in DOMAIN d, NEW j \in DOMAIN d, i <= j PROVE Below(d[i], d[j])
      <3>1. CASE j = w.page + 1
        BY <2>2, <2>5, <3>1
      <3>2. CASE j \in 1..w.page
        <4>1. i \in 1..w.page
          BY <1>1, <2>2, <2>6, <3>2
        <4>2. QED
          BY <1>8, <2>1, <2>6, <3>2, <4>1 DEF History
      <3>3. QED
        BY <2>3, <3>1, <3>2
    <2>7. ~v.more => Full(v, v.page, d[v.page + 1])
      BY <1>5, <1>6, <2>2
    <2>8. QED
      BY <2>2, <2>5, <2>6, <2>7 DEF History
  <1>11. Paging(v, st)
    <2>1. w.pages # << >> \/ v.pages # << >> => Table(v) \in VA!Tables
      BY <1>1, <1>6
    <2>2. QED
      BY <1>1, <1>4, <1>5, <1>10, <2>1 DEF Paging
  <1>12. QED
    BY <1>5, <1>7, <1>11 DEF Walking

LEMMA ChartRead ==
  ASSUME NEW w, NEW st \in Counts, Walking(w, st), w.is = "query",
         NEW v, v = [w EXCEPT !.is = "shown", !.pages = <<[table |-> Table(w), rows |-> All(w, st)]>>]
  PROVE  Walking(v, st)
  <1>1. w \in Walks /\ Table(w) \in VA!Tables /\ w.kind = "chart" /\ w.page = 0 /\ ~w.more /\ w.source # VA!Nothing
    BY DEF Walking, Walks, Placed, Paging, Charting
  <1>2. PICK new : new = [table |-> Table(w), rows |-> All(w, st)] /\ new \in Pages
    <2>1. PICK rs : rs = All(w, st) /\ rs \in SUBSET [tag : VA!Tags, at : Int]
      BY <1>1, SliceIs
    <2>2. [table |-> Table(w), rows |-> rs] \in Pages
      BY <1>1, <2>1 DEF Pages
    <2>3. QED
      BY <2>1, <2>2
  <1>3. PICK ps : ps = <<new>> /\ ps \in Seq(Pages) /\ Len(ps) = 1 /\ ps[1] = new
    <2>1. <<new>> \in Seq(Pages)
      BY <1>2
    <2>2. Len(<<new>>) = 1 /\ <<new>>[1] = new
      OBVIOUS
    <2>3. QED
      BY <2>1, <2>2
  <1>4. /\ v.is = "shown" /\ v.pages = ps /\ v.page = w.page /\ v.source = w.source /\ v.quiet = w.quiet
        /\ v.more = w.more /\ Same(v, w) /\ v \in Walks
    BY <1>1, <1>2, <1>3 DEF Walks, Same
  <1>5. Table(v) = Table(w) /\ All(v, st) = All(w, st)
    BY <1>4, SameRows
  <1>6. Placed(v) /\ RowsKept(v, st) /\ Paging(v, st)
    BY <1>1, <1>4, <1>5 DEF Walking, Placed, RowsKept, Paging, Same
  <1>7. Charted(v, st, st)
    <2>1. Below(st, st) /\ Below(w.before[Table(w)], st)
      BY <1>1, BelowSelf DEF Walking, RowsKept
    <2>2. QED
      BY <1>2, <1>3, <1>4, <1>5, <2>1 DEF Charted, Same
  <1>8. Charting(v, st)
    BY <1>1, <1>3, <1>4, <1>7 DEF Charting
  <1>9. QED
    BY <1>4, <1>6, <1>8 DEF Walking

-----------------------------------------------------------------------------
(* What the pages of a walk show together                                    *)

\* The bounds of a window.
LEMMA LowHigh ==
  ASSUME NEW w, w.lo \in Int, w.hi \in Int
  PROVE  /\ Low(w) \in Nat /\ 1 <= Low(w) /\ w.lo <= Low(w) /\ (Low(w) = 1 \/ Low(w) = w.lo)
         /\ \A n \in Nat : /\ High(w, n) \in Int /\ High(w, n) <= n /\ High(w, n) <= w.hi
                           /\ High(w, n) = n \/ High(w, n) = w.hi
  <1>1. PICK lo, hi : lo = w.lo /\ hi = w.hi /\ lo \in Int /\ hi \in Int
    OBVIOUS
  <1>2. Low(w) = IF lo > 1 THEN lo ELSE 1
    BY <1>1 DEF Low
  <1>3. ASSUME NEW n \in Nat PROVE High(w, n) = IF hi < n THEN hi ELSE n
    BY <1>1 DEF High
  <1>4. QED
    BY <1>1, <1>2, <1>3

\* A row that was there at the start is on one of the pages: the first one that
\* ends beyond the row's place, which only moves back while rows are stored.
LEMMA EveryRowShown ==
  ASSUME NEW w, NEW st \in Counts, Walking(w, st), w.is = "shown", w.kind = "page", ~w.more, Table(w) \in VA!Tables,
         NEW tag \in w.names, NEW at \in In(w, w.before[Table(w)][tag])
  PROVE  \E i \in DOMAIN w.pages : VA!Row(tag, at) \in w.pages[i].rows
  <1>1. /\ w \in Walks /\ w.size \in Nat \ {0} /\ w.page \in Nat /\ Len(w.pages) = w.page + 1
        /\ w.pages \in Seq(Pages) /\ w.lo \in Int /\ w.hi \in Int /\ tag \in VA!Tags
    BY DEF Walking, Walks, Paging
  <1>2. PICK c : History(w, st, c)
    BY DEF Walking, Paging
  <1>3. PICK n : n = w.before[Table(w)][tag] /\ n \in Nat
    BY <1>1 DEF Walks, Counts
  <1>4. /\ DOMAIN c = DOMAIN w.pages /\ DOMAIN c = 1..w.page + 1
        /\ \A i \in DOMAIN c : c[i][tag] \in Nat /\ n <= c[i][tag]
        /\ \A i, j \in DOMAIN c : i <= j => c[i][tag] <= c[j][tag]
    BY <1>1, <1>2, <1>3 DEF History, Below, Counts
  <1>5. \A i \in DOMAIN c : at \in In(w, c[i][tag])
    BY <1>3, <1>4 DEF In
  <1>6. PICK f : f = [i \in DOMAIN c |-> PlaceOf(w, at, c[i][tag])]
    OBVIOUS
  <1>7. at \in Nat /\ 1 <= at /\ w.lo <= at /\ at <= w.hi /\ at <= n
    BY <1>3 DEF In
  <1>8. \A e, g \in Nat : n <= e /\ e <= g => PlaceOf(w, at, e) \in Nat /\ PlaceOf(w, at, e) <= PlaceOf(w, at, g)
    <2>1. ASSUME NEW e \in Nat, NEW g \in Nat, n <= e, e <= g
          PROVE  PlaceOf(w, at, e) \in Nat /\ PlaceOf(w, at, e) <= PlaceOf(w, at, g)
      <3>1. /\ High(w, e) \in Int /\ High(w, g) \in Int /\ at <= High(w, e) /\ High(w, e) <= High(w, g)
            /\ Low(w) \in Int /\ Low(w) <= at
        <4>1. PICK lo, hi : lo = w.lo /\ hi = w.hi /\ lo \in Int /\ hi \in Int
          BY <1>1
        <4>2. /\ High(w, e) = IF hi < e THEN hi ELSE e
              /\ High(w, g) = IF hi < g THEN hi ELSE g
              /\ Low(w) = IF lo > 1 THEN lo ELSE 1
          BY <4>1 DEF High, Low
        <4>3. lo <= at /\ at <= hi /\ at <= n /\ 1 <= at /\ n \in Nat /\ at \in Nat
          BY <1>3, <1>7, <4>1
        <4>4. QED
          BY <2>1, <4>1, <4>2, <4>3
      <3>2. QED
        BY <1>7, <3>1 DEF PlaceOf
    <2>2. QED
      BY <2>1
  <1>9. (\A i \in DOMAIN c : f[i] \in Nat) /\ \A i, j \in DOMAIN c : i <= j => f[i] <= f[j]
    <2>1. \A e \in Nat : e <= e
      OBVIOUS
    <2>2. QED
      BY <1>4, <1>6, <1>8, <2>1
  <1>10. f[w.page + 1] < w.page * w.size + w.size
    <2>1. PICK k : k = w.page * w.size + w.size /\ k \in Nat
      <3>1. w.page * w.size \in Nat
        BY <1>1
      <3>2. QED
        BY <1>1, <3>1
    <2>2. PICK e : e = c[w.page + 1][tag] /\ e \in Nat /\ n <= e
      BY <1>1, <1>4
    <2>3. Full(w, w.page, c[w.page + 1])
      BY <1>2 DEF History
    <2>4. f[w.page + 1] = PlaceOf(w, at, e) /\ PlaceOf(w, at, e) \in Nat
      <3>1. w.page + 1 \in DOMAIN c
        BY <1>1, <1>4
      <3>2. f[w.page + 1] = PlaceOf(w, at, e)
        BY <1>6, <2>2, <3>1
      <3>3. QED
        BY <1>9, <3>1, <3>2
    <2>5. ASSUME PlaceOf(w, at, e) >= k PROVE FALSE
      <3>1. CASE w.latest
        <4>1. PICK b : b = High(w, e) - k
          OBVIOUS
        <4>2. b \in In(w, e) /\ PlaceOf(w, b, e) = k
          <5>1. High(w, e) - at >= k /\ High(w, e) \in Int /\ High(w, e) <= e /\ High(w, e) <= w.hi
            BY <1>1, <2>2, <2>5, <3>1, LowHigh DEF PlaceOf
          <5>2. b \in 1..e /\ w.lo <= b /\ b <= w.hi
            <6>1. PICK lo, hi : lo = w.lo /\ hi = w.hi /\ lo \in Int /\ hi \in Int
              BY <1>1
            <6>2. lo <= at /\ 1 <= at /\ at \in Nat /\ k \in Nat /\ e \in Nat
              BY <1>7, <2>1, <2>2, <6>1
            <6>3. b \in Int /\ at <= b /\ b <= High(w, e)
              BY <4>1, <5>1, <6>2
            <6>4. QED
              BY <5>1, <6>1, <6>2, <6>3
          <5>3. PlaceOf(w, b, e) = k
            BY <2>1, <3>1, <4>1, <5>1 DEF PlaceOf
          <5>4. QED
            BY <5>2, <5>3 DEF In
        <4>3. QED
          BY <2>1, <2>2, <2>3, <4>2 DEF Full
      <3>2. CASE ~w.latest
        <4>1. PICK b : b = Low(w) + k
          OBVIOUS
        <4>2. b \in In(w, e) /\ PlaceOf(w, b, e) = k
          <5>1. at - Low(w) >= k /\ Low(w) \in Nat /\ 1 <= Low(w) /\ w.lo <= Low(w)
            BY <1>1, <2>5, <3>2, LowHigh DEF PlaceOf
          <5>2. b \in 1..e /\ w.lo <= b /\ b <= w.hi
            <6>1. PICK lo, hi : lo = w.lo /\ hi = w.hi /\ lo \in Int /\ hi \in Int
              BY <1>1
            <6>2. at <= hi /\ at <= n /\ n <= e /\ n \in Nat /\ at \in Nat /\ k \in Nat /\ e \in Nat
              BY <1>3, <1>7, <2>1, <2>2, <6>1
            <6>3. b \in Int /\ b <= at /\ Low(w) <= b
              BY <4>1, <5>1, <6>2
            <6>4. b \in 1..e /\ b <= hi
              BY <5>1, <6>1, <6>2, <6>3
            <6>5. lo <= b
              BY <5>1, <6>1, <6>3
            <6>6. QED
              BY <6>1, <6>4, <6>5
          <5>3. PlaceOf(w, b, e) = k
            BY <2>1, <3>2, <4>1, <5>1 DEF PlaceOf
          <5>4. QED
            BY <5>2, <5>3 DEF In
        <4>3. QED
          BY <2>1, <2>2, <2>3, <4>2 DEF Full
      <3>3. QED
        BY <3>1, <3>2
    <2>6. QED
      BY <2>1, <2>4, <2>5
  <1>11. PICK S : S = {i \in DOMAIN c : f[i] < (i - 1) * w.size + w.size}
    OBVIOUS
  <1>12. S \in SUBSET Nat /\ S # {}
    <2>1. w.page + 1 \in DOMAIN c /\ (w.page + 1) - 1 = w.page
      BY <1>1, <1>4
    <2>2. QED
      BY <1>4, <1>10, <1>11, <2>1
  <1>13. PICK i \in S : \A k \in S : i <= k
    BY <1>12, FirstPlace
  <1>14. i \in DOMAIN c /\ i \in Nat /\ 1 <= i /\ i <= w.page + 1 /\ f[i] < (i - 1) * w.size + w.size
    BY <1>1, <1>4, <1>11, <1>13
  <1>15. (i - 1) * w.size <= f[i]
    <2>1. CASE i = 1
      BY <1>1, <1>9, <1>14, <2>1
    <2>2. CASE i # 1
      <3>1. PICK h : h = i - 1 /\ h \in DOMAIN c /\ h \in Nat /\ h < i
        BY <1>1, <1>4, <1>14, <2>2
      <3>2. ~(f[h] < (h - 1) * w.size + w.size)
        BY <1>11, <1>13, <1>14, <3>1
      <3>3. (h - 1) * w.size + w.size = h * w.size /\ h * w.size \in Nat
        BY <1>1, <3>1
      <3>4. f[h] <= f[i] /\ f[h] \in Nat /\ f[i] \in Nat
        BY <1>9, <1>14, <3>1
      <3>5. QED
        BY <3>1, <3>2, <3>3, <3>4
    <2>3. QED
      BY <2>1, <2>2
  <1>16. PlaceOf(w, at, c[i][tag]) = f[i] /\ at \in In(w, c[i][tag])
    BY <1>5, <1>6, <1>14
  <1>17. VA!Row(tag, at) \in Slice(w, i - 1, c[i])
    <2>1. PICK p : p = i - 1
      OBVIOUS
    <2>2. /\ at \in In(w, c[i][tag]) /\ p * w.size <= PlaceOf(w, at, c[i][tag])
          /\ PlaceOf(w, at, c[i][tag]) < p * w.size + w.size
      BY <1>14, <1>15, <1>16, <2>1
    <2>3. VA!Row(tag, at) \in Slice(w, p, c[i])
      BY <2>2 DEF Slice
    <2>4. QED
      BY <2>1, <2>3
  <1>18. QED
    BY <1>2, <1>4, <1>14, <1>17 DEF History

\* Of two pages, the places of one end where those of the other begin.
LEMMA NoRowTwice ==
  ASSUME NEW w, NEW st \in Counts, Walking(w, st), w.kind = "page", w.pages # << >>, w.quiet \/ ~w.latest,
         NEW i \in DOMAIN w.pages, NEW j \in DOMAIN w.pages, i < j
  PROVE  w.pages[i].rows \cap w.pages[j].rows = {}
  <1>1. /\ w \in Walks /\ w.size \in Nat \ {0} /\ w.pages \in Seq(Pages) /\ w.lo \in Int /\ w.hi \in Int
        /\ w.names \subseteq VA!Tags /\ Table(w) \in VA!Tables
    BY DEF Walking, Walks, Paging
  <1>2. PICK c : History(w, st, c)
    BY DEF Walking, Paging
  <1>3. /\ c[i] \in Counts /\ c[j] \in Counts /\ i \in Nat /\ j \in Nat
        /\ w.pages[i].rows = Slice(w, i - 1, c[i]) /\ w.pages[j].rows = Slice(w, j - 1, c[j])
    BY <1>1, <1>2 DEF History
  <1>4. (i - 1) * w.size + w.size <= (j - 1) * w.size
    <2>1. PICK d, a, s : d = j - i - 1 /\ a = i - 1 /\ s = w.size /\ d \in Nat /\ a \in Int /\ s \in Nat
      <3>1. j - i - 1 \in Nat /\ i - 1 \in Int /\ w.size \in Nat
        BY <1>1, <1>3
      <3>2. QED
        BY <3>1
    <2>2. d * s \in Nat /\ a * s \in Int
      BY <2>1
    <2>3. (a + 1 + d) * s = a * s + s + d * s
      BY <2>1
    <2>4. j - 1 = a + 1 + d
      BY <1>3, <2>1
    <2>5. (j - 1) * w.size = a * s + s + d * s
      BY <2>1, <2>3, <2>4
    <2>6. QED
      BY <2>1, <2>2, <2>5
  <1>5. ASSUME w.quiet, NEW tag \in VA!Tags PROVE c[i][tag] = c[j][tag]
    <2>1. /\ w.before[Table(w)] = st /\ Below(w.before[Table(w)], c[i]) /\ Below(c[i], st)
          /\ Below(w.before[Table(w)], c[j]) /\ Below(c[j], st)
      BY <1>1, <1>2, <1>5 DEF Walking, RowsKept, History
    <2>2. c[i][tag] \in Nat /\ c[j][tag] \in Nat /\ st[tag] \in Nat
      BY <1>3 DEF Counts
    <2>3. QED
      BY <2>1, <2>2 DEF Below
  <1>6. ASSUME NEW r, r \in Slice(w, i - 1, c[i]), r \in Slice(w, j - 1, c[j]) PROVE FALSE
    <2>1. PICK tag, at : /\ tag \in w.names /\ at \in In(w, c[i][tag])
                         /\ r = VA!Row(tag, at) /\ PlaceOf(w, at, c[i][tag]) < (i - 1) * w.size + w.size
      BY <1>6 DEF Slice
    <2>2. PICK tag2, at2 : /\ tag2 \in w.names /\ at2 \in In(w, c[j][tag2])
                           /\ r = VA!Row(tag2, at2) /\ (j - 1) * w.size <= PlaceOf(w, at2, c[j][tag2])
      BY <1>6 DEF Slice
    <2>3. tag2 = tag /\ at2 = at
      BY <2>1, <2>2 DEF VA!Row
    <2>4. PlaceOf(w, at, c[i][tag]) = PlaceOf(w, at, c[j][tag]) /\ PlaceOf(w, at, c[i][tag]) \in Int
      <3>1. at \in Int /\ tag \in VA!Tags /\ c[i][tag] \in Nat
        BY <1>1, <1>3, <2>1 DEF In, Counts
      <3>2. CASE w.latest
        <4>1. c[i][tag] = c[j][tag] /\ High(w, c[i][tag]) \in Int
          BY <1>1, <1>5, <3>1, <3>2 DEF High
        <4>2. QED
          BY <3>1, <3>2, <4>1 DEF PlaceOf
      <3>3. CASE ~w.latest
        BY <1>1, <3>1, <3>3 DEF PlaceOf, High, Low
      <3>4. QED
        BY <3>2, <3>3
    <2>5. (i - 1) * w.size \in Int /\ (j - 1) * w.size \in Int
      BY <1>1, <1>3
    <2>6. QED
      BY <1>1, <1>4, <2>1, <2>2, <2>3, <2>4, <2>5
  <1>7. QED
    BY <1>3, <1>6

-----------------------------------------------------------------------------
(* The steps                                                                 *)

\* What jobDataRequest lets through is the table the client asked for.
LEMMA CheckedTable ==
  ASSUME VA!ConstantsFit, ViewerTyped, NEW ask, ask \in StoredJobs, VA!Refusal(ask) = "none"
  PROVE  /\ VA!Source(job) \in [table : VA!Tables, value : Spelt, text : Spelt]
         /\ VA!Source(job) # VA!Nothing /\ VA!Source(job).table = Normal[ask.table]
  <1>1. /\ job # VA!Nothing /\ (product = "ls" => server # VA!Nothing)
        /\ Normal[VA!Effective(job).table] # "" /\ ~VA!Differs(ask, VA!Effective(job))
    BY DEF VA!Refusal
  <1>2. job \in StoredJobs /\ (product = "ls" => server \in StoredServers)
    BY <1>1 DEF ViewerTyped
  <1>3. job \in [server : {job.server}, table : DOMAIN Normal, value : DOMAIN Normal, text : DOMAIN Normal,
                 selections : {job.selections}, whole : BOOLEAN]
    BY <1>2 DEF VA!ConstantsFit
  <1>4. product = "ls" => server.table \in DOMAIN Normal /\ server.value \in DOMAIN Normal /\ server.text \in DOMAIN Normal
    BY <1>2 DEF VA!ConstantsFit
  <1>5. PICK doc : doc = VA!Effective(job)
    OBVIOUS
  <1>6. doc.table \in DOMAIN Normal /\ doc.value \in DOMAIN Normal /\ doc.text \in DOMAIN Normal
    <2>1. CASE product # "ls"
      BY <1>3, <1>5, <2>1 DEF VA!Effective
    <2>2. CASE product = "ls"
      BY <1>3, <1>4, <1>5, <2>2 DEF VA!Effective
    <2>3. QED
      BY <2>1, <2>2
  <1>7. VA!Source(job) = [table |-> Normal[doc.table], value |-> Normal[doc.value], text |-> Normal[doc.text]]
    BY <1>5 DEF VA!Source
  <1>8. Normal[doc.table] \in VA!Tables /\ Normal[doc.value] \in Spelt /\ Normal[doc.text] \in Spelt
    BY <1>1, <1>5, <1>6 DEF VA!Tables, Spelt
  <1>9. Normal[ask.table] = Normal[doc.table]
    BY <1>1, <1>5 DEF VA!Differs
  <1>10. VA!Source(job) # VA!Nothing
    <2>1. DOMAIN VA!Source(job) = {"table", "value", "text"} /\ DOMAIN VA!Nothing = {"is"}
      BY <1>7 DEF VA!Nothing
    <2>2. "is" \notin {"table", "value", "text"}
      OBVIOUS
    <2>3. QED
      BY <2>1, <2>2
  <1>11. QED
    BY <1>7, <1>8, <1>9, <1>10

\* A step that leaves the pages as they are.
LEMMA WalkStays ==
  ASSUME NEW w, NEW v, NEW st \in Counts, NEW st2 \in Counts, Below(st, st2), Walking(w, st), v \in Walks, Same(v, w),
         v.pages = w.pages, v.more = w.more, w.kind = "page" => v.is # "query" /\ v.page <= Len(v.pages),
         w.kind = "chart" => v.page = 0 /\ (v.is = "shown" <=> w.is = "shown"),
         v.is = "shown" => w.is = "shown" /\ v.page = w.page,
         v.quiet => w.quiet /\ st2 = st, Placed(v)
  PROVE  Walking(v, st2)
  <1>1. Table(v) = Table(w) /\ v.before = w.before /\ v.kind = w.kind
    BY SameRows DEF Same
  <1>2. RowsKept(v, st2)
    <2>1. ASSUME Table(w) \in VA!Tables PROVE Below(w.before[Table(w)], st2)
      <3>1. w.before[Table(w)] \in Counts /\ Below(w.before[Table(w)], st)
        BY <2>1 DEF Walking, Walks, RowsKept
      <3>2. QED
        BY <3>1, BelowTrans
    <2>2. QED
      BY <1>1, <2>1 DEF Walking, RowsKept
  <1>3. Paging(v, st2)
    <2>1. \A c : History(w, st, c) => History(v, st2, c)
      BY HistoryStays
    <2>2. QED
      BY <1>1, <2>1 DEF Walking, Paging
  <1>4. Charting(v, st2)
    <2>1. \A c : Charted(w, st, c) => Charted(v, st2, c)
      BY ChartedStays
    <2>2. QED
      BY <1>1, <2>1 DEF Walking, Charting
  <1>5. QED
    BY <1>2, <1>3, <1>4 DEF Walking

LEMMA Moved ==
  ASSUME ViewerInv, ViewerTyped', NEW v, walk' = v, v.is \notin {"idle", "refused"} => Walking(v, stored'[Table(v)])
  PROVE  ViewerInv'
  <1>1. (~Away => Walking(walk, stored[Table(walk)]))' = (v.is \notin {"idle", "refused"} => Walking(v, stored'[Table(v)]))
    BY DEF Away, Walking, Walks, Placed, RowsKept, Paging, Charting, Charted,
       History, Full, Slice, All, In, PlaceOf, Low, High, Table
  <1>2. QED
    BY <1>1 DEF ViewerInv

LEMMA WalkGoesOn ==
  ASSUME ViewerInv, ViewerTyped', NEW v, walk' = v, UNCHANGED stored, Walking(v, stored[Table(v)])
  PROVE  ViewerInv'
  BY Moved

\* While the client's table is none, nothing has been shown.
LEMMA NoPagesYet ==
  ASSUME NEW w, NEW v, NEW st, NEW st2, Walking(w, st), v \in Walks, Same(v, w), v.pages = w.pages, v.more = w.more,
         v.is = w.is, v.page = w.page, Placed(v), Table(w) \notin VA!Tables
  PROVE  Walking(v, st2)
  <1>1. Table(v) = Table(w) /\ v.kind = w.kind
    BY SameRows DEF Same
  <1>2. w.is \notin {"checked", "query", "shown"}
    BY DEF Walking, Placed
  <1>3. Paging(v, st2)
    <2>1. ASSUME w.kind = "page" PROVE \E c : History(v, st2, c)
      <3>1. PICK c : History(w, st, c)
        BY <2>1 DEF Walking, Paging
      <3>2. w.pages = << >> /\ DOMAIN w.pages = {}
        BY <2>1 DEF Walking, Paging
      <3>3. History(v, st2, c)
        BY <1>2, <3>1, <3>2 DEF History
      <3>4. QED
        BY <3>3
    <2>2. QED
      BY <1>1, <1>2, <2>1 DEF Walking, Paging
  <1>4. Charting(v, st2)
    BY <1>1, <1>2 DEF Walking, Charting
  <1>5. RowsKept(v, st2)
    BY <1>1 DEF RowsKept
  <1>6. QED
    BY <1>3, <1>4, <1>5 DEF Walking

LEMMA Counted ==
  ASSUME ViewerInv, ~Away
  PROVE  /\ walk \in Walks /\ Walking(walk, stored[Table(walk)])
         /\ Table(walk) \in VA!Tables => stored[Table(walk)] \in Counts
  BY DEF ViewerInv, ViewerTyped, Walking

\* A walk that is given up.
LEMMA GivenUp ==
  ASSUME ViewerInv, NEW v, walk' = v, v.is \in {"idle", "refused"}, UNCHANGED <<job, server, stored>>
  PROVE  ViewerInv'
  <1>1. ViewerTyped'
    BY DEF ViewerInv, ViewerTyped
  <1>2. Away'
    BY DEF Away
  <1>3. QED
    BY <1>1, <1>2 DEF ViewerInv

LEMMA OpenKeeps ==
  ASSUME ViewerInv, NEW names \in NameLists, NEW kind \in {"page", "chart"}, NEW latest \in BOOLEAN,
         NEW size \in Sizes, NEW window \in Windows, VA!Open(names, kind, latest, size, window)
  PROVE  ViewerInv'
  <1>1. PICK v : /\ walk' = v /\ job # VA!Nothing /\ UNCHANGED <<job, server, stored>>
                 /\ v = [is |-> "asked", kind |-> kind, ask |-> job, names |-> VA!ToSet(names), latest |-> latest,
                         size |-> size, lo |-> window.lo, hi |-> window.hi, page |-> 0,
                         source |-> VA!Nothing, pages |-> <<>>, more |-> FALSE,
                         before |-> stored, quiet |-> TRUE]
    BY DEF VA!Open
  <1>2. v \in Walks
    <2>1. job \in StoredJobs /\ stored \in [VA!Tables -> Counts] /\ size \in Nat \ {0} /\ window.lo \in Int /\ window.hi \in Int
      BY <1>1 DEF ViewerInv, ViewerTyped, VA!ConstantsFit
    <2>2. VA!ToSet(names) \in SUBSET VA!Tags
      BY DEF VA!Tags
    <2>3. << >> \in Seq(Pages)
      OBVIOUS
    <2>4. QED
      BY <1>1, <2>1, <2>2, <2>3 DEF Walks
  <1>3. PICK st : st = stored[Table(v)]
    OBVIOUS
  <1>4. Placed(v) /\ v.before = stored /\ v.pages = << >> /\ v.is = "asked" /\ v.page = 0 /\ ~v.more
    BY <1>1 DEF Placed
  <1>5. RowsKept(v, st)
    <2>1. Table(v) \in VA!Tables => st \in Counts
      BY <1>3 DEF ViewerInv, ViewerTyped
    <2>2. QED
      BY <1>3, <1>4, <2>1, BelowSelf DEF RowsKept
  <1>6. Paging(v, st)
    <2>1. PICK c : c = [i \in {} |-> st]
      OBVIOUS
    <2>2. DOMAIN v.pages = {} /\ Len(v.pages) = 0
      BY <1>4
    <2>3. History(v, st, c)
      BY <1>4, <2>1, <2>2 DEF History
    <2>4. QED
      BY <1>4, <2>2, <2>3 DEF Paging
  <1>7. Charting(v, st)
    BY <1>4 DEF Charting
  <1>8. Walking(v, stored[Table(v)])
    BY <1>2, <1>3, <1>4, <1>5, <1>6, <1>7 DEF Walking
  <1>9. ViewerTyped'
    BY <1>1 DEF ViewerInv, ViewerTyped
  <1>10. Walking(walk, stored[Table(walk)])'
    BY <1>1, <1>8 DEF Walking, Walks, Placed, RowsKept, Paging, Charting, Charted,
       History, Full, Slice, All, In, PlaceOf, Low, High, Table
  <1>11. QED
    BY <1>9, <1>10 DEF ViewerInv

\* Check, ChartQuery and Turn: the pages stay, and no row is stored.
LEMMA WalkedOn ==
  ASSUME ViewerInv, ~Away, NEW v, walk' = v, UNCHANGED <<job, server, stored>>, v \in Walks, Same(v, walk),
         v.pages = walk.pages, v.more = walk.more, walk.kind = "page" => v.is # "query" /\ v.page <= Len(v.pages),
         walk.kind = "chart" => v.page = 0 /\ (v.is = "shown" <=> walk.is = "shown"),
         v.is = "shown" => walk.is = "shown" /\ v.page = walk.page,
         v.quiet = walk.quiet, Placed(v), Table(walk) \in VA!Tables
  PROVE  ViewerInv'
  <1>1. PICK w, st : w = walk /\ st = stored[Table(w)] /\ st \in Counts /\ Walking(w, st)
    BY Counted
  <1>2. Below(st, st)
    BY <1>1, BelowSelf
  <1>3. Walking(v, st) /\ Table(v) = Table(w)
    BY <1>1, <1>2, WalkStays, SameRows
  <1>4. ViewerTyped'
    BY DEF ViewerInv, ViewerTyped
  <1>5. QED
    BY <1>1, <1>3, <1>4, WalkGoesOn

LEMMA CheckKeeps ==
  ASSUME ViewerInv, VA!Check
  PROVE  ViewerInv'
  <1>1. walk.is = "asked" /\ ~Away /\ UNCHANGED <<job, server, stored>>
    BY DEF VA!Check, Away
  <1>2. CASE VA!Refusal(walk.ask) # "none"
    BY <1>1, <1>2, GivenUp DEF VA!Check, VA!Refuse
  <1>3. CASE VA!Refusal(walk.ask) = "none"
    <2>1. PICK w, v, source : /\ w = walk /\ source = VA!Source(job) /\ walk' = v
                              /\ v = [w EXCEPT !.is = "checked", !.source = source]
      <3>1. PICK source : source = VA!Source(job)
        OBVIOUS
      <3>2. walk' = [walk EXCEPT !.is = "checked", !.source = source]
        BY <1>3, <3>1 DEF VA!Check
      <3>3. QED
        BY <3>1, <3>2
    <2>2. w \in Walks /\ w.ask \in StoredJobs /\ Walking(w, stored[Table(w)])
      BY <1>1, <2>1, Counted DEF Walks
    <2>3. source \in [table : VA!Tables, value : Spelt, text : Spelt] /\ source # VA!Nothing /\ source.table = Table(w)
      BY <1>3, <2>1, <2>2, CheckedTable DEF ViewerInv, Table
    <2>4. /\ v \in Walks /\ Same(v, w) /\ v.pages = w.pages /\ v.more = w.more /\ v.is = "checked" /\ v.page = w.page
          /\ v.quiet = w.quiet /\ v.source = source
      <3>1. v \in Walks
        BY <2>1, <2>2, <2>3 DEF Walks
      <3>2. Same(v, w) /\ v.pages = w.pages /\ v.more = w.more /\ v.page = w.page /\ v.quiet = w.quiet
        BY <2>1, <2>2, WalkFields DEF Same
      <3>3. v.is = "checked" /\ v.source = source
        BY <2>1, <2>2, WalkFields
      <3>4. QED
        BY <3>1, <3>2, <3>3
    <2>5. Placed(v) /\ Table(w) \in VA!Tables
      BY <2>3, <2>4, SameRows DEF Placed
    <2>6. (w.kind = "page" => w.page <= Len(w.pages)) /\ (w.kind = "chart" => w.page = 0)
      BY <2>2 DEF Walking, Paging, Charting
    <2>7. QED
      BY <1>1, <2>1, <2>4, <2>5, <2>6, WalkedOn
  <1>4. QED
    BY <1>2, <1>3

LEMMA ChartQueryKeeps ==
  ASSUME ViewerInv, VA!ChartQuery
  PROVE  ViewerInv'
  <1>1. walk.is = "checked" /\ walk.kind = "chart" /\ ~Away /\ UNCHANGED <<job, server, stored>>
    BY DEF VA!ChartQuery, Away
  <1>2. CASE VA!QueryRefusal(walk.source) # "none"
    BY <1>1, <1>2, GivenUp DEF VA!ChartQuery, VA!Refuse
  <1>3. CASE VA!QueryRefusal(walk.source) = "none"
    <2>1. PICK w, v : w = walk /\ v = [w EXCEPT !.is = "query"] /\ walk' = v
      BY <1>3 DEF VA!ChartQuery
    <2>2. w \in Walks /\ Walking(w, stored[Table(w)])
      BY <1>1, <2>1, Counted
    <2>3. /\ v \in Walks /\ Same(v, w) /\ v.pages = w.pages /\ v.more = w.more /\ v.is = "query" /\ v.page = w.page
          /\ v.quiet = w.quiet /\ v.source = w.source
      <3>1. v \in Walks
        BY <2>1, <2>2 DEF Walks
      <3>2. QED
        BY <2>1, <2>2, <3>1, WalkFields DEF Same
    <2>4. Placed(v) /\ Table(w) \in VA!Tables
      BY <1>1, <2>1, <2>2, <2>3, SameRows DEF Walking, Placed
    <2>5. w.kind = "chart" /\ w.page = 0
      BY <1>1, <2>1, <2>2 DEF Walking, Charting
    <2>6. QED
      BY <1>1, <2>1, <2>3, <2>4, <2>5, WalkedOn
  <1>4. QED
    BY <1>2, <1>3

LEMMA TurnKeeps ==
  ASSUME ViewerInv, NEW page \in {walk.page + 1, walk.page - 1}, VA!Turn(page)
  PROVE  ViewerInv'
  <1>1. /\ walk.is = "shown" /\ ~Away /\ UNCHANGED <<job, server, stored>>
        /\ (page = walk.page + 1 /\ walk.more) \/ (walk.page > 0 /\ page = walk.page - 1)
    BY DEF VA!Turn, Away
  <1>2. PICK w, v : w = walk /\ v = [w EXCEPT !.is = "asked", !.page = page] /\ walk' = v
    BY DEF VA!Turn
  <1>3. w \in Walks /\ Walking(w, stored[Table(w)]) /\ w.page \in Nat /\ Table(w) \in VA!Tables
    BY <1>1, <1>2, Counted DEF Walks, Walking, Placed
  <1>4. w.kind = "page"
    BY <1>1, <1>2, <1>3 DEF Walking, Charting, Walks
  <1>5. page \in Nat /\ page <= Len(w.pages)
    BY <1>1, <1>2, <1>3, <1>4 DEF Walking, Paging
  <1>6. /\ v \in Walks /\ Same(v, w) /\ v.pages = w.pages /\ v.more = w.more /\ v.is = "asked" /\ v.page = page
        /\ v.quiet = w.quiet
    <2>1. v \in Walks
      BY <1>2, <1>3, <1>5 DEF Walks
    <2>2. QED
      BY <1>2, <1>3, <2>1, WalkFields DEF Same
  <1>7. Placed(v)
    BY <1>6 DEF Placed
  <1>8. QED
    BY <1>1, <1>2, <1>3, <1>4, <1>5, <1>6, <1>7, WalkedOn

LEMMA AnswerKeeps ==
  ASSUME ViewerInv, VA!Answer
  PROVE  ViewerInv'
  <1>1. walk.is = "checked" /\ walk.kind = "page" /\ ~Away /\ UNCHANGED <<job, server, stored>>
    BY DEF VA!Answer, Away
  <1>2. CASE VA!QueryRefusal(walk.source) # "none"
    BY <1>1, <1>2, GivenUp DEF VA!Answer, VA!Refuse
  <1>3. CASE VA!QueryRefusal(walk.source) = "none"
    <2>1. PICK w, st, m : w = walk /\ st = stored[Table(w)] /\ m = VA!HasMore(st)
      OBVIOUS
    <2>2. w \in Walks /\ Walking(w, st) /\ w.source.table = Table(w) /\ Table(w) \in VA!Tables /\ st \in Counts
      BY <1>1, <2>1, Counted DEF Walking, Placed
    <2>3. VA!PageRows(st) = Slice(w, w.page, st) /\ (~m => Full(w, w.page, st)) /\ m \in BOOLEAN
      BY <2>1, <2>2, PageIs DEF VA!HasMore
    <2>4. PICK v : /\ walk' = v
                   /\ v = [w EXCEPT !.is = "shown", !.more = m,
                             !.pages = Append(SubSeq(w.pages, 1, w.page), [table |-> Table(w), rows |-> Slice(w, w.page, st)])]
      BY <1>3, <2>1, <2>2, <2>3 DEF VA!Answer
    <2>5. Walking(v, st)
      BY <1>1, <2>1, <2>2, <2>3, <2>4, PageRead
    <2>6. Table(v) = Table(w)
      BY <2>2, <2>4 DEF Table, Walks
    <2>7. ViewerTyped'
      BY <1>1 DEF ViewerInv, ViewerTyped
    <2>8. QED
      BY <1>1, <2>1, <2>4, <2>5, <2>6, <2>7, WalkGoesOn
  <1>4. QED
    BY <1>2, <1>3

LEMMA RunQueryKeeps ==
  ASSUME ViewerInv, VA!RunQuery
  PROVE  ViewerInv'
  <1>1. walk.is = "query" /\ ~Away /\ UNCHANGED <<job, server, stored>>
    BY DEF VA!RunQuery, Away
  <1>2. PICK w, st : w = walk /\ st = stored[Table(w)]
    OBVIOUS
  <1>3. w \in Walks /\ Walking(w, st) /\ w.source.table = Table(w) /\ Table(w) \in VA!Tables /\ st \in Counts
    BY <1>1, <1>2, Counted DEF Walking, Placed
  <1>4. PICK T, rs : /\ T = w.source.table /\ T = Table(w) /\ st = stored[T]
                     /\ rs = UNION {{VA!Row(tag, at) : at \in VA!Within(tag, stored[T])} : tag \in w.names}
    BY <1>2, <1>3
  <1>5. PICK v : walk' = v /\ v = [w EXCEPT !.is = "shown", !.pages = <<[table |-> Table(w), rows |-> All(w, st)]>>]
    <2>1. rs = All(w, st)
      <3>1. \A tag \in w.names : VA!Within(tag, stored[T]) = In(w, st[tag])
        BY <1>2, <1>4 DEF VA!Within, In
      <3>2. QED
        BY <1>4, <3>1 DEF All
    <2>2. walk' = [w EXCEPT !.is = "shown", !.pages = <<[table |-> T, rows |-> rs]>>]
      BY <1>2, <1>4 DEF VA!RunQuery
    <2>3. QED
      BY <1>4, <2>1, <2>2
  <1>6. Walking(v, st)
    BY <1>1, <1>2, <1>3, <1>5, ChartRead
  <1>7. Table(v) = Table(w)
    BY <1>3, <1>5 DEF Table, Walks
  <1>8. ViewerTyped'
    BY <1>1 DEF ViewerInv, ViewerTyped
  <1>9. QED
    BY <1>1, <1>2, <1>5, <1>6, <1>7, <1>8, WalkGoesOn

LEMMA StoreKeeps ==
  ASSUME ViewerInv, NEW tag \in VA!Tags, VA!Store(tag)
  PROVE  ViewerInv'
  <1>1. PICK table : /\ table = Normal[VA!Effective(job).table] /\ table # "" /\ UNCHANGED <<job, server>>
                     /\ stored' = [stored EXCEPT ![table][tag] = @ + 1]
                     /\ walk' = IF Away THEN walk ELSE [walk EXCEPT !.quiet = FALSE]
    BY DEF VA!Store, Away
  <1>2. ViewerTyped' /\ \A t \in VA!Tables : stored'[t] \in Counts /\ Below(stored[t], stored'[t])
    <2>1. ASSUME NEW t \in VA!Tables
          PROVE  stored'[t] \in Counts /\ Below(stored[t], stored'[t])
      <3>1. stored[t] \in Counts /\ stored'[t] = IF t = table THEN [stored[t] EXCEPT ![tag] = @ + 1] ELSE stored[t]
        BY <1>1 DEF ViewerInv, ViewerTyped
      <3>2. PICK a, b : a = stored[t] /\ b = stored'[t] /\ a \in Counts /\ b = IF t = table THEN [a EXCEPT ![tag] = @ + 1] ELSE a
        BY <3>1
      <3>3. \A x \in VA!Tags : a[x] \in Nat /\ b[x] = IF t = table /\ x = tag THEN a[x] + 1 ELSE a[x]
        BY <3>2 DEF Counts
      <3>4. b \in Counts /\ Below(a, b)
        BY <3>2, <3>3 DEF Counts, Below
      <3>5. QED
        BY <3>2, <3>4
    <2>2. stored' \in [VA!Tables -> Counts]
      <3>1. DOMAIN stored' = VA!Tables /\ stored' = [t \in VA!Tables |-> stored'[t]]
        BY <1>1 DEF ViewerInv, ViewerTyped
      <3>2. QED
        BY <2>1, <3>1
    <2>3. QED
      BY <1>1, <2>1, <2>2 DEF ViewerInv, ViewerTyped
  <1>3. CASE Away
    BY <1>1, <1>2, <1>3 DEF ViewerInv, Away
  <1>4. CASE ~Away
    <2>1. PICK w, v : w = walk /\ v = [w EXCEPT !.quiet = FALSE] /\ walk' = v
      BY <1>1, <1>4
    <2>2. w \in Walks /\ Walking(w, stored[Table(w)])
      BY <1>4, <2>1, Counted
    <2>3. /\ v \in Walks /\ Same(v, w) /\ v.pages = w.pages /\ v.more = w.more /\ v.is = w.is /\ v.page = w.page
          /\ ~v.quiet /\ v.source = w.source
      <3>1. v \in Walks
        BY <2>1, <2>2 DEF Walks
      <3>2. QED
        BY <2>1, <2>2, <3>1, WalkFields DEF Same
    <2>4. Table(v) = Table(w) /\ Placed(v)
      BY <2>2, <2>3, SameRows DEF Walking, Placed
    <2>5. CASE Table(w) \in VA!Tables
      <3>1. PICK st, st2 : st = stored[Table(w)] /\ st2 = stored'[Table(w)] /\ st \in Counts /\ st2 \in Counts /\ Below(st, st2)
        BY <1>2, <2>5 DEF ViewerInv, ViewerTyped
      <3>2. Walking(v, st2)
        BY <2>2, <2>3, <2>4, <3>1, WalkStays DEF Walking, Paging, Charting
      <3>3. QED
        BY <1>2, <2>1, <2>4, <3>1, <3>2, Moved
    <2>6. CASE Table(w) \notin VA!Tables
      <3>1. stored' = [stored EXCEPT ![table][tag] = @ + 1]
        BY <1>1
      <3>2. Walking(v, stored'[Table(v)])
        BY <2>2, <2>3, <2>4, <2>6, NoPagesYet
      <3>3. QED
        BY <1>2, <2>1, <2>4, <3>2, Moved
    <2>7. QED
      BY <2>5, <2>6
  <1>5. QED
    BY <1>3, <1>4

LEMMA ViewerInductive ==
  ASSUME ViewerInv, [VA!Next]_VA!vars
  PROVE  ViewerInv'
  <1>1. CASE UNCHANGED VA!vars
    <2>1. UNCHANGED <<job, server, stored, walk>>
      BY <1>1 DEF VA!vars
    <2>2. ViewerTyped'
      BY <2>1 DEF ViewerInv, ViewerTyped
    <2>3. CASE Away
      BY <2>1, <2>2, <2>3, GivenUp DEF ViewerInv, Away
    <2>4. CASE ~Away
      BY <2>1, <2>2, <2>4, WalkGoesOn DEF ViewerInv
    <2>5. QED
      BY <2>3, <2>4
  <1>2. CASE VA!Next
    <2>1. ASSUME NEW names \in NameLists, NEW kind \in {"page", "chart"}, NEW latest \in BOOLEAN,
                 NEW size \in Sizes, NEW window \in Windows, VA!Open(names, kind, latest, size, window)
          PROVE  ViewerInv'
      BY <2>1, OpenKeeps
    <2>2. ASSUME VA!Unavailable \/ VA!Leave
          PROVE  ViewerInv'
      <3>1. PICK v : walk' = v /\ v.is \in {"idle", "refused"} /\ UNCHANGED <<job, server, stored>>
        <4>1. CASE VA!Unavailable
          BY <4>1 DEF VA!Unavailable, VA!Refuse
        <4>2. CASE VA!Leave
          BY <4>2 DEF VA!Leave, VA!Idle
        <4>3. QED
          BY <2>2, <4>1, <4>2
      <3>2. QED
        BY <3>1, GivenUp
    <2>3. ASSUME UNCHANGED <<stored, walk>>, ViewerTyped'
          PROVE  ViewerInv'
      <3>1. CASE Away
        BY <2>3, <3>1 DEF ViewerInv, Away
      <3>2. CASE ~Away
        BY <2>3, <3>2, WalkGoesOn DEF ViewerInv
      <3>3. QED
        BY <3>1, <3>2
    <2>4. ASSUME NEW limit \in Limits, VA!ListTags(limit)
          PROVE  ViewerInv'
      BY <2>3, <2>4 DEF VA!ListTags, ViewerInv, ViewerTyped
    <2>5. ASSUME NEW doc \in StoredJobs \cup {VA!Nothing}, VA!EditJob(doc)
          PROVE  ViewerInv'
      BY <2>3, <2>5 DEF VA!EditJob, ViewerInv, ViewerTyped
    <2>6. ASSUME NEW record \in StoredServers \cup {VA!Nothing}, VA!EditServer(record)
          PROVE  ViewerInv'
      BY <2>3, <2>6 DEF VA!EditServer, ViewerInv, ViewerTyped
    <2>7. QED
      BY <1>2, <2>1, <2>2, <2>4, <2>5, <2>6, CheckKeeps, AnswerKeeps, ChartQueryKeeps, RunQueryKeeps,
         TurnKeeps, StoreKeeps DEF VA!Next
  <1>3. QED
    BY <1>1, <1>2

LEMMA ViewerStarts ==
  ASSUME VA!ConstantsFit, VA!Init
  PROVE  ViewerInv
  <1>1. stored \in [VA!Tables -> Counts]
    BY DEF VA!Init, Counts
  <1>2. ViewerTyped /\ Away
    BY <1>1 DEF VA!Init, ViewerTyped, Away, VA!Idle
  <1>3. QED
    BY <1>2 DEF ViewerInv

LEMMA Walked ==
  ASSUME VA!ConstantsFit
  PROVE  VA!Spec => []ViewerInv
  <1>1. VA!Init => ViewerInv
    BY ViewerStarts
  <1>2. ViewerInv /\ [VA!Next]_VA!vars => ViewerInv'
    BY ViewerInductive
  <1>3. QED
    BY <1>1, <1>2, PTL DEF VA!Spec

-----------------------------------------------------------------------------
\* What every page of a walk that is shown comes from.
LEMMA PagesComeFrom ==
  ASSUME ViewerInv, VA!Shown
  PROVE  /\ Table(walk) \in VA!Tables /\ walk.source.table = Table(walk)
         /\ \A i \in DOMAIN walk.pages : walk.pages[i].table = Table(walk)
  <1>1. PICK w, st : w = walk /\ st = stored[Table(w)]
    OBVIOUS
  <1>2. w.is = "shown" /\ Walking(w, st) /\ w \in Walks
    BY <1>1, Counted DEF VA!Shown, Away
  <1>3. Table(w) \in VA!Tables /\ w.source.table = Table(w)
    BY <1>2 DEF Walking, Placed
  <1>4. ASSUME NEW i \in DOMAIN w.pages
        PROVE  w.pages[i].table = Table(w)
    <2>1. CASE w.kind = "page"
      <3>1. PICK c : History(w, st, c)
        BY <1>2, <2>1 DEF Walking, Paging
      <3>2. i \in DOMAIN c
        BY <3>1 DEF History
      <3>3. QED
        BY <3>1, <3>2 DEF History
    <2>2. CASE w.kind = "chart"
      <3>1. Len(w.pages) = 1 /\ w.pages[1].table = Table(w) /\ w.pages \in Seq(Pages)
        BY <1>2, <2>2 DEF Walking, Charting, Charted, Walks
      <3>2. i = 1
        BY <3>1
      <3>3. QED
        BY <3>1, <3>2
    <2>3. QED
      BY <1>2, <2>1, <2>2 DEF Walks
  <1>5. QED
    BY <1>1, <1>3, <1>4

\* The pages of one walk come from the table its client asked for.
THEOREM PagesOfOneTable ==
  ASSUME VA!ConstantsFit
  PROVE  VA!Spec => []VA!OneSource
  <1>1. ViewerInv => VA!OneSource
    <2>1. ASSUME ViewerInv, VA!Shown, NEW p \in VA!ToSet(walk.pages)
          PROVE  p.table = Normal[walk.ask.table]
      <3>1. PICK i \in DOMAIN walk.pages : p = walk.pages[i]
        BY DEF VA!ToSet
      <3>2. QED
        BY <2>1, <3>1, PagesComeFrom DEF Table
    <2>2. QED
      BY <2>1 DEF VA!OneSource
  <1>2. QED
    BY <1>1, Walked, PTL

LEMMA AllShown ==
  ASSUME ViewerInv, VA!Shown, ~walk.more, NEW r \in VA!RowsOf(walk.before[walk.source.table])
  PROVE  r \in UNION {p.rows : p \in VA!ToSet(walk.pages)}
  <1>1. PICK w, st, b : w = walk /\ st = stored[Table(w)] /\ b = w.before[Table(w)]
    OBVIOUS
  <1>2. /\ w.is = "shown" /\ Walking(w, st) /\ w \in Walks /\ Table(w) \in VA!Tables /\ st \in Counts
        /\ w.source.table = Table(w) /\ b \in Counts
    BY <1>1, Counted, PagesComeFrom DEF VA!Shown, Away, Walks
  <1>3. PICK tag, at : /\ tag \in w.names /\ at \in In(w, b[tag])
                       /\ r = VA!Row(tag, at)
    <2>1. PICK tag, at : /\ tag \in w.names /\ at \in w.lo..w.hi
                         /\ r = VA!Row(tag, at)
      BY <1>1, <1>2 DEF VA!RowsOf
    <2>2. PICK tag2, at2 : /\ tag2 \in VA!Tags /\ at2 \in 1..b[tag2]
                           /\ r = VA!Row(tag2, at2)
      BY <1>1, <1>2 DEF VA!RowsOf
    <2>3. tag2 = tag /\ at2 = at
      BY <2>1, <2>2 DEF VA!Row
    <2>4. w.lo \in Int /\ w.hi \in Int
      BY <1>2 DEF Walks
    <2>5. at \in In(w, b[tag])
      BY <2>1, <2>2, <2>3, <2>4 DEF In
    <2>6. QED
      BY <2>1, <2>5
  <1>4. PICK i \in DOMAIN w.pages : r \in w.pages[i].rows
    <2>1. CASE w.kind = "page"
      BY <1>1, <1>2, <1>3, <2>1, EveryRowShown
    <2>2. CASE w.kind = "chart"
      <3>1. PICK c : Charted(w, st, c)
        BY <1>2, <2>2 DEF Walking, Charting
      <3>2. Len(w.pages) = 1 /\ w.pages \in Seq(Pages)
        BY <1>2, <2>2 DEF Walking, Charting, Walks
      <3>3. c \in Counts /\ Below(b, c) /\ w.pages[1].rows = All(w, c) /\ tag \in VA!Tags
        BY <1>1, <1>2, <1>3, <3>1 DEF Charted, Walks
      <3>4. b[tag] \in Nat /\ c[tag] \in Nat /\ b[tag] <= c[tag]
        BY <1>2, <3>3 DEF Below, Counts
      <3>5. at \in In(w, c[tag])
        BY <1>3, <3>4 DEF In
      <3>6. r \in w.pages[1].rows
        BY <1>3, <3>3, <3>5 DEF All
      <3>7. QED
        BY <3>2, <3>6
    <2>3. QED
      BY <1>2, <2>1, <2>2 DEF Walks
  <1>5. w.pages[i] \in VA!ToSet(walk.pages)
    BY <1>1 DEF VA!ToSet
  <1>6. QED
    BY <1>4, <1>5

LEMMA NoneTwice ==
  ASSUME ViewerInv, VA!Shown, walk.quiet \/ ~walk.latest,
         NEW i \in DOMAIN walk.pages, NEW j \in DOMAIN walk.pages, i # j
  PROVE  walk.pages[i].rows \cap walk.pages[j].rows = {}
  <1>1. PICK w, st : w = walk /\ st = stored[Table(w)]
    OBVIOUS
  <1>2. w.is = "shown" /\ Walking(w, st) /\ w \in Walks /\ st \in Counts /\ w.pages \in Seq(Pages)
    BY <1>1, Counted, PagesComeFrom DEF VA!Shown, Away, Walks
  <1>3. w.kind = "page"
    <2>1. CASE w.kind = "chart"
      <3>1. Len(w.pages) = 1
        BY <1>2, <2>1 DEF Walking, Charting
      <3>2. QED
        BY <1>1, <1>2, <3>1
    <2>2. QED
      BY <1>2, <2>1 DEF Walks
  <1>4. w.pages # << >> /\ i \in Nat /\ j \in Nat
    BY <1>1, <1>2
  <1>5. CASE i < j
    BY <1>1, <1>2, <1>3, <1>4, <1>5, NoRowTwice
  <1>6. CASE j < i
    BY <1>1, <1>2, <1>3, <1>4, <1>6, NoRowTwice
  <1>7. QED
    BY <1>4, <1>5, <1>6

\* A walk that says nothing is left has shown every row that was there when it
\* began, and no row twice when it goes up in time or when nothing was stored.
THEOREM WalksAreWhole ==
  ASSUME VA!ConstantsFit
  PROVE  VA!Spec => []VA!WalkIsWhole
  <1>1. ViewerInv => VA!WalkIsWhole
    <2>1. ASSUME ViewerInv, VA!Shown, ~walk.more
          PROVE  VA!RowsOf(walk.before[walk.source.table]) \subseteq UNION {p.rows : p \in VA!ToSet(walk.pages)}
      BY <2>1, AllShown
    <2>2. ASSUME ViewerInv, VA!Shown, walk.quiet \/ ~walk.latest,
                 NEW i \in DOMAIN walk.pages, NEW j \in DOMAIN walk.pages, i # j
          PROVE  walk.pages[i].rows \cap walk.pages[j].rows = {}
      BY <2>2, NoneTwice
    <2>3. QED
      BY <2>1, <2>2 DEF VA!WalkIsWhole
  <1>2. QED
    BY <1>1, Walked, PTL
=============================================================================
