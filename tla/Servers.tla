------------------------------ MODULE Servers ------------------------------
(* The registered Database Servers of the generic product, the default one  *)
(* that the settings name, and the saving of a Job, which looks its table   *)
(* up in the database and makes it when it is not there.  Every request is  *)
(* a process of its own: what it read earlier may have changed when it      *)
(* writes, except where the lock of a server protects it.                   *)
EXTENDS Naturals, FiniteSets

CONSTANTS
  Names,        \* names a server may be registered under
  Jobs,         \* names of Jobs
  Tables,       \* names of tables, in the upper case the validator stores
  Given,        \* the TAG tables that were there before: name -> its columns
  Mappings,     \* the columns a form may ask for
  Processes,    \* CGI processes alive at a time
  MaxRequests   \* requests served in all

VARIABLES
  servers,      \* conf.d/db-servers/<name>.json
  default,      \* settings.json: defaults.database.server
  tables,       \* the tables of the database, with their columns
  jobs,         \* conf.d/jobs/<name>.json: its database
  lock,         \* owner of the lock db-server-<name>
  request,      \* what a process is doing, and what it has read
  served        \* requests begun

vars == <<servers, default, tables, jobs, lock, request, served>>

Local == "localhost"
Nobody == "-"
Nothing == [table |-> "-"]
Idle == [at |-> "idle"]

Profile(t, v, str) == [table |-> t, value |-> v, string |-> str]
Database(s, t, v, str) == [server |-> s, table |-> t, value |-> v, string |-> str]

(* The columns of a TAG table made from a Job: every other one is of the    *)
(* key and the time.                                                        *)
Made(string) == [numeric |-> {"VALUE"}, whole |-> {}, strings |-> IF string # "" THEN {string} ELSE {}]

Missing == [numeric |-> {}, whole |-> {}, strings |-> {}]
Known(t) == tables[t] # Missing

(* A table that was there before has columns, and that of localhost, if it  *)
(* was, is one that a Job has made.                                         *)
ConstantsFit ==
  /\ Local \in Names
  /\ Nobody \notin Processes /\ Nothing.table \notin Tables
  /\ \A t \in DOMAIN Given : Given[t] # Missing
  /\ "DEFAULT_DBUS" \in DOMAIN Given => "VALUE" \in Given["DEFAULT_DBUS"].numeric

Registered(s) == servers[s] # Nothing

(* The mapping is one of an existing TAG table: a numeric column, not one   *)
(* of integers when the Tags may be fractions, and a string column if one   *)
(* is asked for.                                                            *)
validatedExistingMapping(t, value, string, fractional) ==
  /\ value \in tables[t].numeric
  /\ fractional => value \notin tables[t].whole
  /\ string # "" => string \in tables[t].strings

Init ==
  /\ servers = [s \in Names |-> IF s = Local THEN Profile("DEFAULT_DBUS", "VALUE", "") ELSE Nothing]
  /\ default = Local
  /\ tables = [t \in Tables |-> IF t \in DOMAIN Given THEN Given[t] ELSE Missing]
  /\ jobs = [j \in Jobs |-> Nothing]
  /\ lock = [s \in Names |-> Nobody]
  /\ request = [p \in Processes |-> Idle]
  /\ served = 0

Ready(p) == request[p] = Idle /\ served < MaxRequests

Begins(p, r) ==
  /\ Ready(p)
  /\ served' = served + 1
  /\ request' = [request EXCEPT ![p] = r]

At(p, place) == request[p].at = place
Goes(p, place) == request' = [request EXCEPT ![p].at = place] /\ UNCHANGED served
Ends(p) == request' = [request EXCEPT ![p] = Idle] /\ UNCHANGED served

Acquires(p, s) == lock[s] = Nobody /\ lock' = [lock EXCEPT ![s] = p]
Releases(s) == lock' = [lock EXCEPT ![s] = Nobody]

(***************************************************************************)
(* The server API: create, update and remove under the lock of the name;    *)
(* a held lock refuses the request.                                         *)
(***************************************************************************)
Refused(p, s) ==
  /\ request[p].at \in {"create", "update", "remove", "columns"}
  /\ lock[s] # Nobody
  /\ Ends(p)
  /\ UNCHANGED <<servers, default, tables, jobs, lock>>

(* The form offers the columns of a table that exists.                      *)
Offered(t, m) ==
  t \in DOMAIN Given => /\ m.value \in Given[t].numeric
                        /\ m.string \in Given[t].strings \cup {""}

CreateServer(p) ==
  Ready(p) /\ \E s \in Names, t \in Tables, m \in Mappings :
    /\ Offered(t, m)
    /\ Begins(p, [at |-> "create", server |-> s, new |-> TRUE, profile |-> Profile(t, m.value, m.string)])
    /\ UNCHANGED <<servers, default, tables, jobs, lock>>

CreateLocked(p) ==
  LET r == request[p] IN
  /\ At(p, "create")
  /\ Acquires(p, r.server)
  /\ Goes(p, IF Registered(r.server) THEN "release" ELSE "write")
  /\ UNCHANGED <<servers, default, tables, jobs>>

UpdateServer(p) ==
  Ready(p) /\ \E s \in Names, t \in Tables, m \in Mappings :
    /\ Offered(t, m)
    /\ Begins(p, [at |-> "update", server |-> s, new |-> FALSE, profile |-> Profile(t, m.value, m.string)])
    /\ UNCHANGED <<servers, default, tables, jobs, lock>>

UpdateLocked(p) ==
  LET r == request[p] IN
  /\ At(p, "update")
  /\ Acquires(p, r.server)
  /\ Goes(p, IF Registered(r.server) THEN "write" ELSE "release")
  /\ UNCHANGED <<servers, default, tables, jobs>>

WriteServer(p) ==
  LET r == request[p] IN
  /\ At(p, "write")
  /\ servers' = [servers EXCEPT ![r.server] = r.profile]
  /\ Goes(p, "release")
  /\ UNCHANGED <<default, tables, jobs, lock>>

Release(p) ==
  /\ At(p, "release")
  /\ Releases(request[p].server)
  /\ Ends(p)
  /\ UNCHANGED <<servers, default, tables, jobs>>

(* DELETE looks at the settings before it asks for the lock, and for the    *)
(* Jobs that use the server under it.                                       *)
DeleteServer(p) ==
  \E s \in Names \ {default} :
    /\ Begins(p, [at |-> "remove", server |-> s])
    /\ UNCHANGED <<servers, default, tables, jobs, lock>>

referencedJobs(s) == {j \in Jobs : jobs[j] # Nothing /\ jobs[j].server = s}

RemoveLocked(p) ==
  LET s == request[p].server IN
  /\ At(p, "remove")
  /\ Acquires(p, s)
  /\ Goes(p, IF Registered(s) /\ referencedJobs(s) = {} THEN "unlink" ELSE "release")
  /\ UNCHANGED <<servers, default, tables, jobs>>

Unlink(p) ==
  /\ At(p, "unlink")
  /\ servers' = [servers EXCEPT ![request[p].server] = Nothing]
  /\ Goes(p, "release")
  /\ UNCHANGED <<default, tables, jobs, lock>>

(***************************************************************************)
(* Settings: update() reads, checks that the new default is registered, and *)
(* writes the whole document back; a change of the limits alone writes back *)
(* the default it has read.  list() restores localhost without its lock.    *)
(***************************************************************************)
ReadSettings(p) ==
  \/ \E s \in Names :
       /\ Begins(p, [at |-> "list", server |-> s])
       /\ UNCHANGED <<servers, default, tables, jobs, lock>>
  \/ /\ Begins(p, [at |-> "settings", server |-> default])
     /\ UNCHANGED <<servers, default, tables, jobs, lock>>

ListServers(p) ==
  /\ At(p, "list")
  /\ servers' = [servers EXCEPT ![Local] =
       IF @ = Nothing THEN Profile("DEFAULT_DBUS", "VALUE", "") ELSE @]
  /\ IF servers'[request[p].server] # Nothing THEN Goes(p, "settings") ELSE Ends(p)
  /\ UNCHANGED <<default, tables, jobs, lock>>

WriteSettings(p) ==
  /\ At(p, "settings")
  /\ default' = request[p].server
  /\ Ends(p)
  /\ UNCHANGED <<servers, tables, jobs, lock>>

(***************************************************************************)
(* A Job is saved: ensure() reads the server, then the table, makes the     *)
(* table if it is missing, tells the profile whose default table it is, and *)
(* only then is the document written.                                       *)
(***************************************************************************)
Busy(j) == \E q \in Processes : "job" \in DOMAIN request[q] /\ request[q].job = j

SaveJob(p) ==
  Ready(p) /\ \E j \in {x \in Jobs : ~Busy(x)}, s \in {x \in Names : Registered(x)},
                  t \in Tables, m \in Mappings, needs, fractional \in BOOLEAN :
    /\ Begins(p, [at |-> "look", job |-> j, server |-> s, seen |-> servers[s].table,
                  db |-> Database(s, t, m.value, m.string),
                  needs |-> needs, fractional |-> fractional])
    /\ UNCHANGED <<servers, default, tables, jobs, lock>>

Fits(r) == validatedExistingMapping(r.db.table, r.db.value, r.db.string, r.fractional)

Look(p) ==
  LET r == request[p]
      made == Database(r.server, r.db.table, "VALUE", IF r.needs THEN "STR_VALUE" ELSE "") IN
  /\ At(p, "look")
  /\ IF ~Known(r.db.table)
     THEN request' = [request EXCEPT ![p].at = "make", ![p].db = made] /\ UNCHANGED served
     ELSE IF Fits(r) THEN Goes(p, "save") ELSE Ends(p)
  /\ UNCHANGED <<servers, default, tables, jobs, lock>>

(* createTable() reads the server again, asks for the table and creates it; *)
(* another process may have created it before the question or before the    *)
(* CREATE, which the database then refuses.                                 *)
MakeTable(p) ==
  LET r == request[p] IN
  /\ At(p, "make")
  /\ Registered(r.server) /\ ~Known(r.db.table)
  /\ tables' = [tables EXCEPT ![r.db.table] = Made(r.db.string)]
  /\ Goes(p, IF r.seen = r.db.table THEN "columns" ELSE "save")
  /\ UNCHANGED <<servers, default, jobs, lock>>

MakeFails(p) ==
  /\ At(p, "make")
  /\ \/ ~Registered(request[p].server) /\ Ends(p)
     \/ Known(request[p].db.table) /\ (Ends(p) \/ Goes(p, "again"))
  /\ UNCHANGED <<servers, default, tables, jobs, lock>>

LookAgain(p) ==
  /\ At(p, "again")
  /\ IF Fits(request[p]) THEN Goes(p, "save") ELSE Ends(p)
  /\ UNCHANGED <<servers, default, tables, jobs, lock>>

\* Mutant: the profile is not read again, only what ensure() saw of it.
SetDefaultTableColumns_Stale(p) ==
  LET r == request[p] IN
  /\ At(p, "columns")
  /\ lock[r.server] = Nobody
  /\ servers' = [servers EXCEPT ![r.server] =
       IF @ # Nothing THEN Profile(@.table, r.db.value, r.db.string) ELSE @]
  /\ IF Registered(r.server) THEN Goes(p, "save") ELSE Ends(p)
  /\ UNCHANGED <<default, tables, jobs, lock>>

(* setDefaultTableColumns() reads the profile again under the lock.         *)
SetDefaultTableColumns(p) ==
  LET r == request[p] IN
  /\ At(p, "columns")
  /\ lock[r.server] = Nobody
  /\ servers' = [servers EXCEPT ![r.server] =
       IF @.table = r.db.table THEN Profile(@.table, r.db.value, r.db.string) ELSE @]
  /\ IF Registered(r.server) THEN Goes(p, "save") ELSE Ends(p)
  /\ UNCHANGED <<default, tables, jobs, lock>>

StoreJob(p) ==
  /\ At(p, "save")
  /\ jobs' = [jobs EXCEPT ![request[p].job] = request[p].db]
  /\ Ends(p)
  /\ UNCHANGED <<servers, default, tables, lock>>

DeleteJob(p) ==
  \E j \in Jobs :
    /\ jobs[j] # Nothing /\ ~Busy(j)
    /\ Begins(p, Idle)
    /\ jobs' = [jobs EXCEPT ![j] = Nothing]
    /\ UNCHANGED <<servers, default, tables, lock>>

Next == \E p \in Processes :
  \/ CreateServer(p) \/ CreateLocked(p) \/ UpdateServer(p) \/ UpdateLocked(p)
  \/ WriteServer(p) \/ Release(p) \/ DeleteServer(p) \/ RemoveLocked(p) \/ Unlink(p)
  \/ (request[p] # Idle /\ Refused(p, request[p].server))
  \/ ReadSettings(p) \/ ListServers(p) \/ WriteSettings(p)
  \/ SaveJob(p) \/ Look(p) \/ MakeTable(p) \/ MakeFails(p) \/ LookAgain(p)
  \/ SetDefaultTableColumns(p) \/ StoreJob(p) \/ DeleteJob(p)

Spec == Init /\ [][Next]_vars

(***************************************************************************)
(* What a saved Job writes into is there: its table is a TAG table that has *)
(* the columns the document names, even when two requests made the table at *)
(* once, or made it for Jobs of different needs.                            *)
(***************************************************************************)
MappingFits ==
  \A j \in Jobs : jobs[j] # Nothing =>
    validatedExistingMapping(jobs[j].table, jobs[j].value, jobs[j].string, FALSE)

(***************************************************************************)
(* A profile of a table that has been there from the start keeps columns of *)
(* that table: the columns a Job's new table got are never written into the *)
(* profile of another table, whatever the profile was changed to meanwhile. *)
(***************************************************************************)
ProfileFits ==
  \A s \in Names : Registered(s) /\ servers[s].table \in DOMAIN Given =>
    servers[s].value \in Given[servers[s].table].numeric

(***************************************************************************)
(* A removed server stays removed until it is created again: an update or a *)
(* Job's new table that read it before the removal does not bring it back.  *)
(* (localhost comes back whenever the servers are listed.)                  *)
(***************************************************************************)
NotResurrected ==
  \A s \in Names \ {Local} : Registered(s)' /\ ~Registered(s) =>
      \E p \in Processes : At(p, "write") /\ request[p].server = s /\ request[p].new
NeverResurrected == [][NotResurrected]_vars

(***************************************************************************)
(* The settings' default server is registered: it cannot be removed before  *)
(* another one is the default.                                              *)
(***************************************************************************)
DefaultRegistered == Registered(default)

(***************************************************************************)
(* A server that a Job uses is not removed.                                 *)
(***************************************************************************)
ServerInUseStays == \A j \in Jobs : jobs[j] # Nothing => Registered(jobs[j].server)
=============================================================================
