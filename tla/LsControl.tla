----------------------------- MODULE LsControl -----------------------------
(* The LS Jobs as the CGI processes and the collector share them: canonical *)
(* documents with their indexes, the one Database profile with the copy the *)
(* collector reads, the control commands and the Jobs that run.  A request  *)
(* is a process of its own that may die between two writes; its locks are   *)
(* held until it ends (OperationLock).  What the collector does inside a    *)
(* command is CollectorDaemon's.                                            *)
EXTENDS Naturals, Sequences

CONSTANTS Jobs,
          MaxOps,     \* bound on the requests
          MaxDeaths   \* bound on the deaths of requests and of the collector

VARIABLES doc,        \* per Job: the canonical document, or None
          idx,        \* per Job: the index, a summary of a document, or None
          table,      \* the Default Table of the stored profile
          secret,     \* the table in the collector's copy of the profile
          service,    \* the collector service: "absent", "stopped", "running"
          active,     \* file: the Jobs that are to run
          state,      \* file: the runtime state of each Job
          conf,       \* per Job: what the collector loaded when it started it
          commands,   \* control commands the collector has not answered
          ops,        \* the requests, in the order they came
          deaths,
          cut,        \* ghost: Jobs whose last save broke off in the middle
          split,      \* ghost: the last profile save broke off in the middle
          stale,      \* ghost: Jobs started while split
          unguarded,  \* ghost: Jobs started while another request worked on them
          unheard     \* ghost: Jobs whose log level the collector was not told
vars == <<doc, idx, table, secret, service, active, state, conf, commands, ops, deaths,
          cut, split, stale, unguarded, unheard>>
stored    == <<doc, idx, cut>>
profile   == <<table, secret, split>>
collector == <<service, active, state, conf, commands, stale, unguarded>>

None == [rev |-> 0]
Tables == {"bench", "plant"}    \* TEST input is for the first only
Levels == {"info", "debug"}
Ids == DOMAIN ops
Is(o, kind, pc) == ops[o].kind = kind /\ ops[o].pc = pc
At(o, pc) == ops[o].pc = pc
Goto(o, pc) == ops' = [ops EXCEPT ![o].pc = pc]
End(o) == Goto(o, "done")

Holders(j) == {o \in Ids : ops[o].pc # "done" /\ ops[o].kind # "put" /\ ops[o].job = j}
ProfileHolders == {o \in Ids : ops[o].pc # "done" /\ ops[o].kind \in {"start", "put"}}

Registered(j) == doc[j] # None /\ idx[j] # None

\* Mutant: a Job that is being prepared counts as stopped.
Shown_StartingStopped(j) ==
    IF service = "running" /\ state[j] \in {"running", "stopping", "failed"} THEN state[j] ELSE "stopped"

\* inspect, lsState: what a Job is shown as.
Shown(j) ==
    IF service = "running" /\ state[j] \in {"starting", "running", "stopping", "failed"}
    THEN state[j] ELSE "stopped"
Busy(j) == Shown(j) \in {"starting", "running", "stopping"}

\* databaseChangeBlockers
Blockers == active \cup {j \in Jobs : state[j] \in {"starting", "running", "stopping"}}
-----------------------------------------------------------------------------
(* Requests.  want is the document a request is about to store.             *)

Lock(kind, j) == Holders(j) = {} /\ (kind = "start" => ProfileHolders = {})

Request(kind, j, pc, want) ==
    /\ Len(ops) < MaxOps /\ Lock(kind, j)
    /\ ops' = Append(ops, [kind |-> kind, job |-> j, pc |-> pc, want |-> want])

\* Leftovers of an interrupted create or delete make room.
Create(j, test) ==
    /\ ~Registered(j)
    /\ Request("create", j, "ensure",
               [rev |-> 1, cfg |-> Len(ops) + 1, log |-> "info", test |-> test])
    /\ doc' = [doc EXCEPT ![j] = None] /\ idx' = [idx EXCEPT ![j] = None]
    /\ cut' = cut \ {j}
    /\ UNCHANGED <<profile, collector, deaths, unheard>>

\* guardMutable; the patch may also be what is stored already.
Update(j, test, same) ==
    /\ doc[j] # None /\ ~Busy(j)
    /\ Request("update", j, "ensure",
               IF same THEN doc[j]
               ELSE [doc[j] EXCEPT !.rev = @ + 1, !.cfg = Len(ops) + 1, !.test = test])
    /\ UNCHANGED <<stored, profile, collector, deaths, unheard>>

UpdateLog(j, level) ==
    /\ doc[j] # None
    /\ Request("log", j, "store",
               IF level = doc[j].log THEN doc[j] ELSE [doc[j] EXCEPT !.rev = @ + 1, !.log = level])
    /\ UNCHANGED <<stored, profile, collector, deaths, unheard>>

Start(j) ==
    /\ Registered(j)
    /\ Request("start", j, IF idx[j].test THEN "profile" ELSE "service", None)
    /\ UNCHANGED <<stored, profile, collector, deaths, unheard>>

\* installLs publishes the profile on its way.
InstallJob(j) ==
    /\ Registered(j)
    /\ Request("install", j, "install", None)
    /\ secret' = table /\ split' = FALSE
    /\ UNCHANGED <<stored, table, collector, deaths, unheard>>

Stop(j) ==
    /\ Registered(j)
    /\ Request("stop", j, "exec", None)
    /\ UNCHANGED <<stored, profile, collector, deaths, unheard>>

Delete(j) ==
    /\ Registered(j)
    /\ Request("delete", j, "discard", None)
    /\ UNCHANGED <<stored, profile, collector, deaths, unheard>>

\* PUT /db/server, refused at once while a Job runs.
Put(t) ==
    /\ Len(ops) < MaxOps /\ ProfileHolders = {} /\ Blockers = {}
    /\ ops' = Append(ops, [kind |-> "put", pc |-> "provision", to |-> t, todo |-> {}])
    /\ UNCHANGED <<stored, profile, collector, deaths, unheard>>

\* The rest of a request that only reports, and failures before any write.
Finish(o) ==
    /\ ops[o].pc \in {"ensure", "provision", "store", "service", "exec", "confirm"}
    /\ End(o)
    /\ unheard' = IF Is(o, "log", "exec") THEN unheard \cup {ops[o].job} ELSE unheard
    /\ UNCHANGED <<stored, profile, collector, deaths>>
-----------------------------------------------------------------------------
(* Documents.                                                               *)

\* ensureDatabase: the profile is applied, and the table made ready meanwhile.
Ensure(o) ==
    /\ At(o, "ensure")
    /\ ops' = [ops EXCEPT ![o].pc = "store", ![o].want.test = @ /\ table = "bench"]
    /\ UNCHANGED <<stored, profile, collector, deaths, unheard>>

\* Mutant: the old index goes before the new document comes.
Save_IndexFirst(j, d) ==
    \/ doc' = [doc EXCEPT ![j] = d] /\ idx' = [idx EXCEPT ![j] = d] /\ cut' = cut \ {j}
    \/ doc' = [doc EXCEPT ![j] = d] /\ idx' = [idx EXCEPT ![j] = None] /\ cut' = cut \cup {j}

\* repository.save and syncIndex: the first write may be the last.
Save(j, d) ==
    \/ doc' = [doc EXCEPT ![j] = d] /\ idx' = [idx EXCEPT ![j] = d] /\ cut' = cut \ {j}
    \/ /\ d # doc[j] /\ doc' = [doc EXCEPT ![j] = d]
       /\ cut' = cut \cup {j} /\ UNCHANGED idx

Broken(j) == cut' # cut \ {j}

StoreUpdate(o) ==
    LET j == ops[o].job IN
    /\ Is(o, "update", "store")
    /\ Save(j, ops[o].want) /\ End(o)
    /\ UNCHANGED <<profile, collector, deaths, unheard>>

\* createLs: document, index, the collector's configuration; install.
StoreCreate(o) ==
    LET j == ops[o].job IN
    /\ Is(o, "create", "store")
    /\ Save(j, ops[o].want)
    /\ \/ ~Broken(j) /\ Goto(o, "install") /\ secret' = table /\ split' = FALSE
       \/ End(o) /\ UNCHANGED <<secret, split>>
    /\ UNCHANGED <<table, collector, deaths, unheard>>

Install(o) ==
    LET j == ops[o].job IN
    /\ At(o, "install") /\ End(o)
    /\ \/ service' = (IF service = "absent" THEN "stopped" ELSE service) /\ UNCHANGED stored
       \/ /\ service = "absent" /\ ops[o].kind = "create" /\ UNCHANGED service
          /\ doc' = [doc EXCEPT ![j] = None] /\ idx' = [idx EXCEPT ![j] = None] /\ UNCHANGED cut
    /\ UNCHANGED <<profile, active, state, conf, commands, stale, unguarded, deaths, unheard>>

\* updateLog: only a Job that is shown as running is told.
StoreLog(o) ==
    LET j == ops[o].job IN
    /\ Is(o, "log", "store")
    /\ Save(j, ops[o].want)
    /\ IF Broken(j) \/ Shown(j) # "running" THEN End(o) ELSE Goto(o, "exec")
    /\ unheard' = IF Busy(j) /\ (Broken(j) \/ Shown(j) # "running") THEN unheard \cup {j} ELSE unheard
    /\ UNCHANGED <<profile, collector, deaths>>

\* deleteLs: inspected and discarded without a pause.
Discard(o) ==
    LET j == ops[o].job IN
    /\ At(o, "discard") /\ End(o)
    /\ IF Busy(j) THEN UNCHANGED stored
       ELSE /\ doc' = [doc EXCEPT ![j] = None]
            /\ \/ idx' = [idx EXCEPT ![j] = None] /\ cut' = cut \ {j}
               \/ cut' = cut \cup {j} /\ UNCHANGED idx
    /\ UNCHANGED <<profile, collector, deaths, unheard>>
-----------------------------------------------------------------------------
(* The Database profile.                                                    *)

\* After the table is ready: the blockers again, and the store.
Commit(o) ==
    /\ At(o, "provision")
    /\ IF Blockers # {} THEN End(o) /\ UNCHANGED table
       ELSE table' = ops[o].to /\ Goto(o, "list")
    /\ UNCHANGED <<stored, secret, split, collector, deaths, unheard>>

Tests == {j \in Jobs : Registered(j) /\ doc[j].test}

\* disableForDatabase lists its Jobs once; one that another request holds
\* ends the update, as does one that is gone.
ListTests(o) ==
    /\ At(o, "list")
    /\ ops' = [ops EXCEPT ![o].pc = "normalise", ![o].todo = IF ops[o].to = "bench" THEN {} ELSE Tests]
    /\ UNCHANGED <<stored, profile, collector, deaths, unheard>>

Normalise(o) ==
    /\ At(o, "normalise")
    /\ \E j \in ops[o].todo :
         IF Holders(j) # {} \/ doc[j] = None
         THEN End(o) /\ split' = TRUE /\ UNCHANGED stored
         ELSE /\ IF doc[j].test THEN Save(j, [doc[j] EXCEPT !.rev = @ + 1, !.test = FALSE])
                                ELSE UNCHANGED stored
              /\ IF doc[j].test /\ Broken(j) THEN End(o) /\ split' = TRUE
                 ELSE ops' = [ops EXCEPT ![o].todo = @ \ {j}] /\ UNCHANGED split
    /\ UNCHANGED <<table, secret, collector, deaths, unheard>>

\* syncConfig, which may fail.
Sync(o) ==
    /\ At(o, "normalise") /\ ops[o].todo = {}
    /\ End(o)
    /\ \/ secret' = table /\ split' = FALSE
       \/ split' = TRUE /\ UNCHANGED secret
    /\ UNCHANGED <<stored, table, collector, deaths, unheard>>
-----------------------------------------------------------------------------
(* Control commands.                                                        *)

\* A TEST Job is looked at again before it starts.
Recheck(o) ==
    LET j == ops[o].job IN
    /\ At(o, "profile")
    /\ \/ doc[j].test /\ table = "bench" /\ Goto(o, "service") /\ UNCHANGED stored
       \/ /\ ~(doc[j].test /\ table = "bench")
          /\ Save(j, [doc[j] EXCEPT !.rev = @ + 1, !.test = FALSE])
          /\ IF Broken(j) THEN End(o) ELSE Goto(o, "service")
       \/ End(o) /\ UNCHANGED stored
    /\ UNCHANGED <<profile, collector, deaths, unheard>>

\* ensureRunning: installed and started where it is not.
EnsureRunning(o) ==
    /\ At(o, "service") /\ service = "running"
    /\ Goto(o, "exec")
    /\ UNCHANGED <<stored, profile, collector, deaths, unheard>>
Register(o) ==
    /\ At(o, "service") /\ service = "absent" /\ service' = "stopped"
    /\ UNCHANGED <<stored, profile, active, state, conf, commands, stale, unguarded, ops, deaths, unheard>>

Act(o) == IF ops[o].kind = "log" THEN "refresh" ELSE ops[o].kind
Exec(o) ==
    /\ At(o, "exec") /\ service = "running"
    /\ commands' = commands \cup {[act |-> Act(o), job |-> ops[o].job, op |-> o]}
    /\ Goto(o, "wait")
    /\ UNCHANGED <<stored, profile, service, active, state, conf, stale, unguarded, deaths, unheard>>

\* The client gives up after 30 seconds; the command stays.
Timeout(o) ==
    /\ At(o, "wait") /\ End(o)
    /\ unheard' = IF ops[o].kind = "log" THEN unheard \cup {ops[o].job} ELSE unheard
    /\ UNCHANGED <<stored, profile, collector, deaths>>

Reply(c, ok) ==
    /\ commands' = commands \ {c}
    /\ ops' = IF At(c.op, "wait") THEN [ops EXCEPT ![c.op].pc = "confirm"] ELSE ops
    /\ unheard' = IF c.act = "refresh" /\ At(c.op, "wait")
                  THEN IF ok THEN unheard \ {c.job} ELSE unheard \cup {c.job}
                  ELSE unheard
-----------------------------------------------------------------------------
(* The collector.                                                           *)

\* loadJob: document and index must agree, and TEST needs its table.
Loads(j) == Registered(j) /\ doc[j].rev = idx[j].rev
Loaded(j) == [cfg |-> doc[j].cfg, log |-> doc[j].log, table |-> secret,
              test |-> doc[j].test /\ secret = "bench"]
InTable(j) == state[j] \in {"starting", "running", "stopping"}

\* Others at work on what the start of j by request o reads; 0 is no request.
Others(j, o) == Holders(j) \ {o} # {} \/ ProfileHolders \ {o} # {}

Started(js, o) ==
    /\ state' = [j \in Jobs |-> IF j \in js THEN "starting" ELSE state[j]]
    /\ conf' = [j \in Jobs |-> IF j \in js THEN Loaded(j) ELSE conf[j]]
    /\ stale' = IF split THEN stale \cup js ELSE stale \ js
    /\ unguarded' = {j \in js : Others(j, o)} \cup (unguarded \ js)

Serve(c) ==
    /\ service = "running" /\ c \in commands
    /\ LET j == c.job IN
       CASE c.act = "start" ->
              IF Loads(j) /\ ~InTable(j)
              THEN Started({j}, c.op) /\ active' = active \cup {j} /\ Reply(c, TRUE)
              ELSE Reply(c, Loads(j)) /\ UNCHANGED <<active, state, conf, stale, unguarded>>
         [] c.act = "stop" ->
              /\ active' = active \ {j}
              /\ IF state[j] \in {"starting", "running"}
                 THEN state' = [state EXCEPT ![j] = "stopping"] /\ UNCHANGED <<commands, ops, unheard>>
                 ELSE state[j] # "stopping" /\ Reply(c, TRUE) /\ UNCHANGED state
              /\ UNCHANGED <<conf, stale, unguarded>>
         [] c.act = "refresh" ->
              /\ conf' = IF Loads(j) THEN [conf EXCEPT ![j].log = doc[j].log] ELSE conf
              /\ Reply(c, Loads(j)) /\ UNCHANGED <<active, state, stale, unguarded>>
    /\ UNCHANGED <<stored, profile, service, deaths>>

\* What becomes of a Job that starts, runs or stops.
Progress(j) ==
    /\ service = "running"
    /\ \/ state[j] = "starting" /\ state' = [state EXCEPT ![j] = "running"] /\ UNCHANGED active
       \/ /\ state[j] \in {"starting", "running"} /\ state' = [state EXCEPT ![j] = "failed"]
          /\ active' = active \ {j}
       \/ state[j] = "stopping" /\ state' = [state EXCEPT ![j] = "stopped"] /\ UNCHANGED active
    /\ UNCHANGED <<stored, profile, service, conf, commands, stale, unguarded, ops, deaths, unheard>>

\* A crash or stopDaemon: the files stay; clients lose their connection.
CollectorDies ==
    /\ service = "running" /\ deaths < MaxDeaths /\ deaths' = deaths + 1
    /\ service' = "stopped" /\ commands' = {}
    /\ ops' = [o \in Ids |-> IF At(o, "wait") THEN [ops[o] EXCEPT !.pc = "confirm"] ELSE ops[o]]
    /\ unheard' = unheard \cup {ops[o].job : o \in {p \in Ids : Is(p, "log", "wait")}}
    /\ UNCHANGED <<stored, profile, active, state, conf, stale, unguarded>>

\* installPackage and startDaemon publish the profile before anything else.
Publish ==
    /\ secret' = table /\ split' = FALSE
    /\ UNCHANGED <<stored, table, collector, ops, deaths, unheard>>

\* The controller, or a start, starts the service; the Jobs of the active file
\* that can be loaded start again.
Boot ==
    /\ service = "stopped" /\ service' = "running"
    /\ LET js == {j \in active : Loads(j)} IN
       /\ state' = [j \in Jobs |-> IF j \in js THEN "starting" ELSE "none"]
       /\ conf' = [j \in Jobs |-> IF j \in js THEN Loaded(j) ELSE conf[j]]
       /\ stale' = IF split THEN js ELSE {}
       /\ unguarded' = {j \in js : Others(j, 0)}
       /\ active' = js
    /\ UNCHANGED <<stored, profile, commands, ops, deaths, unheard>>

\* A CGI process ends where it is.
Dies(o) ==
    /\ ops[o].pc # "done" /\ deaths < MaxDeaths /\ deaths' = deaths + 1
    /\ End(o)
    /\ split' = (split \/ ops[o].pc \in {"list", "normalise"})
    /\ unheard' = IF ops[o].kind = "log" /\ ops[o].pc \in {"exec", "wait"}
                  THEN unheard \cup {ops[o].job} ELSE unheard
    /\ UNCHANGED <<stored, table, secret, collector>>
-----------------------------------------------------------------------------
Init ==
    /\ \E s \in SUBSET Jobs :
         doc = [j \in Jobs |-> IF j \in s THEN [rev |-> 1, cfg |-> 0, log |-> "info", test |-> FALSE] ELSE None]
    /\ idx = doc /\ table \in Tables /\ secret = table
    /\ service = "stopped" /\ active = {} /\ state = [j \in Jobs |-> "none"]
    /\ conf = [j \in Jobs |-> [cfg |-> 0, log |-> "info", table |-> table, test |-> FALSE]]
    /\ commands = {} /\ ops = << >> /\ deaths = 0
    /\ cut = {} /\ split = FALSE /\ stale = {} /\ unguarded = {} /\ unheard = {}

Next ==
    \/ \E j \in Jobs : \/ \E test \in BOOLEAN : Create(j, test) \/ \E same \in BOOLEAN : Update(j, test, same)
                       \/ \E l \in Levels : UpdateLog(j, l)
                       \/ Start(j) \/ InstallJob(j) \/ Stop(j) \/ Delete(j) \/ Progress(j)
    \/ \E t \in Tables : Put(t)
    \/ \E o \in Ids : \/ Finish(o) \/ Ensure(o) \/ StoreUpdate(o) \/ StoreCreate(o) \/ Install(o)
                      \/ StoreLog(o) \/ Discard(o) \/ Commit(o) \/ ListTests(o) \/ Normalise(o) \/ Sync(o)
                      \/ Recheck(o) \/ EnsureRunning(o) \/ Register(o) \/ Exec(o) \/ Timeout(o) \/ Dies(o)
    \/ \E c \in commands : Serve(c)
    \/ CollectorDies \/ Publish \/ Boot

Spec == Init /\ [][Next]_vars
-----------------------------------------------------------------------------
Runs(j) == service = "running" /\ state[j] \in {"starting", "running"}

(* A Job writes to the table of the stored profile: a profile is saved while *)
(* nothing runs and nothing starts.  Not if the save broke off, or a start   *)
(* was carried out when its request had given up and others were at work.    *)
ProfileInForce == \A j \in Jobs : Runs(j) /\ j \notin stale \cup unguarded => conf[j].table = table

(* A Job runs the document that is stored, also while requests for it come   *)
(* and go, the collector restarts and processes die.                         *)
RunsWhatIsStored ==
    \A j \in Jobs : Runs(j) /\ j \notin unguarded => doc[j] # None /\ conf[j].cfg = doc[j].cfg

(* The collector logs a Job at the stored level, unless it could not be told *)
(* or was still preparing the Job; saving the same level again tells it.     *)
LogLevelInForce ==
    \A j \in Jobs : Runs(j) /\ Holders(j) = {} /\ j \notin unheard \cup unguarded /\ j \notin cut
        => conf[j].log = doc[j].log

(* Nobody at work, a Job's index tells its document, unless its last save    *)
(* broke off; storing what is stored already repairs even that.              *)
IndexTellsDocument ==
    \A j \in Jobs : Holders(j) = {} /\ j \notin cut => doc[j] = idx[j]

(* A Job stays registered, whoever dies when, until its deletion or the     *)
(* installation of its service fails.                                        *)
NameKept ==
    \A j \in Jobs : Registered(j) /\ ~Registered(j)'
        => \E o \in Holders(j) : ops[o].kind \in {"delete", "create"}
NameNeverLost == [][NameKept]_vars

(* Returning to the benchmark table can never re-enable TEST.                *)
TestNeverReturns == [][table # "bench" /\ table' = "bench" => Tests = {}]_vars
=============================================================================
