------------------------------- MODULE JobPage -------------------------------
(* The detail page of an LS Job: useLoad with its poll, the Log level that    *)
(* may be applied while the Job runs, the skipped cycles that may be cleared, *)
(* and what GET /job/status answers: the index as it was read first, the      *)
(* state of the collector as it was read after it.  Time is left out: a poll  *)
(* may come at any moment while the page believes that the Job runs.          *)
EXTENDS Naturals, Sequences

CONSTANTS Jobs,
          MaxInputs,   \* bound on the inputs of the operator
          MaxChanges   \* bound on what others and the collector do

VARIABLES index,     \* per Job: the revision and the Log level of its index
          runtime,   \* per Job: the collector's runtime record
          up,        \* the collector service runs
          name,      \* the Job of the route
          data,      \* loaded.data, Absent before the answer and after a failure
          asked,     \* the active request of useLoad
          logLevel,  \* the level in the select
          waiting,   \* which of logSaving and overrunClearing are set
          active,    \* the mutation that the page waits for
          late,      \* aborted mutations that the server may get to all the same
          inputs, changes,
          chosen,    \* ghost: the operator set the select after the last effect
          applied,   \* ghost: the revision of the newest level this page applied
          strayed    \* ghost: an Apply was aborted
ConstantsFit == Jobs # {}
vars == <<index, runtime, up, name, data, asked, logLevel, waiting, active, late, inputs,
          changes, chosen, applied, strayed>>
server  == <<index, runtime, up, changes>>
page    == <<name, data, logLevel, waiting, chosen, applied, strayed>>
changed == <<active, late, inputs>>

Absent == [rev |-> 0]
Levels == {"info", "debug"}
NoRequest == [pc |-> "nothing"]
None == [kind |-> "none"]
Request == [pc |-> "sent"]
-----------------------------------------------------------------------------
(* What the server answers. *)

\* lsState: the record of a collector that does not run is an old one.  A Job
\* that starts or stops counts as running.
Executes(j) == up /\ runtime[j].state = "running"

\* lsLastRun: a Job that was never read has none, and so no skipped cycles.
Skipped(j) == runtime[j].read /\ runtime[j].skipped

\* overview: one reading of the service and of the runtime file; a controller
\* that does not answer leaves the Job neither running nor stopped, and with
\* no last run.
Overview(j) == [running |-> Executes(j), skipped |-> Skipped(j)]
Unknown == [running |-> FALSE, skipped |-> FALSE]

\* configFromIndex: the level is that of the index; what it takes from the
\* server profile is left out.
ConfigFromIndex(conf) == [level |-> conf.level]

\* view
View(j, conf, told) ==
    [job |-> j, rev |-> conf.rev, level |-> ConfigFromIndex(conf).level,
     running |-> told.running, skipped |-> told.skipped]

\* status: the index first, ...
Look ==
    /\ asked.pc = "sent"
    /\ asked' = [pc |-> "looked", conf |-> index[name]]
    /\ UNCHANGED <<server, page, changed>>

\* ... then the service and the runtime file.
Tell ==
    /\ asked.pc = "looked"
    /\ \E told \in {Overview(name), Unknown} :
          asked' = [pc |-> "answer", data |-> View(name, asked.conf, told)]
    /\ UNCHANGED <<server, page, changed>>

LoadFails ==
    /\ asked.pc \in {"sent", "looked"} /\ asked' = [pc |-> "failed"]
    /\ UNCHANGED <<server, page, changed>>

\* What others do to the Job; the level is the only part of it that matters.
OtherEdits(j, l) ==
    /\ changes < MaxChanges /\ changes' = changes + 1
    /\ index' = [index EXCEPT ![j] = [rev |-> @.rev + 1, level |-> l]]
    /\ UNCHANGED <<runtime, up, page, asked, changed>>

\* The collector: a Job starts, stops, is read, skips a cycle.
CollectorActs(j) ==
    /\ changes < MaxChanges /\ changes' = changes + 1 /\ up
    /\ \/ runtime' = [runtime EXCEPT ![j].state = IF @ = "running" THEN "stopped" ELSE "running"]
       \/ /\ runtime[j].state = "running"
          /\ \/ runtime' = [runtime EXCEPT ![j].read = TRUE]
             \/ runtime' = [runtime EXCEPT ![j].skipped = TRUE]
    /\ UNCHANGED <<index, up, page, asked, changed>>

ServiceTurns ==
    /\ changes < MaxChanges /\ changes' = changes + 1 /\ up' = ~up
    /\ UNCHANGED <<index, runtime, page, asked, changed>>
-----------------------------------------------------------------------------
(* useLoad. *)

\* reload gives up the active request; what it brings is not heard any more.
Poll ==
    /\ data # Absent /\ data.running
    /\ asked' = Request
    /\ UNCHANGED <<server, page, changed>>

\* The Job list was loaded, here or on behalf of the other document.
Listed ==
    /\ asked' = Request
    /\ UNCHANGED <<server, page, changed>>

RefreshMonitoring ==
    /\ asked.pc = "nothing"
    /\ asked' = Request
    /\ UNCHANGED <<server, page, changed>>

\* The data shown become d; the select follows when the revision is another.
Shows(d) ==
    /\ data' = d
    /\ IF d.rev = data.rev THEN UNCHANGED <<logLevel, chosen>>
       ELSE logLevel' = (IF d = Absent THEN "info" ELSE d.level) /\ chosen' = FALSE

Hear ==
    /\ asked.pc \in {"answer", "failed"}
    /\ Shows(IF asked.pc = "answer" THEN asked.data ELSE Absent)
    /\ asked' = NoRequest
    /\ UNCHANGED <<server, name, waiting, changed, applied, strayed>>
-----------------------------------------------------------------------------
(* The operator. *)

Input == inputs < MaxInputs /\ inputs' = inputs + 1

\* What the page waits for is aborted.
Abort ==
    /\ late' = (late \cup {active}) \ {None}
    /\ strayed' = (strayed \/ (active # None /\ active.kind = "level"))

\* The route goes to Job j; the page stays mounted and keeps its switches.
Go(j) ==
    /\ Input /\ j # name
    /\ name' = j /\ data' = Absent /\ asked' = Request
    /\ logLevel' = "info" /\ chosen' = FALSE /\ applied' = 0
    /\ Abort /\ active' = None
    /\ UNCHANGED <<server, waiting>>

ChooseLevel(l) ==
    /\ Input /\ data # Absent /\ "level" \notin waiting /\ l # logLevel
    /\ logLevel' = l /\ chosen' = TRUE
    /\ UNCHANGED <<server, name, data, asked, waiting, active, late, applied, strayed>>

\* beginMutation, and the switch of the mutation
Begin(mutation) ==
    /\ Input /\ data # Absent /\ mutation.kind \notin waiting
    /\ Abort /\ active' = mutation /\ waiting' = waiting \cup {mutation.kind}
    /\ UNCHANGED <<server, name, data, asked, logLevel, chosen, applied>>

SaveLogLevel ==
    Begin([kind |-> "level", job |-> name, level |-> logLevel]) /\ logLevel # data.level

ClearOverrun ==
    Begin([kind |-> "clear", job |-> name]) /\ data.skipped
-----------------------------------------------------------------------------
(* The mutations. *)

\* updateLog changes the level of whatever document there is: the revision
\* that the page sends is not compared.
LevelServed(m) ==
    /\ m.kind = "level"
    /\ index' = [index EXCEPT ![m.job] =
          IF @.level = m.level THEN @ ELSE [rev |-> @.rev + 1, level |-> m.level]]
    /\ UNCHANGED runtime

\* clearOverrun, by a command to the collector
OverrunServed(m) ==
    /\ m.kind = "clear" /\ up
    /\ runtime' = [runtime EXCEPT ![m.job].skipped = FALSE]
    /\ UNCHANGED index

Served(m) == LevelServed(m) \/ OverrunServed(m)

\* The page waits no longer.
Ends ==
    /\ active' = None
    /\ waiting' = waiting \ {active.kind}
    /\ UNCHANGED <<up, changes, name, data, logLevel, late, inputs, chosen, strayed>>

\* run: a result makes the page load again.  The effect and the hearing of its
\* answer are one step: what lies between them shows nothing to the page.
Succeeds ==
    /\ active # None /\ Served(active) /\ Ends
    /\ asked' = Request
    /\ applied' = IF active.kind = "level" THEN index'[name].rev ELSE applied

\* A request may fail before its effect, or after it.
Fails ==
    /\ active # None /\ Ends
    /\ Served(active) \/ UNCHANGED <<index, runtime>>
    /\ UNCHANGED <<asked, applied>>

ServedLate(m) ==
    /\ Served(m) /\ late' = late \ {m}
    /\ UNCHANGED <<up, changes, page, asked, active, inputs>>
-----------------------------------------------------------------------------
Init ==
    /\ index = [j \in Jobs |-> [rev |-> 1, level |-> "info"]]
    /\ \E r \in {[state |-> "stopped", read |-> FALSE, skipped |-> FALSE],
                [state |-> "running", read |-> TRUE, skipped |-> TRUE]} :
          runtime = [j \in Jobs |-> r]
    /\ up = TRUE /\ name = CHOOSE j \in Jobs : TRUE     \* the Jobs are alike
    /\ data = Absent /\ asked = Request
    /\ logLevel = "info" /\ waiting = {}
    /\ active = None /\ late = {} /\ inputs = 0 /\ changes = 0
    /\ chosen = FALSE /\ applied = 0 /\ strayed = FALSE

Answer == Succeeds \/ Fails

Next ==
    \/ Look \/ Tell \/ LoadFails \/ ServiceTurns
    \/ Poll \/ Listed \/ RefreshMonitoring \/ Hear
    \/ SaveLogLevel \/ ClearOverrun \/ Answer
    \/ \E j \in Jobs : Go(j) \/ CollectorActs(j) \/ (\E l \in Levels : OtherEdits(j, l))
    \/ \E l \in Levels : ChooseLevel(l)
    \/ \E m \in late : ServedLate(m)

Spec == Init /\ [][Next]_vars /\ WF_vars(Answer)
-----------------------------------------------------------------------------
(* The page shows the Job of its route, and the select shows the level that   *)
(* the Job shown has, unless the operator set it: answers of another Job and  *)
(* of requests that were given up are not heard (useLoad).                    *)
ShowsItsJob ==
    data # Absent => data.job = name /\ (~chosen => logLevel = data.level)

(* Once a level was applied the page never settles on a revision before it,   *)
(* although a poll may have read the index before the change: run makes the   *)
(* page load again, and gives up the poll that was on its way.                *)
AppliedIsShown == asked.pc = "nothing" /\ data # Absent => data.rev >= applied

(* The button that says Applying says so until the request has ended.  A      *)
(* mutation begun meanwhile, or another route, aborts the request; its finally *)
(* block is not current then and leaves the button disabled.                  *)
Applying == "level" \in waiting /\ ~strayed
ApplyingEnds == Applying ~> ~Applying

(* The comment at App.jsx:41 says that the detail stays usable when the       *)
(* request of the last run fails for a moment.  It does not hold: the last    *)
(* run now comes with the Job, useLoad drops both with the failure, and       *)
(* without them the poll ends as well.                                        *)
StaysUsable == [][data # Absent /\ name' = name => data' # Absent]_vars
=============================================================================
