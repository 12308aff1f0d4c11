------------------------------ MODULE Surfaces ------------------------------
(* The two documents of the package, side.html and main.html: each has its   *)
(* own AppProvider with its own Job list and selection, and they talk over   *)
(* the package channel.  Messages arrive once, in the order sent; the list   *)
(* of a document and the server's Jobs are functions from names to states.   *)
EXTENDS Naturals, Sequences, Functions

CONSTANTS Jobs,      \* Job names, positive numbers in list order
          Starts,    \* the sets of Jobs that the server may have at first
          MaxSaves,  \* bound on the saves of the form
          MaxInputs  \* bound on what the user does, and on reloads

VARIABLES stored,    \* the server's Jobs
          jobs,      \* per document: the list shown
          selected,  \* per document: selected, 0 for none
          asked,     \* per document: the newest list request
          lease,     \* per document: jobSaveRef
          deferred,  \* per document: pendingJobSelectionRef
          wire,      \* per document: the messages on their way to it
          route,     \* the route of the main document
          saves,     \* the calls of JobForm.save, by token
          over,      \* the tokens whose 15 seconds are over
          op,        \* per document: the switch of the side, the deletion in main
          inputs,
          choice,    \* ghost: the Job that the user, or else a save, chose last
          behind,    \* ghost: documents whose list nobody has announced to be old
          crossed    \* ghost: choice met another choice that was still on its way
ConstantsFit == Jobs \subseteq Nat \ {0} /\ Starts \subseteq SUBSET Jobs
vars == <<stored, jobs, selected, asked, lease, deferred, wire, route, saves, over,
          op, inputs, choice, behind, crossed>>

Docs == {"side", "main"}
Other(d) == IF d = "side" THEN "main" ELSE "side"
Free == [active |-> FALSE, token |-> 0]
Idle == [pc |-> "idle"]
Nothing == [in |-> "nothing"]
Home == [at |-> "home", job |-> 0]
Route(a, j) == [at |-> a, job |-> j]     \* "job" and "edit" show the Job, "new" none
First(list) == IF DOMAIN list = {} THEN 0
               ELSE CHOOSE j \in DOMAIN list : \A k \in DOMAIN list : j <= k
Holds(d) == lease[d].active /\ lease[d].token \notin over
Choices(d) == \E i \in DOMAIN wire[d] : wire[d][i].type = "select"
-----------------------------------------------------------------------------
(* What a handler does to one document is a record of its next state: the    *)
(* fields of the provider and the messages it sends.                         *)

State(d) == [selected |-> selected[d], lease |-> lease[d], deferred |-> deferred[d],
             asked |-> asked[d], route |-> route, out |-> << >>]
Send(s, m) == [s EXCEPT !.out = Append(@, m)]
SelectMsg(j, sync) == [type |-> "select", job |-> j, sync |-> sync]
LeaseMsg(l) == [type |-> "lease", lease |-> l]

\* The side publishes every change of its selection (an effect of the provider).
Select(d, s, j) ==
    LET t == [s EXCEPT !.selected = j]
    IN  IF d = "side" /\ j # s.selected /\ j # 0 THEN Send(t, SelectMsg(j, TRUE)) ELSE t

Open(d, s, r) == IF d = "main" THEN [s EXCEPT !.route = r] ELSE s

\* commitJobSelection
Commit(d, s, j) == Select(d, Send(Open(d, s, Route("job", j)), SelectMsg(j, FALSE)), j)

\* Mutant: the end of a save forgets the Job chosen meanwhile.
Clear_Forgets(d, s, token, broadcast) ==
    IF ~s.lease.active \/ s.lease.token # token THEN s
    ELSE LET quiet == [s EXCEPT !.lease.active = FALSE, !.deferred = 0]
         IN  IF broadcast THEN Send(quiet, LeaseMsg(quiet.lease)) ELSE quiet

\* clearJobSave: nothing unless the lease is the caller's.
Clear(d, s, token, broadcast) ==
    IF ~s.lease.active \/ s.lease.token # token THEN s
    ELSE LET quiet == [s EXCEPT !.lease.active = FALSE, !.deferred = 0]
             told  == IF broadcast THEN Send(quiet, LeaseMsg(quiet.lease)) ELSE quiet
         IN  IF s.deferred = 0 THEN told ELSE Commit(d, told, s.deferred)

\* selectJob
Choose(d, s, j) ==
    IF Holds(d) /\ s.lease.active THEN [s EXCEPT !.deferred = j]
    ELSE Commit(d, Clear(d, s, s.lease.token, FALSE), j)

\* The start of refresh: older answers are dropped by its generation.
Ask(s) == [s EXCEPT !.asked = [in |-> "request"]]

\* What main had begun on a page that it leaves is no longer current: the
\* save of a form, the deletion of a Job.
Left(r) == [t \in DOMAIN saves |->
              IF r # route THEN [saves[t] EXCEPT !.current = FALSE] ELSE saves[t]]
Follow(r) ==
    /\ saves' = Left(r)
    /\ op' = IF op["main"].pc = "idle" \/ r = route THEN op
             ELSE [op EXCEPT !["main"].current = FALSE]

\* Document d becomes s, its inbox becomes inbox.
Become(d, s, inbox) ==
    /\ selected' = [selected EXCEPT ![d] = s.selected]
    /\ lease' = [lease EXCEPT ![d] = s.lease]
    /\ deferred' = [deferred EXCEPT ![d] = s.deferred]
    /\ asked' = [asked EXCEPT ![d] = s.asked]
    /\ route' = s.route
    /\ wire' = [wire EXCEPT ![d] = inbox, ![Other(d)] = @ \o s.out]

\* The user, or a save that ended, chose Job j.
Chosen(j) ==
    /\ choice' = IF j \in DOMAIN stored THEN j ELSE 0
    /\ crossed' = \E d \in Docs : Choices(d) \/ deferred[d] # 0

Input == inputs < MaxInputs /\ inputs' = inputs + 1
-----------------------------------------------------------------------------
(* The channel: one message handled.                                         *)

ReadyMessage(d, from) ==
    CASE d = "main" /\ from = "side" /\ route.job # 0 ->
           Send([State(d) EXCEPT !.selected = route.job], SelectMsg(route.job, TRUE))
      [] d = "side" /\ from = "main" /\ selected[d] # 0 ->
           Send(State(d), SelectMsg(selected[d], TRUE))
      [] OTHER -> State(d)

LeaseMessage(d, l) ==
    IF ~l.active THEN Clear(d, State(d), l.token, FALSE)
    ELSE IF l.token \in over \/ (lease[d].active /\ lease[d].token > l.token) THEN State(d)
    ELSE [State(d) EXCEPT !.lease = l]

\* An automatic sync opens only the empty page; a click may leave any page.
SelectMessage(d, j, sync) ==
    IF Holds(d) THEN [State(d) EXCEPT !.deferred = j]
    ELSE LET keep == sync /\ d = "main" /\ route.job # 0
             s    == IF keep THEN State(d) ELSE Select(d, State(d), j)
         IN  IF ~sync \/ route = Home THEN Open(d, s, Route("job", j)) ELSE s

Handled(d, m) ==
    CASE m.type = "ready"   -> ReadyMessage(d, m.from)
      [] m.type = "refresh" -> Ask(State(d))
      [] m.type = "lease"   -> LeaseMessage(d, m.lease)
      [] m.type = "select"  -> SelectMessage(d, m.job, m.sync)
      [] m.type = "go"      -> Open(d, State(d), m.route)

Deliver(d) ==
    /\ wire[d] # << >>
    /\ LET m == Head(wire[d])
           s == Handled(d, m)
       IN  /\ Become(d, s, Tail(wire[d]))
           /\ Follow(s.route)
           /\ behind' = IF m.type = "refresh" THEN behind \ {d} ELSE behind
    /\ UNCHANGED <<stored, jobs, over, inputs, choice, crossed>>
-----------------------------------------------------------------------------
(* The Job list.                                                             *)

Refresh(d) ==
    /\ Input /\ Become(d, Ask(State(d)), wire[d])
    /\ behind' = behind \ {d}
    /\ UNCHANGED <<stored, jobs, saves, over, op, choice, crossed>>

ServerList(d) ==
    /\ asked[d].in = "request"
    /\ asked' = [asked EXCEPT ![d] = [in |-> "answer", list |-> stored]]
    /\ UNCHANGED <<stored, jobs, selected, lease, deferred, wire, route, saves, over, op,
                   inputs, choice, behind, crossed>>

\* The answer is shown; a selection that is gone moves to the first Job, which
\* the other document hears of as of a choice, and a main document at its root
\* opens that one.  A document whose list is old gives up its choice for good.
ListAnswer(d) ==
    /\ asked[d].in = "answer"
    /\ LET list  == asked[d].list
           keeps == selected[d] \in DOMAIN list
           s     == [State(d) EXCEPT !.asked = Nothing]
           t     == IF keeps THEN s ELSE Select(d, s, First(list))
       IN  /\ jobs' = [jobs EXCEPT ![d] = list]
           /\ Become(d, IF route = Home /\ First(list) # 0
                        THEN Open(d, t, Route("job", First(list))) ELSE t, wire[d])
           /\ crossed' = (crossed \/ (~keeps /\ \E e \in Docs : Choices(e) \/ deferred[e] # 0))
           /\ choice' = IF keeps \/ d \notin behind THEN choice ELSE 0
    /\ UNCHANGED <<stored, saves, over, op, inputs, behind>>

\* A failed list is reported; the old one stays.
ListFail(d) ==
    /\ asked[d].in # "nothing"
    /\ asked' = [asked EXCEPT ![d] = Nothing]
    /\ behind' = behind \cup {d}
    /\ UNCHANGED <<stored, jobs, selected, lease, deferred, wire, route, saves, over, op,
                   inputs, choice, crossed>>
-----------------------------------------------------------------------------
(* The user. *)

\* A click on a Job of the side's list.
Click(j) ==
    /\ Input /\ j \in DOMAIN jobs["side"]
    /\ Become("side", Choose("side", State("side"), j), wire["side"])
    /\ Chosen(j)
    /\ UNCHANGED <<stored, jobs, saves, over, op, behind>>

\* New Job on the side.
NewJob ==
    /\ Input
    /\ Become("side", Send(State("side"), [type |-> "go", route |-> Route("new", 0)]), wire["side"])
    /\ UNCHANGED <<stored, jobs, saves, over, op, choice, behind, crossed>>

\* The Edit link and the Back button of main.
Walk(r) ==
    /\ Input /\ route.job # 0
    /\ r \in {Route("job", route.job), Route("edit", route.job)} /\ r # route
    /\ route' = r /\ Follow(r)
    /\ UNCHANGED <<stored, jobs, selected, asked, lease, deferred, wire, over, choice,
                   behind, crossed>>

\* A document is loaded again; what it knew and did is gone.
Reload(d) ==
    /\ Input /\ op[d].pc = "idle"
    /\ selected' = [selected EXCEPT ![d] = 0] /\ jobs' = [jobs EXCEPT ![d] = << >>]
    /\ lease' = [lease EXCEPT ![d] = Free] /\ deferred' = [deferred EXCEPT ![d] = 0]
    /\ asked' = [asked EXCEPT ![d] = [in |-> "request"]]
    /\ wire' = [wire EXCEPT ![d] = << >>, ![Other(d)] = Append(@, [type |-> "ready", from |-> d])]
    /\ IF d = "main"
       THEN /\ route' = Home
            /\ saves' = [t \in DOMAIN saves |-> [saves[t] EXCEPT !.pc = "done"]]
            /\ behind' = IF \E t \in DOMAIN saves : saves[t].pc = "written"
                         THEN {"side"} ELSE behind \ {d}
       ELSE behind' = behind \ {d} /\ UNCHANGED <<route, saves>>
    /\ choice' = 0
    /\ UNCHANGED <<stored, over, op, crossed>>
-----------------------------------------------------------------------------
(* Mutations through run: the switch of a Job on the side, Delete in main.   *)

Begin(d, kind, j, to) ==
    /\ Input /\ op[d].pc = "idle"
    /\ op' = [op EXCEPT ![d] = [pc |-> "sent", kind |-> kind, job |-> j, to |-> to,
                                current |-> TRUE]]
    /\ UNCHANGED <<stored, jobs, selected, asked, lease, deferred, wire, route, saves, over,
                   choice, behind, crossed>>
Switch(j) == j \in DOMAIN jobs["side"] /\ Begin("side", "toggle", j, ~jobs["side"][j])
Delete == route.at = "job" /\ Begin("main", "remove", route.job, FALSE)

\* The server: an operation that is refused, or fails with or without effect.
Serve(d) ==
    /\ op[d].pc = "sent"
    /\ LET j     == op[d].job
           after == IF op[d].kind = "toggle" THEN [stored EXCEPT ![j] = op[d].to]
                    ELSE Restrict(stored, DOMAIN stored \ {j})
       IN  \/ /\ j \in DOMAIN stored
              /\ op[d].kind = "remove" => ~stored[j]
              /\ stored' = after
              /\ choice' = IF choice \in DOMAIN after THEN choice ELSE 0
              /\ \E ok \in BOOLEAN :
                    /\ op' = [op EXCEPT ![d].pc = IF ok THEN "done" ELSE "failed"]
                    /\ behind' = IF ok THEN behind ELSE Docs
           \/ op' = [op EXCEPT ![d].pc = "failed"] /\ UNCHANGED <<stored, behind, choice>>
    /\ UNCHANGED <<jobs, selected, asked, lease, deferred, wire, route, saves, over, inputs, crossed>>

\* The Job has changed once more since the mutation of d.
ChangedAgain(d) ==
    LET j == op[d].job
    IN  IF op[d].kind = "remove" THEN j \in DOMAIN stored
        ELSE j \notin DOMAIN stored \/ stored[j] # op[d].to

\* The rest of run: the other document is told, this one merges the result
\* into its list; a result that main no longer waits for is dropped.
Result(d) ==
    /\ op[d].pc = "done" /\ op[d].current
    /\ LET j == op[d].job
           s == Send(State(d), [type |-> "refresh"])
       IN  /\ jobs' = [jobs EXCEPT ![d] =
                 IF op[d].kind = "remove" THEN Restrict(@, DOMAIN @ \ {j})
                 ELSE IF j \in DOMAIN @ THEN [@ EXCEPT ![j] = op[d].to] ELSE @]
           /\ Become(d, IF op[d].kind = "remove"
                        THEN Send(Open(d, s, Home), [type |-> "go", route |-> Home]) ELSE s, wire[d])
           /\ saves' = IF op[d].kind = "remove" THEN Left(Home) ELSE saves
    /\ op' = [op EXCEPT ![d] = Idle]
    /\ behind' = IF asked[d].in = "answer" \/ ChangedAgain(d) THEN behind \cup {d} ELSE behind
    /\ UNCHANGED <<stored, over, inputs, choice, crossed>>

Dropped(d) ==
    /\ op[d].pc = "failed" \/ (op[d].pc = "done" /\ ~op[d].current)
    /\ op' = [op EXCEPT ![d] = Idle]
    /\ behind' = IF op[d].pc = "done" THEN Docs ELSE behind
    /\ UNCHANGED <<stored, jobs, selected, asked, lease, deferred, wire, route, saves, over,
                   inputs, choice, crossed>>
-----------------------------------------------------------------------------
(* JobForm.save. *)

\* beginJobSave: refused while a lease holds.
Save(j) ==
    /\ route.at = "new" \/ route = Route("edit", j)
    /\ Len(saves) < MaxSaves /\ ~Holds("main")
    /\ \A t \in DOMAIN saves : saves[t].current => saves[t].pc = "done"
    /\ LET l == [active |-> TRUE, token |-> Len(saves) + 1]
       IN  Become("main", Send([State("main") EXCEPT !.lease = l], LeaseMsg(l)), wire["main"])
    /\ saves' = Append(saves, [pc |-> "check", job |-> j, new |-> route.at = "new",
                               current |-> TRUE, saved |-> FALSE])
    /\ UNCHANGED <<stored, jobs, over, op, inputs, choice, behind, crossed>>

Step(t, pc) == saves' = [saves EXCEPT ![t].pc = pc]

\* The checks of the form and of the server; warnings end the call, too.
Check(t) ==
    /\ saves[t].pc = "check"
    /\ Step(t, "end") \/ (saves[t].current /\ Step(t, "write"))
    /\ UNCHANGED <<stored, jobs, selected, asked, lease, deferred, wire, route, over, op,
                   inputs, choice, behind, crossed>>

Created(j) == [k \in DOMAIN stored \cup {j} |-> k # j /\ stored[k]]

\* create or update; a lost answer leaves the document stored.
Write(t) ==
    /\ saves[t].pc = "write"
    /\ LET j == saves[t].job IN
       \/ /\ saves[t].new <=> j \notin DOMAIN stored
          /\ stored' = IF saves[t].new THEN Created(j) ELSE stored
          /\ \/ Step(t, "written") /\ UNCHANGED behind
             \/ Step(t, "end") /\ behind' = Docs
       \/ Step(t, "end") /\ UNCHANGED <<stored, behind>>
    /\ UNCHANGED <<jobs, selected, asked, lease, deferred, wire, route, over, op, inputs,
                   choice, crossed>>

\* The answer: refresh with broadcast, unless the form was left meanwhile.
Written(t) ==
    /\ saves[t].pc = "written"
    /\ IF saves[t].current
       THEN /\ Become("main", Ask(Send(State("main"), [type |-> "refresh"])), wire["main"])
            /\ saves' = [saves EXCEPT ![t].pc = "end", ![t].saved = TRUE]
            /\ behind' = behind \ {"main"}
       ELSE /\ Step(t, "end") /\ behind' = Docs
            /\ UNCHANGED <<selected, asked, lease, deferred, wire, route>>
    /\ UNCHANGED <<stored, jobs, over, op, inputs, choice, crossed>>

\* The finally block, at any time after the list request: the lease ends, the
\* deferred choice is opened, or else the saved Job if nothing else happened.
End(t) ==
    /\ saves[t].pc = "end"
    /\ LET s     == Clear("main", State("main"), t, TRUE)
           opens == /\ saves[t].saved /\ saves[t].current /\ deferred["main"] = 0
                    /\ lease["main"] = [active |-> TRUE, token |-> t]
           r     == IF opens THEN Choose("main", s, saves[t].job) ELSE s
       IN  /\ Become("main", r, wire["main"])
           /\ saves' = [Left(r.route) EXCEPT ![t].pc = "done"]
           /\ IF opens THEN Chosen(saves[t].job) ELSE UNCHANGED <<choice, crossed>>
    /\ UNCHANGED <<stored, jobs, over, op, inputs, behind>>

\* Time: the 15 seconds of a token, and the timers of the two documents.
Expire(t) ==
    /\ t \notin over /\ over' = over \cup {t}
    /\ UNCHANGED <<stored, jobs, selected, asked, lease, deferred, wire, route, saves, op,
                   inputs, choice, behind, crossed>>

LeaseTimer(d) ==
    /\ lease[d].active /\ lease[d].token \in over
    /\ LET s == Clear(d, State(d), lease[d].token, d = "main")
       IN  /\ Become(d, IF d = "main" THEN Ask(s) ELSE s, wire[d])
           /\ Follow(s.route)
    /\ behind' = IF d = "main" THEN behind \ {d} ELSE behind
    /\ UNCHANGED <<stored, jobs, over, inputs, choice, crossed>>
-----------------------------------------------------------------------------
\* Both documents are up and agree.
Init ==
    /\ stored \in UNION {[s -> {FALSE}] : s \in Starts}
    /\ jobs = [d \in Docs |-> stored] /\ selected = [d \in Docs |-> First(stored)]
    /\ route = IF First(stored) = 0 THEN Home ELSE Route("job", First(stored))
    /\ asked = [d \in Docs |-> Nothing] /\ wire = [d \in Docs |-> << >>]
    /\ lease = [d \in Docs |-> Free] /\ deferred = [d \in Docs |-> 0]
    /\ saves = << >> /\ over = {} /\ op = [d \in Docs |-> Idle]
    /\ inputs = 0 /\ choice = 0 /\ behind = {} /\ crossed = FALSE

Next ==
    \/ \E d \in Docs : \/ Deliver(d) \/ Refresh(d) \/ ServerList(d) \/ ListAnswer(d) \/ ListFail(d)
                       \/ Reload(d) \/ Serve(d) \/ Result(d) \/ Dropped(d) \/ LeaseTimer(d)
    \/ \E j \in Jobs : Click(j) \/ Switch(j) \/ Save(j)
    \/ NewJob \/ Delete
    \/ \E r \in {Route(a, j) : a \in {"job", "edit"}, j \in Jobs} : Walk(r)
    \/ \E t \in DOMAIN saves : Check(t) \/ Write(t) \/ Written(t) \/ End(t) \/ Expire(t)

Spec == Init /\ [][Next]_vars
-----------------------------------------------------------------------------
Quiet == /\ \A d \in Docs : wire[d] = << >> /\ asked[d] = Nothing /\ op[d] = Idle /\ ~lease[d].active
         /\ \A t \in DOMAIN saves : saves[t].pc = "done"

(* When everything has settled, the side highlights the Job chosen last, and *)
(* main shows that one or no Job: a choice made while a save holds the pages *)
(* is put off, never lost, unless it met another choice, or the one that a   *)
(* list made by itself, on its way.  A side whose list is known to be old    *)
(* may have had to give it up.                                               *)
LastChoiceShown ==
    Quiet /\ choice # 0 /\ ~crossed /\ "side" \notin behind =>
         selected["side"] = choice /\ route.job \in {0, choice}

(* When everything has settled, a document shows the server's Jobs, unless   *)
(* its last list failed, or nobody was there to announce the change.         *)
ListSettles == Quiet => \A d \in Docs \ behind : jobs[d] = stored

(* After a save the highlight of the side is the Job that main shows.        *)
HighlightAligned ==
    Quiet /\ choice # 0 /\ (\E t \in DOMAIN saves : saves[t].saved)
        => route.job \in {0, selected["side"]}
=============================================================================
