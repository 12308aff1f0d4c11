---------------------------- MODULE SurfacesProofs ----------------------------
(***************************************************************************)
(* Proofs about Surfaces for any set of Jobs, any number of saves and any  *)
(* number of inputs.  IInv is the inductive invariant.  The handlers of a  *)
(* document are functions from a state to a state: that each of them keeps *)
(* the types and the pending list request is shown once (Select, Commit,   *)
(* Clear, Choose, Handled), what Become makes of it once more, and every   *)
(* action follows from that.  Two further parts are about the detail page  *)
(* of a Job (JobPage) and the Data Viewer page (DataViewer).               *)
(***************************************************************************)
EXTENDS Surfaces, FiniteSetTheorems, WellFoundedInduction, SequenceTheorems, TLAPS

-----------------------------------------------------------------------------
(* The inductive invariant                                                 *)

Job0   == Jobs \cup {0}
Lists  == UNION {[s -> BOOLEAN] : s \in SUBSET Jobs}
Leases == [active : BOOLEAN, token : Nat]
Routes == [at : {"home", "job", "edit", "new"}, job : Job0]

ReadyMsgs   == [type : {"ready"}, from : Docs]
RefreshMsgs == [type : {"refresh"}]
LeaseMsgs   == [type : {"lease"}, lease : Leases]
SelectMsgs  == [type : {"select"}, job : Job0, sync : BOOLEAN]
GoMsgs      == [type : {"go"}, route : Routes]
Messages    == ReadyMsgs \cup RefreshMsgs \cup LeaseMsgs \cup SelectMsgs \cup GoMsgs

Requests == [in : {"nothing", "request"}] \cup [in : {"answer"}, list : Lists]
Calls    == [pc : {"check", "write", "written", "end", "done"}, job : Jobs, new : BOOLEAN,
             current : BOOLEAN, saved : BOOLEAN]
Mutations == [pc : {"sent", "done", "failed"}, kind : {"toggle", "remove"}, job : Job0,
              to : BOOLEAN, current : BOOLEAN]

States == [selected : Job0, lease : Leases, deferred : Job0, asked : Requests,
           route : Routes, out : Seq(Messages)]

TypedDocs ==
  /\ selected \in [Docs -> Job0] /\ lease \in [Docs -> Leases] /\ deferred \in [Docs -> Job0]
  /\ asked \in [Docs -> Requests] /\ wire \in [Docs -> Seq(Messages)] /\ route \in Routes

TypedRest ==
  /\ stored \in Lists /\ jobs \in [Docs -> Lists] /\ saves \in Seq(Calls)
  /\ op \in [Docs -> {Idle} \cup Mutations] /\ behind \in SUBSET Docs

Typed == TypedDocs /\ TypedRest

(* A document whose list is not the server's has been told so, or will be: *)
(* by a message, by its own request, by a mutation or a save whose answer  *)
(* is on its way.  What it will show is the list that it has or that has   *)
(* been answered, with the result of its own mutation merged into it,      *)
(* unless another change of the same Job makes that result an old one.     *)
Refreshes(q) == \E i \in DOMAIN q : q[i].type = "refresh"

Told(e) ==
  \/ e \in behind
  \/ Refreshes(wire[e])
  \/ asked[e].in = "request"
  \/ op[Other(e)].pc = "done"
  \/ \E t \in DOMAIN saves : saves[t].pc = "written"

Merge(list, o) ==
  IF o.kind = "remove" THEN Restrict(list, DOMAIN list \ {o.job})
  ELSE IF o.job \in DOMAIN list THEN [list EXCEPT ![o.job] = o.to] ELSE list

Known(e)  == IF asked[e].in = "answer" THEN asked[e].list ELSE jobs[e]
Merged(e) == IF op[e].pc = "done" THEN Merge(Known(e), op[e]) ELSE Known(e)
UpToDate(e) == Merged(e) = stored \/ (op[e].pc = "done" /\ ChangedAgain(e))

Announced == \A e \in Docs : Told(e) \/ UpToDate(e)

IInv == Typed /\ Announced

-----------------------------------------------------------------------------
(* The handlers                                                            *)

\* The first Job of a list is one of the Jobs.
LEMMA FirstIsAJob ==
  ASSUME ConstantsFit, NEW list \in Lists
  PROVE  First(list) \in Job0
  <1>1. CASE DOMAIN list = {}
    BY <1>1 DEF First, Job0
  <1>2. CASE DOMAIN list # {}
    <2>1. DOMAIN list \subseteq Jobs /\ DOMAIN list \subseteq Nat
      <3>1. Jobs \subseteq Nat
        BY DEF ConstantsFit
      <3>2. DOMAIN list \subseteq Jobs
        BY DEF Lists
      <3>3. QED
        BY <3>1, <3>2
    <2>2. \E j \in DOMAIN list : \A k \in DOMAIN list : <<k, j>> \notin OpToRel(<, Nat)
      BY <1>2, <2>1, NatLessThanWellFounded, WFMin
    <2>3. \E j \in DOMAIN list : \A k \in DOMAIN list : j <= k
      <3>1. ASSUME NEW j \in Nat, NEW k \in Nat, k < j  PROVE <<k, j>> \in OpToRel(<, Nat)
        BY <3>1 DEF OpToRel
      <3>2. \A j, k \in Nat : k < j \/ j <= k
        OBVIOUS
      <3>3. QED
        BY <2>1, <2>2, <3>1, <3>2
    <2>4. QED
      BY <1>2, <2>1, <2>3 DEF First, Job0
  <1>3. QED
    BY <1>1, <1>2

\* What a handler keeps.
Kept(s, t) == t \in States /\ t.asked = s.asked

LEMMA StateTyped ==
  ASSUME Typed, NEW d \in Docs
  PROVE  State(d) \in States /\ State(d).asked = asked[d]
  BY DEF Typed, TypedDocs, State, States

LEMMA SendKeeps ==
  ASSUME NEW s \in States, NEW m \in Messages
  PROVE  Kept(s, Send(s, m))
  BY DEF Kept, Send, States

LEMMA MessagesTyped ==
  /\ \A j \in Job0, b \in BOOLEAN : SelectMsg(j, b) \in Messages
  /\ \A l \in Leases : LeaseMsg(l) \in Messages
  /\ [type |-> "refresh"] \in Messages
  /\ \A r \in Routes : [type |-> "go", route |-> r] \in Messages
  /\ \A d \in Docs : [type |-> "ready", from |-> d] \in Messages
  BY DEF Messages, SelectMsg, SelectMsgs, LeaseMsg, LeaseMsgs, RefreshMsgs, GoMsgs, ReadyMsgs

LEMMA SelectKeeps ==
  ASSUME NEW d \in Docs, NEW s \in States, NEW j \in Job0
  PROVE  Kept(s, Select(d, s, j))
  <1> DEFINE t == [s EXCEPT !.selected = j]
  <1>1. t \in States /\ t.asked = s.asked
    BY DEF States
  <1>2. Kept(t, Send(t, SelectMsg(j, TRUE)))
    BY <1>1, SendKeeps, MessagesTyped
  <1>3. QED
    BY <1>1, <1>2 DEF Select, Kept

LEMMA OpenKeeps ==
  ASSUME NEW d \in Docs, NEW s \in States, NEW r \in Routes
  PROVE  Kept(s, Open(d, s, r))
  BY DEF Kept, Open, States

LEMMA CommitKeeps ==
  ASSUME NEW d \in Docs, NEW s \in States, NEW j \in Job0
  PROVE  Kept(s, Commit(d, s, j))
  <1>1. Route("job", j) \in Routes
    BY DEF Route, Routes
  <1>2. PICK t : t = Open(d, s, Route("job", j))
    OBVIOUS
  <1>3. Kept(s, t)
    BY <1>1, <1>2, OpenKeeps
  <1>4. PICK u : u = Send(t, SelectMsg(j, FALSE))
    OBVIOUS
  <1>5. Kept(t, u)
    BY <1>3, <1>4, SendKeeps, MessagesTyped DEF Kept
  <1>6. Kept(u, Select(d, u, j))
    BY <1>5, SelectKeeps DEF Kept
  <1>7. QED
    BY <1>2, <1>3, <1>4, <1>5, <1>6 DEF Commit, Kept

LEMMA ClearKeeps ==
  ASSUME NEW d \in Docs, NEW s \in States, NEW token \in Nat, NEW broadcast \in BOOLEAN
  PROVE  Kept(s, Clear(d, s, token, broadcast))
  <1>1. CASE ~s.lease.active \/ s.lease.token # token
    BY <1>1 DEF Clear, Kept
  <1>2. CASE ~(~s.lease.active \/ s.lease.token # token)
    <2>1. PICK quiet : quiet = [s EXCEPT !.lease.active = FALSE, !.deferred = 0]
      OBVIOUS
    <2>2. Kept(s, quiet) /\ quiet.lease \in Leases
      BY <2>1 DEF Kept, States, Leases, Job0
    <2>3. PICK told : told = IF broadcast THEN Send(quiet, LeaseMsg(quiet.lease)) ELSE quiet
      OBVIOUS
    <2>4. Kept(s, told)
      BY <2>2, <2>3, SendKeeps, MessagesTyped DEF Kept
    <2>5. Kept(told, Commit(d, told, s.deferred))
      BY <2>4, CommitKeeps DEF Kept, States
    <2>6. Clear(d, s, token, broadcast)
            = IF s.deferred = 0 THEN told ELSE Commit(d, told, s.deferred)
      BY <1>2, <2>1, <2>3 DEF Clear
    <2>7. QED
      BY <2>4, <2>5, <2>6 DEF Kept
  <1>3. QED
    BY <1>1, <1>2

LEMMA ChooseKeeps ==
  ASSUME NEW d \in Docs, NEW s \in States, NEW j \in Job0
  PROVE  Kept(s, Choose(d, s, j))
  <1>1. Kept(s, [s EXCEPT !.deferred = j])
    BY DEF Kept, States
  <1>2. PICK t : t = Clear(d, s, s.lease.token, FALSE)
    OBVIOUS
  <1>3. Kept(s, t)
    BY <1>2, ClearKeeps DEF States, Leases
  <1>4. Kept(t, Commit(d, t, j))
    BY <1>3, CommitKeeps DEF Kept
  <1>5. QED
    BY <1>1, <1>2, <1>3, <1>4 DEF Choose, Kept

LEMMA ReadyKeeps ==
  ASSUME Typed, NEW d \in Docs, NEW from \in Docs
  PROVE  Kept(State(d), ReadyMessage(d, from))
  <1> DEFINE t == [State(d) EXCEPT !.selected = route.job]
  <1>1. State(d) \in States /\ route.job \in Job0 /\ selected[d] \in Job0
    BY StateTyped DEF Typed, TypedDocs, Routes
  <1>2. Kept(State(d), t)
    BY <1>1 DEF Kept, States
  <1>3. Kept(t, Send(t, SelectMsg(route.job, TRUE)))
    BY <1>1, <1>2, SendKeeps, MessagesTyped DEF Kept
  <1>4. Kept(State(d), Send(State(d), SelectMsg(selected[d], TRUE)))
    BY <1>1, SendKeeps, MessagesTyped
  <1>5. QED
    BY <1>1, <1>2, <1>3, <1>4 DEF ReadyMessage, Kept

LEMMA LeaseKeeps ==
  ASSUME Typed, NEW d \in Docs, NEW l \in Leases
  PROVE  Kept(State(d), LeaseMessage(d, l))
  <1>1. State(d) \in States /\ l.token \in Nat
    BY StateTyped DEF Leases
  <1>2. Kept(State(d), Clear(d, State(d), l.token, FALSE))
    BY <1>1, ClearKeeps
  <1>3. Kept(State(d), [State(d) EXCEPT !.lease = l]) /\ Kept(State(d), State(d))
    BY <1>1 DEF Kept, States
  <1>4. QED
    BY <1>2, <1>3 DEF LeaseMessage

LEMMA ChoiceKeeps ==
  ASSUME Typed, NEW d \in Docs, NEW j \in Job0, NEW sync \in BOOLEAN
  PROVE  Kept(State(d), SelectMessage(d, j, sync))
  <1>1. State(d) \in States /\ Route("job", j) \in Routes
    BY StateTyped DEF Route, Routes
  <1>2. Kept(State(d), [State(d) EXCEPT !.deferred = j]) /\ Kept(State(d), State(d))
    BY <1>1 DEF Kept, States
  <1>3. Kept(State(d), Select(d, State(d), j))
    BY <1>1, SelectKeeps
  <1>4. \A s \in States : Kept(s, Open(d, s, Route("job", j)))
    BY <1>1, OpenKeeps
  <1>5. QED
    BY <1>1, <1>2, <1>3, <1>4 DEF SelectMessage, Kept

\* A message of the channel: the list is asked for after a refresh only.
LEMMA HandledKeeps ==
  ASSUME Typed, NEW d \in Docs, NEW m \in Messages
  PROVE  /\ Handled(d, m) \in States
         /\ Handled(d, m).asked = asked[d] \/ Handled(d, m).asked.in = "request"
         /\ m.type = "refresh" => Handled(d, m).asked.in = "request"
  <1>1. State(d) \in States /\ State(d).asked = asked[d]
    BY StateTyped
  <1>2. CASE m \in ReadyMsgs
    BY <1>1, <1>2, ReadyKeeps DEF Handled, ReadyMsgs, Kept
  <1>3. CASE m \in RefreshMsgs
    <2>1. Handled(d, m) = [State(d) EXCEPT !.asked = [in |-> "request"]]
      BY <1>3 DEF Handled, RefreshMsgs, Ask
    <2>2. [in |-> "request"] \in Requests
      BY DEF Requests
    <2>3. QED
      BY <1>1, <2>1, <2>2 DEF States
  <1>4. CASE m \in LeaseMsgs
    BY <1>1, <1>4, LeaseKeeps DEF Handled, LeaseMsgs, Kept
  <1>5. CASE m \in SelectMsgs
    BY <1>1, <1>5, ChoiceKeeps DEF Handled, SelectMsgs, Kept
  <1>6. CASE m \in GoMsgs
    BY <1>1, <1>6, OpenKeeps DEF Handled, GoMsgs, Kept
  <1>7. QED
    BY <1>2, <1>3, <1>4, <1>5, <1>6 DEF Messages

-----------------------------------------------------------------------------
(* What a step does to both documents                                      *)

LEMMA AskTyped ==
  ASSUME NEW s \in States
  PROVE  Ask(s) \in States /\ Ask(s).asked.in = "request"
  BY DEF Ask, States, Requests

LEMMA BecomeTyped ==
  ASSUME Typed, NEW d \in Docs, NEW s \in States, NEW inbox \in Seq(Messages),
         Become(d, s, inbox)
  PROVE  /\ TypedDocs'
         /\ asked' = [asked EXCEPT ![d] = s.asked]
         /\ wire'[d] = inbox /\ wire'[Other(d)] = wire[Other(d)] \o s.out
  <1>1. Other(d) \in Docs /\ Other(d) # d
    BY DEF Other, Docs
  <1>2. s.out \in Seq(Messages) /\ wire[Other(d)] \in Seq(Messages)
    BY <1>1 DEF States, Typed, TypedDocs
  <1>3. wire[Other(d)] \o s.out \in Seq(Messages)
    BY <1>2
  <1>4. wire' = [wire EXCEPT ![d] = inbox, ![Other(d)] = wire[Other(d)] \o s.out]
    BY <1>1 DEF Become, Typed, TypedDocs
  <1>5. wire' \in [Docs -> Seq(Messages)] /\ wire'[d] = inbox
        /\ wire'[Other(d)] = wire[Other(d)] \o s.out
    BY <1>1, <1>3, <1>4 DEF Typed, TypedDocs
  <1>6. s.selected \in Job0 /\ s.lease \in Leases /\ s.deferred \in Job0 /\ s.asked \in Requests
        /\ s.route \in Routes
    BY DEF States
  <1>7. QED
    BY <1>5, <1>6 DEF Become, Typed, TypedDocs

LEMMA RefreshesAfter ==
  ASSUME NEW q \in Seq(Messages), NEW r \in Seq(Messages), Refreshes(q) \/ Refreshes(r)
  PROVE  Refreshes(q \o r)
  <1>1. CASE Refreshes(q)
    <2>1. PICK i \in DOMAIN q : q[i].type = "refresh"
      BY <1>1 DEF Refreshes
    <2>2. i \in DOMAIN (q \o r) /\ (q \o r)[i] = q[i]
      BY <2>1
    <2>3. QED
      BY <2>1, <2>2 DEF Refreshes
  <1>2. CASE Refreshes(r)
    <2>1. PICK i \in DOMAIN r : r[i].type = "refresh"
      BY <1>2 DEF Refreshes
    <2>2. Len(q) + i \in DOMAIN (q \o r) /\ (q \o r)[Len(q) + i] = r[i]
      BY <2>1
    <2>3. QED
      BY <2>1, <2>2 DEF Refreshes
  <1>3. QED
    BY <1>1, <1>2

LEMMA RefreshesAppend ==
  ASSUME NEW q \in Seq(Messages), NEW m \in Messages,
         Refreshes(q) \/ m.type = "refresh"
  PROVE  Refreshes(Append(q, m))
  <1>1. CASE Refreshes(q)
    <2>1. PICK i \in DOMAIN q : q[i].type = "refresh"
      BY <1>1 DEF Refreshes
    <2>2. i \in DOMAIN Append(q, m) /\ Append(q, m)[i] = q[i]
      BY <2>1
    <2>3. QED
      BY <2>1, <2>2 DEF Refreshes
  <1>2. CASE m.type = "refresh"
    <2>1. Len(q) + 1 \in DOMAIN Append(q, m) /\ Append(q, m)[Len(q) + 1] = m
      OBVIOUS
    <2>2. QED
      BY <1>2, <2>1 DEF Refreshes
  <1>3. QED
    BY <1>1, <1>2

LEMMA RefreshesTail ==
  ASSUME NEW q \in Seq(Messages), q # << >>, Refreshes(q), Head(q).type # "refresh"
  PROVE  Refreshes(Tail(q))
  <1>1. PICK i \in DOMAIN q : q[i].type = "refresh"
    BY DEF Refreshes
  <1>2. i # 1 /\ i \in 1..Len(q)
    BY <1>1
  <1>3. i - 1 \in DOMAIN Tail(q) /\ Tail(q)[i - 1] = q[i]
    BY <1>2
  <1>4. QED
    BY <1>1, <1>3 DEF Refreshes

(* A step that leaves the Jobs, the lists and the results of mutations and  *)
(* saves as they are and drops no announcement but for a new request.       *)
OpsAlike ==
  \A e \in Docs : /\ op[e].pc = "done" <=> op'[e].pc = "done"
                  /\ op[e].pc = "done" =>
                       op'[e].kind = op[e].kind /\ op'[e].job = op[e].job /\ op'[e].to = op[e].to
SavesAlike == \A t \in DOMAIN saves :
                saves[t].pc = "written" => t \in DOMAIN saves' /\ saves'[t].pc = "written"
Asking(e) == asked'[e].in = "request"
Heeded ==
  \A e \in Docs : Asking(e) \/ (/\ asked'[e] = asked[e]
                                /\ e \in behind => e \in behind'
                                /\ Refreshes(wire[e]) => Refreshes(wire'[e]))

LEMMA StillAnnounced ==
  ASSUME Typed, Announced, UNCHANGED <<stored, jobs>>, OpsAlike, SavesAlike, Heeded
  PROVE  Announced'
  <1> SUFFICES ASSUME NEW e \in Docs PROVE Told(e)' \/ UpToDate(e)'
    BY DEF Announced
  <1>1. Other(e) \in Docs
    BY DEF Other, Docs
  <1>2. CASE Asking(e)
    BY <1>2 DEF Asking, Told
  <1>3. CASE ~Asking(e) /\ Told(e)
    BY <1>1, <1>3 DEF Asking, Told, Heeded, OpsAlike, SavesAlike
  <1>4. CASE ~Asking(e) /\ UpToDate(e)
    <2>1. Known(e)' = Known(e)
      BY <1>4 DEF Heeded, Known
    <2>2. Merged(e)' = Merged(e)
      BY <2>1 DEF Merged, Merge, OpsAlike
    <2>3. op[e].pc = "done" /\ ChangedAgain(e) => ChangedAgain(e)'
      BY DEF ChangedAgain, OpsAlike
    <2>4. QED
      BY <1>4, <2>2, <2>3 DEF UpToDate, OpsAlike
  <1>5. QED
    BY <1>2, <1>3, <1>4 DEF Announced

LEMMA HeededAfter ==
  ASSUME Typed, NEW d \in Docs, NEW s \in States, NEW inbox \in Seq(Messages),
         Become(d, s, inbox), s.asked = asked[d] \/ s.asked.in = "request",
         s.asked.in # "request" =>
             (d \in behind => d \in behind') /\ (Refreshes(wire[d]) => Refreshes(inbox)),
         \A e \in Docs \ {d} : e \in behind => e \in behind'
  PROVE  Heeded
  <1>1. Other(d) \in Docs /\ Other(d) # d /\ Docs = {d, Other(d)}
    BY DEF Other, Docs
  <1>2. asked'[d] = s.asked /\ asked'[Other(d)] = asked[Other(d)] /\ wire'[d] = inbox
    BY <1>1, BecomeTyped DEF Typed, TypedDocs
  <1>3. Refreshes(wire[Other(d)]) => Refreshes(wire'[Other(d)])
    <2>1. wire[Other(d)] \in Seq(Messages) /\ s.out \in Seq(Messages)
      BY <1>1 DEF States, Typed, TypedDocs
    <2>2. wire'[Other(d)] = wire[Other(d)] \o s.out
      BY BecomeTyped
    <2>3. QED
      BY <2>1, <2>2, RefreshesAfter
  <1>4. QED
    BY <1>1, <1>2, <1>3 DEF Heeded, Asking

\* What main leaves behind is no longer current, and nothing else about it changes.
LEMMA LeftTyped ==
  ASSUME Typed, NEW r
  PROVE  /\ Left(r) \in Seq(Calls) /\ DOMAIN Left(r) = DOMAIN saves
         /\ \A t \in DOMAIN saves : Left(r)[t].pc = saves[t].pc
  <1>1. saves \in Seq(Calls) /\ DOMAIN saves = 1..Len(saves) /\ Len(saves) \in Nat
    BY DEF Typed, TypedRest
  <1>2. \A c \in Calls : /\ [c EXCEPT !.current = FALSE] \in Calls
                         /\ [c EXCEPT !.current = FALSE].pc = c.pc
    BY DEF Calls
  <1>3. \A t \in DOMAIN saves : Left(r)[t] \in Calls /\ Left(r)[t].pc = saves[t].pc
    <2> TAKE t \in DOMAIN saves
    <2>1. saves[t] \in Calls
      BY <1>1
    <2>2. Left(r)[t] = IF r # route THEN [saves[t] EXCEPT !.current = FALSE] ELSE saves[t]
      BY DEF Left
    <2>3. QED
      BY <1>2, <2>1, <2>2
  <1>4. QED
    BY <1>1, <1>3 DEF Left

LEMMA FollowKeeps ==
  ASSUME Typed, NEW r, Follow(r)
  PROVE  /\ saves' \in Seq(Calls) /\ op' \in [Docs -> {Idle} \cup Mutations]
         /\ OpsAlike /\ SavesAlike
  <1>1. saves' \in Seq(Calls) /\ SavesAlike
    BY LeftTyped DEF Follow, SavesAlike
  <1>2. op \in [Docs -> {Idle} \cup Mutations] /\ "main" \in Docs
    BY DEF Typed, TypedRest, Docs
  <1>3. op' = op \/ (op["main"].pc # "idle" /\ op' = [op EXCEPT !["main"].current = FALSE])
    BY DEF Follow
  <1>4. CASE op' = op
    BY <1>1, <1>2, <1>4 DEF OpsAlike
  <1>5. CASE op["main"].pc # "idle" /\ op' = [op EXCEPT !["main"].current = FALSE]
    <2>1. op["main"] \in Mutations
      BY <1>2, <1>5 DEF Idle
    <2>2. PICK o : o = [op["main"] EXCEPT !.current = FALSE]
      OBVIOUS
    <2>3. o \in Mutations /\ o.pc = op["main"].pc /\ o.kind = op["main"].kind
          /\ o.job = op["main"].job /\ o.to = op["main"].to
      BY <2>1, <2>2 DEF Mutations
    <2>4. op' = [op EXCEPT !["main"] = o]
      BY <1>5, <2>2
    <2>5. QED
      BY <1>1, <1>2, <2>3, <2>4 DEF OpsAlike
  <1>6. QED
    BY <1>3, <1>4, <1>5

LEMMA Unchanged ==
  /\ UNCHANGED saves => SavesAlike
  /\ UNCHANGED op => OpsAlike
  BY DEF SavesAlike, OpsAlike

-----------------------------------------------------------------------------
(* The steps                                                               *)

LEMMA DeliverStep ==
  ASSUME IInv, NEW d \in Docs, Deliver(d)
  PROVE  IInv'
  <1> USE DEF IInv
  <1>1. PICK m : m = Head(wire[d])
    OBVIOUS
  <1>2. PICK s : s = Handled(d, m)
    OBVIOUS
  <1>3. wire[d] \in Seq(Messages) /\ wire[d] # << >>
    BY DEF Typed, TypedDocs, Deliver
  <1>4. m \in Messages /\ Tail(wire[d]) \in Seq(Messages)
    BY <1>1, <1>3
  <1>5. /\ Become(d, s, Tail(wire[d])) /\ Follow(s.route)
        /\ behind' = (IF m.type = "refresh" THEN behind \ {d} ELSE behind)
        /\ UNCHANGED <<stored, jobs>>
    BY <1>1, <1>2 DEF Deliver
  <1>6. /\ s \in States /\ (s.asked = asked[d] \/ s.asked.in = "request")
        /\ m.type = "refresh" => s.asked.in = "request"
    BY <1>2, <1>4, HandledKeeps
  <1>7. Heeded
    BY <1>1, <1>3, <1>4, <1>5, <1>6, HeededAfter, RefreshesTail
  <1>8. TypedDocs' /\ TypedRest'
    BY <1>4, <1>5, <1>6, BecomeTyped, FollowKeeps DEF Typed, TypedRest
  <1>9. QED
    BY <1>5, <1>7, <1>8, FollowKeeps, StillAnnounced DEF Typed

LEMMA RefreshStep ==
  ASSUME IInv, NEW d \in Docs, Refresh(d)
  PROVE  IInv'
  <1> USE DEF IInv
  <1>1. PICK s : s = Ask(State(d))
    OBVIOUS
  <1>2. s \in States /\ s.asked.in = "request" /\ wire[d] \in Seq(Messages)
    BY <1>1, StateTyped, AskTyped DEF Typed, TypedDocs
  <1>3. Become(d, s, wire[d]) /\ behind' = behind \ {d} /\ UNCHANGED <<stored, jobs, saves, op>>
    BY <1>1 DEF Refresh
  <1>4. Heeded
    BY <1>2, <1>3, HeededAfter
  <1>5. TypedDocs' /\ TypedRest'
    BY <1>2, <1>3, BecomeTyped DEF Typed, TypedRest
  <1>6. QED
    BY <1>3, <1>4, <1>5, Unchanged, StillAnnounced DEF Typed

\* A step of a document that asks for no list, or asks for it anew.
LEMMA OwnStep ==
  ASSUME IInv, NEW d \in Docs, NEW s \in States, Become(d, s, wire[d]),
         s.asked = asked[d] \/ s.asked.in = "request",
         behind' = behind \/ (s.asked.in = "request" /\ behind' = behind \ {d}),
         UNCHANGED <<stored, jobs>>,
         saves' \in Seq(Calls), op' \in [Docs -> {Idle} \cup Mutations], OpsAlike, SavesAlike
  PROVE  IInv'
  <1> USE DEF IInv
  <1>1. wire[d] \in Seq(Messages)
    BY DEF Typed, TypedDocs
  <1>2. Heeded
    BY <1>1, HeededAfter
  <1>3. TypedDocs' /\ TypedRest'
    BY <1>1, BecomeTyped DEF Typed, TypedRest
  <1>4. QED
    BY <1>2, <1>3, StillAnnounced DEF Typed

LEMMA Resting ==
  ASSUME Typed
  PROVE  /\ UNCHANGED saves => saves' \in Seq(Calls) /\ SavesAlike
         /\ UNCHANGED op => op' \in [Docs -> {Idle} \cup Mutations] /\ OpsAlike
  BY Unchanged DEF Typed, TypedRest

LEMMA StepKeeps ==
  ASSUME Typed, NEW t \in DOMAIN saves, NEW pc \in {"check", "write", "written", "end", "done"},
         Step(t, pc)
  PROVE  /\ saves' \in Seq(Calls) /\ DOMAIN saves' = DOMAIN saves /\ saves'[t].pc = pc
         /\ \A u \in DOMAIN saves \ {t} : saves'[u] = saves[u]
         /\ saves[t].pc # "written" => SavesAlike
  <1>1. saves \in Seq(Calls) /\ saves[t] \in Calls
    BY DEF Typed, TypedRest
  <1>2. PICK c : c = [saves[t] EXCEPT !.pc = pc]
    OBVIOUS
  <1>3. c \in Calls /\ c.pc = pc
    BY <1>1, <1>2 DEF Calls
  <1>4. saves' = [saves EXCEPT ![t] = c]
    BY <1>2 DEF Step
  <1>5. saves' \in Seq(Calls) /\ DOMAIN saves' = DOMAIN saves /\ saves'[t] = c
        /\ \A u \in DOMAIN saves \ {t} : saves'[u] = saves[u]
    BY <1>1, <1>3, <1>4
  <1>6. QED
    BY <1>3, <1>5 DEF SavesAlike

\* A step that changes nothing but the calls and the mutations.
LEMMA CallsStep ==
  ASSUME IInv, UNCHANGED <<stored, jobs, selected, asked, lease, deferred, wire, behind>>,
         route' \in Routes,
         saves' \in Seq(Calls), op' \in [Docs -> {Idle} \cup Mutations], OpsAlike, SavesAlike
  PROVE  IInv'
  <1>1. Typed'
    BY DEF IInv, Typed, TypedDocs, TypedRest
  <1>2. Heeded
    BY DEF Heeded
  <1>3. QED
    BY <1>1, <1>2, StillAnnounced DEF IInv

LEMMA ClickStep ==
  ASSUME IInv, NEW j \in Jobs, Click(j)
  PROVE  IInv'
  <1>1. PICK s : s = Choose("side", State("side"), j)
    OBVIOUS
  <1>2. "side" \in Docs /\ j \in Job0
    BY DEF Docs, Job0
  <1>3. s \in States /\ s.asked = asked["side"]
    BY <1>1, <1>2, StateTyped, ChooseKeeps DEF IInv, Kept
  <1>4. Become("side", s, wire["side"]) /\ UNCHANGED <<stored, jobs, saves, op, behind>>
    BY <1>1 DEF Click
  <1>5. QED
    BY <1>2, <1>3, <1>4, OwnStep, Resting DEF IInv

LEMMA NewJobStep ==
  ASSUME IInv, NewJob
  PROVE  IInv'
  <1>1. PICK s : s = Send(State("side"), [type |-> "go", route |-> Route("new", 0)])
    OBVIOUS
  <1>2. "side" \in Docs /\ Route("new", 0) \in Routes
    BY DEF Docs, Route, Routes, Job0
  <1>3. s \in States /\ s.asked = asked["side"]
    BY <1>1, <1>2, StateTyped, SendKeeps, MessagesTyped DEF IInv, Kept
  <1>4. Become("side", s, wire["side"]) /\ UNCHANGED <<stored, jobs, saves, op, behind>>
    BY <1>1 DEF NewJob
  <1>5. QED
    BY <1>2, <1>3, <1>4, OwnStep, Resting DEF IInv

LEMMA WalkStep ==
  ASSUME IInv, NEW r \in {Route(a, j) : a \in {"job", "edit"}, j \in Jobs}, Walk(r)
  PROVE  IInv'
  <1>1. r \in Routes
    BY DEF Route, Routes, Job0
  <1>2. /\ route' = r /\ Follow(r)
        /\ UNCHANGED <<stored, jobs, selected, asked, lease, deferred, wire, behind>>
    BY DEF Walk
  <1>3. QED
    BY <1>1, <1>2, FollowKeeps, CallsStep DEF IInv

\* A mutation begins: the switch of a Job that the side lists, Delete on a page.
LEMMA BeginStep ==
  ASSUME IInv, NEW d \in Docs, NEW kind \in {"toggle", "remove"}, NEW j \in Job0,
         NEW to \in BOOLEAN, Begin(d, kind, j, to)
  PROVE  IInv'
  <1>1. PICK o : o = [pc |-> "sent", kind |-> kind, job |-> j, to |-> to, current |-> TRUE]
    OBVIOUS
  <1>2. o \in Mutations /\ o.pc = "sent"
    BY <1>1 DEF Mutations
  <1>3. op' = [op EXCEPT ![d] = o] /\ op[d].pc = "idle"
    BY <1>1 DEF Begin
  <1>4. op' \in [Docs -> {Idle} \cup Mutations] /\ OpsAlike
    BY <1>2, <1>3 DEF IInv, Typed, TypedRest, OpsAlike
  <1>5. UNCHANGED <<stored, jobs, selected, asked, lease, deferred, wire, route, saves, behind>>
    BY DEF Begin
  <1>6. route' \in Routes
    BY <1>5 DEF IInv, Typed, TypedDocs
  <1>7. QED
    BY <1>4, <1>5, <1>6, Resting, CallsStep DEF IInv

LEMMA SwitchStep ==
  ASSUME IInv, NEW j \in Jobs, Switch(j)
  PROVE  IInv'
  <1>1. "side" \in Docs /\ j \in Job0
    BY DEF Docs, Job0
  <1>2. PICK to : to = ~jobs["side"][j]
    OBVIOUS
  <1>3. to \in BOOLEAN /\ Begin("side", "toggle", j, to)
    BY <1>2 DEF Switch
  <1>4. QED
    BY <1>1, <1>3, BeginStep

LEMMA DeleteStep ==
  ASSUME IInv, Delete
  PROVE  IInv'
  <1>1. "main" \in Docs /\ route.job \in Job0
    BY DEF Docs, IInv, Typed, TypedDocs, Routes
  <1>2. Begin("main", "remove", route.job, FALSE)
    BY DEF Delete
  <1>3. QED
    BY <1>1, <1>2, BeginStep

LEMMA SaveStep ==
  ASSUME IInv, NEW j \in Jobs, Save(j)
  PROVE  IInv'
  <1>1. PICK l : l = [active |-> TRUE, token |-> Len(saves) + 1]
    OBVIOUS
  <1>2. PICK t : t = [State("main") EXCEPT !.lease = l]
    OBVIOUS
  <1>3. PICK s : s = Send(t, LeaseMsg(l))
    OBVIOUS
  <1>4. "main" \in Docs /\ l \in Leases /\ saves \in Seq(Calls)
    BY <1>1 DEF Docs, Leases, IInv, Typed, TypedRest
  <1>5. t \in States /\ t.asked = asked["main"]
    BY <1>2, <1>4, StateTyped DEF IInv, States
  <1>6. s \in States /\ s.asked = asked["main"]
    BY <1>3, <1>4, <1>5, SendKeeps, MessagesTyped DEF Kept
  <1>7. PICK c : c = [pc |-> "check", job |-> j, new |-> route.at = "new", current |-> TRUE,
                      saved |-> FALSE]
    OBVIOUS
  <1>8. c \in Calls /\ saves' = Append(saves, c)
    BY <1>7 DEF Calls, Save
  <1>9. saves' \in Seq(Calls) /\ SavesAlike
    BY <1>4, <1>8 DEF SavesAlike
  <1>10. Become("main", s, wire["main"]) /\ UNCHANGED <<stored, jobs, op, behind>>
    BY <1>1, <1>2, <1>3 DEF Save
  <1>11. QED
    BY <1>4, <1>6, <1>9, <1>10, OwnStep, Resting DEF IInv

LEMMA CheckStep ==
  ASSUME IInv, NEW t \in DOMAIN saves, Check(t)
  PROVE  IInv'
  <1>1. saves' \in Seq(Calls) /\ SavesAlike
    BY StepKeeps DEF Check, IInv
  <1>2. UNCHANGED <<stored, jobs, selected, asked, lease, deferred, wire, route, op, behind>>
    BY DEF Check
  <1>3. route' \in Routes
    BY <1>2 DEF IInv, Typed, TypedDocs
  <1>4. QED
    BY <1>1, <1>2, <1>3, Resting, CallsStep DEF IInv

LEMMA ExpireStep ==
  ASSUME IInv, NEW t \in DOMAIN saves, Expire(t)
  PROVE  IInv'
  <1>1. UNCHANGED <<stored, jobs, selected, asked, lease, deferred, wire, route, saves, op, behind>>
    BY DEF Expire
  <1>2. route' \in Routes
    BY <1>1 DEF IInv, Typed, TypedDocs
  <1>3. QED
    BY <1>1, <1>2, Resting, CallsStep DEF IInv

LEMMA EndStep ==
  ASSUME IInv, NEW t \in DOMAIN saves, End(t)
  PROVE  IInv'
  <1>1. PICK s : s = Clear("main", State("main"), t, TRUE)
    OBVIOUS
  <1>2. PICK opens \in BOOLEAN : opens <=>
            /\ saves[t].saved /\ saves[t].current /\ deferred["main"] = 0
            /\ lease["main"] = [active |-> TRUE, token |-> t]
    OBVIOUS
  <1>3. PICK r : r = IF opens THEN Choose("main", s, saves[t].job) ELSE s
    OBVIOUS
  <1>4. saves \in Seq(Calls) /\ t \in Nat /\ saves[t] \in Calls /\ "main" \in Docs
    BY DEF IInv, Typed, TypedRest, Docs
  <1>5. s \in States /\ s.asked = asked["main"]
    BY <1>1, <1>4, StateTyped, ClearKeeps DEF IInv, Kept
  <1>6. saves[t].job \in Job0
    BY <1>4 DEF Calls, Job0
  <1>7. r \in States /\ r.asked = asked["main"]
    BY <1>3, <1>4, <1>5, <1>6, ChooseKeeps DEF Kept
  <1>8. /\ Become("main", r, wire["main"])
        /\ saves' = [Left(r.route) EXCEPT ![t].pc = "done"]
        /\ saves[t].pc = "end" /\ UNCHANGED <<stored, jobs, op, behind>>
    BY <1>1, <1>2, <1>3 DEF End
  <1>9. PICK left : left = Left(r.route)
    OBVIOUS
  <1>10. /\ left \in Seq(Calls) /\ DOMAIN left = DOMAIN saves
         /\ \A u \in DOMAIN saves : left[u].pc = saves[u].pc
    BY <1>9, LeftTyped DEF IInv
  <1>11. PICK c : c = [left[t] EXCEPT !.pc = "done"]
    OBVIOUS
  <1>12. left[t] \in Calls
    BY <1>4, <1>10
  <1>13. c \in Calls /\ saves' = [left EXCEPT ![t] = c]
    BY <1>8, <1>9, <1>11, <1>12 DEF Calls
  <1>14. saves' \in Seq(Calls) /\ SavesAlike
    <2>1. saves' \in Seq(Calls) /\ DOMAIN saves' = DOMAIN saves
      BY <1>4, <1>10, <1>13
    <2>2. \A u \in DOMAIN saves : saves[u].pc = "written" => u # t /\ saves'[u] = left[u]
      BY <1>8, <1>10, <1>13
    <2>3. QED
      BY <1>10, <2>1, <2>2 DEF SavesAlike
  <1>15. QED
    BY <1>4, <1>7, <1>8, <1>14, OwnStep, Resting DEF IInv

LEMMA LeaseTimerStep ==
  ASSUME IInv, NEW d \in Docs, LeaseTimer(d)
  PROVE  IInv'
  <1>1. PICK s : s = Clear(d, State(d), lease[d].token, d = "main")
    OBVIOUS
  <1>2. PICK t : t = IF d = "main" THEN Ask(s) ELSE s
    OBVIOUS
  <1>3. lease[d].token \in Nat
    BY DEF IInv, Typed, TypedDocs, Leases
  <1>4. s \in States /\ s.asked = asked[d]
    BY <1>1, <1>3, StateTyped, ClearKeeps DEF IInv, Kept
  <1>5. t \in States /\ (t.asked.in = "request" \/ (t.asked = asked[d] /\ d # "main"))
    BY <1>2, <1>4, AskTyped
  <1>6. t \in States /\ (t.asked = asked[d] \/ t.asked.in = "request")
    BY <1>5
  <1>7. /\ Become(d, t, wire[d]) /\ Follow(s.route) /\ UNCHANGED <<stored, jobs>>
        /\ behind' = IF d = "main" THEN behind \ {d} ELSE behind
    BY <1>1, <1>2 DEF LeaseTimer
  <1>8. behind' = behind \/ (t.asked.in = "request" /\ behind' = behind \ {d})
    BY <1>5, <1>7
  <1>9. QED
    BY <1>6, <1>7, <1>8, FollowKeeps, OwnStep DEF IInv

-----------------------------------------------------------------------------
(* The list                                                                *)

\* The result of a mutation, merged into a list, is one of the Jobs' lists ...
LEMMA MergeTyped ==
  ASSUME NEW list \in Lists, NEW o \in Mutations
  PROVE  Merge(list, o) \in Lists
  <1>1. PICK jj \in SUBSET Jobs : list \in [jj -> BOOLEAN]
    BY DEF Lists
  <1>2. o.to \in BOOLEAN
    BY DEF Mutations
  <1>3. CASE o.kind = "remove"
    <2>1. Merge(list, o) = [j \in DOMAIN list \ {o.job} |-> list[j]]
      BY <1>3 DEF Merge, Restrict
    <2>2. Merge(list, o) \in [jj \ {o.job} -> BOOLEAN]
      BY <1>1, <2>1
    <2>3. QED
      BY <2>2 DEF Lists
  <1>4. CASE o.kind # "remove"
    <2>1. Merge(list, o) \in [jj -> BOOLEAN]
      BY <1>1, <1>2, <1>4 DEF Merge
    <2>2. QED
      BY <2>1 DEF Lists
  <1>5. QED
    BY <1>3, <1>4

\* ... and changes nothing in a list that has it.
LEMMA MergeAgain ==
  ASSUME NEW list \in Lists, NEW o \in Mutations,
         IF o.kind = "remove" THEN o.job \notin DOMAIN list
         ELSE o.job \in DOMAIN list /\ list[o.job] = o.to
  PROVE  Merge(list, o) = list
  <1>1. PICK jj \in SUBSET Jobs : list \in [jj -> BOOLEAN]
    BY DEF Lists
  <1>2. CASE o.kind = "remove"
    <2>1. DOMAIN list \ {o.job} = jj
      BY <1>1, <1>2
    <2>2. Merge(list, o) = [j \in jj |-> list[j]]
      BY <1>2, <2>1 DEF Merge, Restrict
    <2>3. QED
      BY <1>1, <2>2
  <1>3. CASE o.kind # "remove"
    <2>1. Merge(list, o) = [list EXCEPT ![o.job] = o.to]
      BY <1>3 DEF Merge
    <2>2. QED
      BY <1>1, <1>3, <2>1
  <1>4. QED
    BY <1>2, <1>3

LEMMA ServerListStep ==
  ASSUME IInv, NEW d \in Docs, ServerList(d)
  PROVE  IInv'
  <1>1. UNCHANGED <<stored, jobs, selected, lease, deferred, wire, route, saves, op, behind>>
        /\ asked' = [asked EXCEPT ![d] = [in |-> "answer", list |-> stored]]
        /\ asked[d].in = "request"
    BY DEF ServerList
  <1>2. [in |-> "answer", list |-> stored] \in Requests
    BY DEF Requests, IInv, Typed, TypedRest
  <1>3. Typed'
    BY <1>1, <1>2 DEF IInv, Typed, TypedDocs, TypedRest
  <1>4. ASSUME NEW e \in Docs, e # d PROVE Told(e)' \/ UpToDate(e)'
    BY <1>1, <1>4 DEF IInv, Announced, Typed, TypedDocs, Told, UpToDate, Merged, Known,
                      ChangedAgain
  <1>5. UpToDate(d)'
    <2>1. Known(d)' = stored
      BY <1>1 DEF Known, IInv, Typed, TypedDocs
    <2>2. CASE op[d].pc # "done"
      BY <1>1, <2>1, <2>2 DEF UpToDate, Merged
    <2>3. CASE op[d].pc = "done" /\ ChangedAgain(d)
      BY <1>1, <2>3 DEF UpToDate, ChangedAgain
    <2>4. CASE op[d].pc = "done" /\ ~ChangedAgain(d)
      <3>1. op[d] \in Mutations /\ stored \in Lists
        BY <2>4 DEF IInv, Typed, TypedRest, Idle
      <3>2. Merge(stored, op[d]) = stored
        BY <2>4, <3>1, MergeAgain DEF ChangedAgain, Mutations
      <3>3. QED
        BY <1>1, <2>1, <2>4, <3>2 DEF UpToDate, Merged
    <2>5. QED
      BY <2>2, <2>3, <2>4
  <1>6. QED
    BY <1>3, <1>4, <1>5 DEF IInv, Announced

LEMMA ListFailStep ==
  ASSUME IInv, NEW d \in Docs, ListFail(d)
  PROVE  IInv'
  <1>1. UNCHANGED <<stored, jobs, selected, lease, deferred, wire, route, saves, op>>
        /\ asked' = [asked EXCEPT ![d] = Nothing] /\ behind' = behind \cup {d}
    BY DEF ListFail
  <1>2. Typed'
    BY <1>1 DEF IInv, Typed, TypedDocs, TypedRest, Requests, Nothing
  <1>3. ASSUME NEW e \in Docs, e # d PROVE Told(e)' \/ UpToDate(e)'
    BY <1>1, <1>3 DEF IInv, Announced, Typed, TypedDocs, Told, UpToDate, Merged, Known,
                      ChangedAgain
  <1>4. Told(d)'
    BY <1>1 DEF Told
  <1>5. QED
    BY <1>2, <1>3, <1>4 DEF IInv, Announced

LEMMA ListAnswerStep ==
  ASSUME ConstantsFit, IInv, NEW d \in Docs, ListAnswer(d)
  PROVE  IInv'
  <1> USE DEF IInv
  <1>1. PICK list : list = asked[d].list
    OBVIOUS
  <1>2. list \in Lists /\ asked[d].in = "answer" /\ Known(d) = list
    BY <1>1 DEF ListAnswer, Typed, TypedDocs, Requests, Known
  <1>3. PICK first : first = First(list)
    OBVIOUS
  <1>4. first \in Job0 /\ Route("job", first) \in Routes
    BY <1>2, <1>3, FirstIsAJob DEF Route, Routes
  <1>5. PICK s : s = [State(d) EXCEPT !.asked = Nothing]
    OBVIOUS
  <1>6. s \in States /\ s.asked = Nothing
    BY <1>5, StateTyped DEF States, Requests, Nothing
  <1>7. PICK t : t = IF selected[d] \in DOMAIN list THEN s ELSE Select(d, s, first)
    OBVIOUS
  <1>8. t \in States /\ t.asked = Nothing
    BY <1>4, <1>6, <1>7, SelectKeeps DEF Kept
  <1>9. PICK u : u = IF route = Home /\ first # 0 THEN Open(d, t, Route("job", first)) ELSE t
    OBVIOUS
  <1>10. u \in States /\ u.asked = Nothing
    BY <1>4, <1>8, <1>9, OpenKeeps DEF Kept
  <1>11. /\ Become(d, u, wire[d]) /\ jobs' = [jobs EXCEPT ![d] = list]
         /\ UNCHANGED <<stored, saves, op, behind>>
    BY <1>1, <1>3, <1>5, <1>7, <1>9 DEF ListAnswer
  <1>12. wire[d] \in Seq(Messages) /\ wire[Other(d)] \in Seq(Messages) /\ u.out \in Seq(Messages)
         /\ Other(d) \in Docs /\ Other(d) # d /\ Docs = {d, Other(d)}
    BY <1>10 DEF Typed, TypedDocs, States, Other, Docs
  <1>13. /\ TypedDocs' /\ asked' = [asked EXCEPT ![d] = Nothing]
         /\ wire'[d] = wire[d] /\ wire'[Other(d)] = wire[Other(d)] \o u.out
    BY <1>10, <1>11, <1>12, BecomeTyped
  <1>14. Typed'
    BY <1>2, <1>11, <1>13 DEF Typed, TypedRest
  <1>15. Told(Other(d))' \/ UpToDate(Other(d))'
    <2>1. Refreshes(wire[Other(d)]) => Refreshes(wire'[Other(d)])
      BY <1>12, <1>13, RefreshesAfter
    <2>2. Told(Other(d)) => Told(Other(d))'
      BY <1>11, <1>12, <1>13, <2>1 DEF Typed, TypedDocs, Told
    <2>3. Known(Other(d))' = Known(Other(d))
      BY <1>11, <1>12, <1>13 DEF Known, Typed, TypedDocs, TypedRest
    <2>4. Merged(Other(d))' = Merged(Other(d)) /\ (ChangedAgain(Other(d)) => ChangedAgain(Other(d))')
      BY <1>11, <2>3 DEF Merged, ChangedAgain
    <2>5. UpToDate(Other(d)) => UpToDate(Other(d))'
      BY <1>11, <2>4 DEF UpToDate
    <2>6. QED
      BY <1>12, <2>2, <2>5 DEF Announced
  <1>16. Told(d)' \/ UpToDate(d)'
    <2>1. Told(d) => Told(d)'
      BY <1>2, <1>11, <1>13 DEF Told
    <2>2. Known(d)' = list
      BY <1>11, <1>13 DEF Known, Typed, TypedDocs, TypedRest, Nothing
    <2>3. Merged(d)' = Merged(d) /\ (ChangedAgain(d) => ChangedAgain(d)')
      BY <1>2, <1>11, <2>2 DEF Merged, ChangedAgain
    <2>4. UpToDate(d) => UpToDate(d)'
      BY <1>11, <2>3 DEF UpToDate
    <2>5. QED
      BY <2>1, <2>4 DEF Announced
  <1>17. QED
    BY <1>12, <1>14, <1>15, <1>16 DEF Announced

LEMMA ReloadStep ==
  ASSUME IInv, NEW d \in Docs, Reload(d)
  PROVE  IInv'
  <1> USE DEF IInv
  <1>1. PICK e \in Docs : e = Other(d) /\ e # d /\ Docs = {d, e} /\ d = Other(e)
    BY DEF Other, Docs
  <1>2. PICK m : m = [type |-> "ready", from |-> d]
    OBVIOUS
  <1>3. /\ selected' = [selected EXCEPT ![d] = 0] /\ jobs' = [jobs EXCEPT ![d] = << >>]
        /\ lease' = [lease EXCEPT ![d] = Free] /\ deferred' = [deferred EXCEPT ![d] = 0]
        /\ asked' = [asked EXCEPT ![d] = [in |-> "request"]]
        /\ wire' = [wire EXCEPT ![d] = << >>, ![e] = Append(wire[e], m)]
        /\ op[d].pc = "idle" /\ UNCHANGED <<stored, op>>
    BY <1>1, <1>2 DEF Reload, Typed, TypedDocs
  <1>4. m \in Messages /\ wire[e] \in Seq(Messages)
    BY <1>1, <1>2, MessagesTyped DEF Typed, TypedDocs
  <1>5. wire' \in [Docs -> Seq(Messages)] /\ wire'[e] = Append(wire[e], m)
    <2>1. Append(wire[e], m) \in Seq(Messages) /\ << >> \in Seq(Messages)
      BY <1>4
    <2>2. QED
      BY <1>1, <1>3, <2>1 DEF Typed, TypedDocs
  <1>6. route' \in Routes /\ saves' \in Seq(Calls) /\ behind' \in SUBSET Docs
    <2>1. \A c \in Calls : [c EXCEPT !.pc = "done"] \in Calls
      BY DEF Calls
    <2>2. saves \in Seq(Calls) /\ DOMAIN saves = 1..Len(saves) /\ Len(saves) \in Nat
      BY DEF Typed, TypedRest
    <2>3. [t \in DOMAIN saves |-> [saves[t] EXCEPT !.pc = "done"]] \in Seq(Calls)
      BY <2>1, <2>2
    <2>4. Home \in Routes
      BY DEF Home, Routes, Job0
    <2>5. QED
      BY <2>3, <2>4 DEF Reload, Typed, TypedDocs, TypedRest, Docs
  <1>7. << >> \in Lists
    <2>1. << >> \in [{} -> BOOLEAN]
      OBVIOUS
    <2>2. QED
      BY <2>1 DEF Lists
  <1>8. Typed'
    <2>1. Free \in Leases /\ [in |-> "request"] \in Requests /\ 0 \in Job0
      BY DEF Free, Leases, Requests, Job0
    <2>2. QED
      BY <1>3, <1>5, <1>6, <1>7, <2>1 DEF Typed, TypedDocs, TypedRest
  <1>9. Told(d)'
    BY <1>3 DEF Told, Typed, TypedDocs
  <1>10. Told(e)' \/ UpToDate(e)'
    <2>1. Refreshes(wire[e]) => Refreshes(wire'[e])
      BY <1>4, <1>5, RefreshesAppend
    <2>2. asked'[e] = asked[e] /\ jobs'[e] = jobs[e]
      BY <1>1, <1>3 DEF Typed, TypedDocs, TypedRest
    <2>3. UpToDate(e) => UpToDate(e)'
      BY <1>3, <2>2 DEF UpToDate, Merged, Known, ChangedAgain
    <2>4. CASE \E t \in DOMAIN saves : saves[t].pc = "written"
      BY <1>1, <2>4 DEF Reload, Told, Docs
    <2>5. CASE ~\E t \in DOMAIN saves : saves[t].pc = "written"
      <3>1. e \in behind => e \in behind'
        BY <1>1, <2>5 DEF Reload
      <3>2. Told(e) => Told(e)'
        BY <1>3, <2>1, <2>2, <2>5, <3>1 DEF Told
      <3>3. QED
        BY <2>3, <3>2 DEF Announced
    <2>6. QED
      BY <2>4, <2>5
  <1>11. QED
    BY <1>1, <1>8, <1>9, <1>10 DEF Announced

-----------------------------------------------------------------------------
(* The mutations                                                           *)

LEMMA ServeStep ==
  ASSUME IInv, NEW d \in Docs, Serve(d)
  PROVE  IInv'
  <1> USE DEF IInv
  <1>1. op[d] \in Mutations /\ op[d].pc = "sent" /\ stored \in Lists
    BY DEF Serve, Typed, TypedRest, Idle
  <1>2. UNCHANGED <<jobs, selected, asked, lease, deferred, wire, route, saves>>
    BY DEF Serve
  <1>3. route' \in Routes
    BY <1>2 DEF Typed, TypedDocs
  <1>4. ASSUME NEW pc \in {"sent", "done", "failed"}, op' = [op EXCEPT ![d].pc = pc]
        PROVE  /\ op' \in [Docs -> {Idle} \cup Mutations] /\ op'[Other(d)] = op[Other(d)]
               /\ op'[d].pc = pc /\ op'[d].kind = op[d].kind /\ op'[d].job = op[d].job
               /\ op'[d].to = op[d].to
    <2>1. PICK o : o = [op[d] EXCEPT !.pc = pc]
      OBVIOUS
    <2>2. o \in Mutations /\ o.pc = pc /\ o.kind = op[d].kind /\ o.job = op[d].job /\ o.to = op[d].to
      BY <1>1, <2>1 DEF Mutations
    <2>3. op' = [op EXCEPT ![d] = o] /\ Other(d) # d /\ Other(d) \in Docs
      BY <1>4, <2>1 DEF Other, Docs
    <2>4. QED
      BY <2>2, <2>3 DEF Typed, TypedRest
  <1>5. CASE op' = [op EXCEPT ![d].pc = "failed"] /\ UNCHANGED <<stored, behind>>
    <2>1. op' \in [Docs -> {Idle} \cup Mutations] /\ op'[Other(d)] = op[Other(d)]
          /\ op'[d].pc = "failed"
      BY <1>4, <1>5
    <2>2. Docs = {d, Other(d)}
      BY DEF Docs, Other
    <2>3. OpsAlike
      BY <1>1, <2>1, <2>2 DEF OpsAlike
    <2>4. QED
      BY <1>2, <1>3, <1>5, <2>1, <2>3, Resting, CallsStep
  <1>6. CASE ~(op' = [op EXCEPT ![d].pc = "failed"] /\ UNCHANGED <<stored, behind>>)
    <2>1. PICK ok \in BOOLEAN :
             /\ op[d].job \in DOMAIN stored
             /\ stored' = IF op[d].kind = "toggle" THEN [stored EXCEPT ![op[d].job] = op[d].to]
                          ELSE Restrict(stored, DOMAIN stored \ {op[d].job})
             /\ op' = [op EXCEPT ![d].pc = IF ok THEN "done" ELSE "failed"]
             /\ behind' = IF ok THEN behind ELSE Docs
      BY <1>6 DEF Serve
    <2>2. stored' = Merge(stored, op[d])
      BY <1>1, <2>1 DEF Merge, Mutations
    <2>3. stored' \in Lists
      BY <1>1, <2>2, MergeTyped
    <2>4. PICK pc \in {"done", "failed"} : pc = IF ok THEN "done" ELSE "failed"
      OBVIOUS
    <2>5. op' = [op EXCEPT ![d].pc = pc]
      BY <2>1, <2>4
    <2>6. /\ op' \in [Docs -> {Idle} \cup Mutations] /\ op'[Other(d)] = op[Other(d)]
          /\ op'[d].pc = pc /\ op'[d].kind = op[d].kind /\ op'[d].job = op[d].job
          /\ op'[d].to = op[d].to
      BY <1>4, <2>5
    <2>7. Typed'
      BY <1>2, <2>1, <2>3, <2>6 DEF Typed, TypedDocs, TypedRest
    <2>8. CASE ~ok
      BY <2>1, <2>7, <2>8 DEF Announced, Told
    <2>9. CASE ok
      <3>1. op'[d].pc = "done" /\ behind' = behind
        BY <2>1, <2>4, <2>6, <2>9
      <3>2. Docs = {d, Other(d)} /\ Other(Other(d)) = d
        BY DEF Docs, Other
      <3>3. Told(Other(d))'
        BY <3>1, <3>2 DEF Told
      <3>4. Told(d) => Told(d)'
        BY <1>2, <2>6, <3>1 DEF Told
      <3>5. UpToDate(d) => UpToDate(d)'
        <4>1. SUFFICES ASSUME UpToDate(d) PROVE Merged(d)' = stored'
          BY DEF UpToDate
        <4>2. Known(d) = stored
          BY <1>1, <4>1 DEF UpToDate, Merged
        <4>3. Known(d)' = stored
          BY <1>2, <4>2 DEF Known
        <4>4. Merged(d)' = Merge(stored, op'[d])
          BY <3>1, <4>3 DEF Merged
        <4>5. QED
          BY <2>2, <2>6, <4>4 DEF Merge
      <3>6. QED
        BY <2>7, <3>2, <3>3, <3>4, <3>5 DEF Announced
    <2>10. QED
      BY <2>8, <2>9
  <1>7. QED
    BY <1>5, <1>6

LEMMA DroppedStep ==
  ASSUME IInv, NEW d \in Docs, Dropped(d)
  PROVE  IInv'
  <1>1. UNCHANGED <<stored, jobs, selected, asked, lease, deferred, wire, route, saves>>
        /\ op' = [op EXCEPT ![d] = Idle]
        /\ behind' = IF op[d].pc = "done" THEN Docs ELSE behind
    BY DEF Dropped
  <1>2. op' \in [Docs -> {Idle} \cup Mutations] /\ route' \in Routes /\ behind' \in SUBSET Docs
    BY <1>1 DEF IInv, Typed, TypedDocs, TypedRest
  <1>3. CASE op[d].pc = "done"
    <2>1. Announced'
      BY <1>1, <1>3 DEF Announced, Told
    <2>2. QED
      BY <1>1, <1>2, <2>1 DEF IInv, Typed, TypedDocs, TypedRest
  <1>4. CASE op[d].pc # "done"
    <2>1. OpsAlike
      BY <1>1, <1>4 DEF OpsAlike, Idle, IInv, Typed, TypedRest
    <2>2. QED
      BY <1>1, <1>2, <1>4, <2>1, Resting, CallsStep DEF IInv
  <1>5. QED
    BY <1>3, <1>4

\* The message that makes the other document ask for the list.
LEMMA TellKeeps ==
  ASSUME NEW s \in States
  PROVE  LET t == Send(s, [type |-> "refresh"])
         IN  Kept(s, t) /\ Refreshes(t.out)
  <1>1. PICK m : m = [type |-> "refresh"]
    OBVIOUS
  <1>2. m \in Messages /\ m.type = "refresh"
    BY <1>1, MessagesTyped
  <1>3. s.out \in Seq(Messages) /\ Send(s, m).out = Append(s.out, m)
    BY DEF States, Send
  <1>4. Refreshes(Send(s, m).out)
    BY <1>2, <1>3, RefreshesAppend
  <1>5. QED
    BY <1>1, <1>2, <1>4, SendKeeps

LEMMA ResultStep ==
  ASSUME IInv, NEW d \in Docs, Result(d)
  PROVE  IInv'
  <1> USE DEF IInv
  <1>1. op[d] \in Mutations /\ op[d].pc = "done" /\ jobs[d] \in Lists /\ wire[d] \in Seq(Messages)
    BY DEF Result, Typed, TypedDocs, TypedRest, Idle
  <1>2. PICK s : s = Send(State(d), [type |-> "refresh"])
    OBVIOUS
  <1>3. s \in States /\ s.asked = asked[d] /\ Refreshes(s.out)
    BY <1>2, StateTyped, TellKeeps DEF Kept
  <1>4. PICK m : m = [type |-> "go", route |-> Home]
    OBVIOUS
  <1>5. PICK t : t = Open(d, s, Home)
    OBVIOUS
  <1>6. Home \in Routes /\ m \in Messages
    BY <1>4, MessagesTyped DEF Home, Routes, Job0
  <1>7. t \in States /\ t.asked = asked[d] /\ t.out = s.out
    BY <1>3, <1>5, <1>6, OpenKeeps DEF Open, Kept, States
  <1>8. PICK u : u = Send(t, m)
    OBVIOUS
  <1>9. u \in States /\ u.asked = asked[d] /\ Refreshes(u.out)
    <2>1. u \in States /\ u.asked = asked[d]
      BY <1>6, <1>7, <1>8, SendKeeps DEF Kept
    <2>2. u.out = Append(s.out, m) /\ s.out \in Seq(Messages)
      BY <1>3, <1>7, <1>8 DEF Send, States
    <2>3. QED
      BY <1>3, <1>6, <2>1, <2>2, RefreshesAppend
  <1>10. PICK v : v = IF op[d].kind = "remove" THEN u ELSE s
    OBVIOUS
  <1>11. v \in States /\ v.asked = asked[d] /\ Refreshes(v.out)
    BY <1>3, <1>9, <1>10
  <1>12. /\ Become(d, v, wire[d]) /\ op' = [op EXCEPT ![d] = Idle] /\ UNCHANGED stored
         /\ behind' = IF asked[d].in = "answer" \/ ChangedAgain(d) THEN behind \cup {d} ELSE behind
         /\ saves' = IF op[d].kind = "remove" THEN Left(Home) ELSE saves
    BY <1>2, <1>4, <1>5, <1>8, <1>10 DEF Result
  <1>13. jobs' = [jobs EXCEPT ![d] = Merge(jobs[d], op[d])]
    BY DEF Result, Merge, Typed, TypedRest
  <1>14. /\ TypedDocs' /\ asked' = [asked EXCEPT ![d] = asked[d]]
         /\ wire'[d] = wire[d] /\ wire'[Other(d)] = wire[Other(d)] \o v.out
    BY <1>1, <1>11, <1>12, BecomeTyped
  <1>15. /\ saves' \in Seq(Calls) /\ DOMAIN saves' = DOMAIN saves
         /\ \A c \in DOMAIN saves : saves'[c].pc = saves[c].pc
    BY <1>12, LeftTyped DEF Typed, TypedRest
  <1>16. Typed'
    BY <1>1, <1>12, <1>13, <1>14, <1>15, MergeTyped DEF Typed, TypedRest
  <1>17. Docs = {d, Other(d)} /\ Other(d) \in Docs /\ Other(d) # d
    BY DEF Docs, Other
  <1>18. Told(Other(d))'
    <2>1. wire[Other(d)] \in Seq(Messages) /\ v.out \in Seq(Messages)
      BY <1>11, <1>17 DEF Typed, TypedDocs, States
    <2>2. Refreshes(wire'[Other(d)])
      BY <1>11, <1>14, <2>1, RefreshesAfter
    <2>3. QED
      BY <2>2 DEF Told
  <1>19. Told(d)' \/ UpToDate(d)'
    <2>1. asked'[d] = asked[d] /\ op'[d] = Idle /\ op'[Other(d)] = op[Other(d)]
      BY <1>12, <1>14, <1>17 DEF Typed, TypedDocs, TypedRest
    <2>2. Told(d) => Told(d)'
      BY <1>12, <1>14, <1>15, <2>1 DEF Told
    <2>3. CASE asked[d].in = "answer" \/ ChangedAgain(d)
      BY <1>12, <2>3 DEF Told
    <2>4. CASE ~(asked[d].in = "answer" \/ ChangedAgain(d)) /\ UpToDate(d)
      <3>1. Merge(jobs[d], op[d]) = stored
        BY <1>1, <2>4 DEF UpToDate, Merged, Known
      <3>2. jobs'[d] = stored
        BY <1>13, <3>1 DEF Typed, TypedRest
      <3>3. Merged(d)' = jobs'[d]
        BY <2>1, <2>4 DEF Merged, Known, Idle
      <3>4. QED
        BY <1>12, <3>2, <3>3 DEF UpToDate
    <2>5. QED
      BY <2>2, <2>3, <2>4 DEF Announced
  <1>20. QED
    BY <1>16, <1>17, <1>18, <1>19 DEF Announced

-----------------------------------------------------------------------------
(* The saves                                                               *)

LEMMA WriteStep ==
  ASSUME IInv, NEW t \in DOMAIN saves, Write(t)
  PROVE  IInv'
  <1> USE DEF IInv
  <1>1. /\ UNCHANGED <<jobs, selected, asked, lease, deferred, wire, route, op>>
        /\ saves[t].pc = "write"
    BY DEF Write
  <1>2. route' \in Routes /\ saves[t].job \in Jobs
    <2>1. saves[t] \in Calls
      BY DEF Typed, TypedRest
    <2>2. QED
      BY <1>1, <2>1 DEF Typed, TypedDocs, Calls
  <1>3. CASE Step(t, "end") /\ UNCHANGED <<stored, behind>>
    BY <1>1, <1>2, <1>3, StepKeeps, Resting, CallsStep
  <1>4. CASE ~(Step(t, "end") /\ UNCHANGED <<stored, behind>>)
    <2>1. /\ stored' = IF saves[t].new THEN Created(saves[t].job) ELSE stored
          /\ \/ Step(t, "written") /\ UNCHANGED behind
             \/ Step(t, "end") /\ behind' = Docs
      BY <1>4 DEF Write
    <2>2. Created(saves[t].job) \in Lists
      <3>1. PICK jj \in SUBSET Jobs : stored \in [jj -> BOOLEAN]
        BY DEF Typed, TypedRest, Lists
      <3>2. PICK kk \in SUBSET Jobs : kk = jj \cup {saves[t].job}
        BY <1>2
      <3>3. Created(saves[t].job) \in [kk -> BOOLEAN]
        BY <3>1, <3>2 DEF Created
      <3>4. QED
        BY <3>3 DEF Lists
    <2>3. saves' \in Seq(Calls)
      BY <2>1, StepKeeps
    <2>4. Typed'
      BY <1>1, <2>1, <2>2, <2>3 DEF Typed, TypedDocs, TypedRest
    <2>5. CASE behind' = Docs
      BY <2>4, <2>5 DEF Announced, Told
    <2>6. CASE Step(t, "written")
      <3>1. t \in DOMAIN saves' /\ saves'[t].pc = "written"
        BY <2>6, StepKeeps
      <3>2. QED
        BY <2>4, <3>1 DEF Announced, Told
    <2>7. QED
      BY <2>1, <2>5, <2>6
  <1>5. QED
    BY <1>3, <1>4

LEMMA WrittenStep ==
  ASSUME IInv, NEW t \in DOMAIN saves, Written(t)
  PROVE  IInv'
  <1> USE DEF IInv
  <1>1. UNCHANGED <<stored, jobs, op>>
    BY DEF Written
  <1>2. CASE saves[t].current
    <2>1. PICK s : s = Send(State("main"), [type |-> "refresh"])
      OBVIOUS
    <2>2. "main" \in Docs /\ s \in States /\ Refreshes(s.out)
      BY <2>1, StateTyped, TellKeeps DEF Docs, Kept
    <2>3. PICK u : u = Ask(s)
      OBVIOUS
    <2>4. u \in States /\ u.asked.in = "request" /\ u.out = s.out
      BY <2>2, <2>3, AskTyped DEF Ask, States
    <2>5. /\ Become("main", u, wire["main"]) /\ behind' = behind \ {"main"}
          /\ saves' = [saves EXCEPT ![t].pc = "end", ![t].saved = TRUE]
      BY <1>2, <2>1, <2>3 DEF Written
    <2>6. saves' \in Seq(Calls)
      <3>1. PICK c : c = [saves[t] EXCEPT !.pc = "end", !.saved = TRUE]
        OBVIOUS
      <3>2. saves \in Seq(Calls) /\ saves[t] \in Calls
        BY DEF Typed, TypedRest
      <3>3. c \in Calls
        BY <3>1, <3>2 DEF Calls
      <3>4. saves' = [saves EXCEPT ![t] = c]
        BY <2>5, <3>1, <3>2
      <3>5. QED
        BY <3>2, <3>3, <3>4
    <2>7. wire["main"] \in Seq(Messages) /\ wire["side"] \in Seq(Messages)
          /\ u.out \in Seq(Messages) /\ Other("main") = "side"
      BY <2>4 DEF Typed, TypedDocs, Docs, States, Other
    <2>8. TypedDocs' /\ asked'["main"] = u.asked /\ wire'["side"] = wire["side"] \o u.out
      <3>1. /\ TypedDocs' /\ asked' = [asked EXCEPT !["main"] = u.asked]
            /\ wire'[Other("main")] = wire[Other("main")] \o u.out
        BY <2>2, <2>4, <2>5, <2>7, BecomeTyped
      <3>2. QED
        BY <2>2, <2>7, <3>1 DEF Typed, TypedDocs
    <2>9. Refreshes(wire'["side"])
      BY <2>2, <2>4, <2>7, <2>8, RefreshesAfter
    <2>10. Told("main")' /\ Told("side")'
      BY <2>4, <2>8, <2>9 DEF Told
    <2>11. QED
      BY <1>1, <2>5, <2>6, <2>8, <2>10 DEF Announced, Docs, Typed, TypedRest
  <1>3. CASE ~saves[t].current
    <2>1. Step(t, "end") /\ behind' = Docs
          /\ UNCHANGED <<selected, asked, lease, deferred, wire, route>>
      BY <1>3 DEF Written
    <2>2. Typed'
      BY <1>1, <2>1, StepKeeps DEF Typed, TypedDocs, TypedRest
    <2>3. QED
      BY <2>1, <2>2 DEF Announced, Told
  <1>4. QED
    BY <1>2, <1>3

-----------------------------------------------------------------------------
(* The specification                                                       *)

LEMMA InvInit ==
  ASSUME ConstantsFit, Init
  PROVE  IInv
  <1>1. PICK s \in SUBSET Jobs : stored \in [s -> {FALSE}]
    BY DEF Init, ConstantsFit
  <1>2. stored \in [s -> BOOLEAN]
    BY <1>1
  <1>3. stored \in Lists
    BY <1>2 DEF Lists
  <1>4. First(stored) \in Job0
    BY <1>3, FirstIsAJob
  <1>5. TypedDocs
    <2>1. << >> \in Seq(Messages) /\ Nothing \in Requests /\ Free \in Leases /\ 0 \in Job0
      BY DEF Nothing, Requests, Free, Leases, Job0
    <2>2. Home \in Routes /\ Route("job", First(stored)) \in Routes
      BY <1>4 DEF Home, Route, Routes, Job0
    <2>3. QED
      BY <1>4, <2>1, <2>2 DEF Init, TypedDocs
  <1>6. TypedRest
    BY <1>3 DEF Init, TypedRest
  <1>7. \A e \in Docs : UpToDate(e)
    BY DEF Init, UpToDate, Merged, Known, Nothing, Idle
  <1>8. QED
    BY <1>5, <1>6, <1>7 DEF IInv, Typed, Announced

LEMMA InvStep ==
  ASSUME ConstantsFit, IInv, [Next]_vars
  PROVE  IInv'
  <1>1. CASE UNCHANGED vars
    <2>1. UNCHANGED <<stored, jobs, selected, asked, lease, deferred, wire, route, saves, op, behind>>
      BY <1>1 DEF vars
    <2>2. route' \in Routes
      BY <2>1 DEF IInv, Typed, TypedDocs
    <2>3. QED
      BY <2>1, <2>2, Resting, CallsStep DEF IInv
  <1>2. ASSUME NEW d \in Docs, Deliver(d) \/ Refresh(d) \/ ServerList(d) \/ ListAnswer(d)
                               \/ ListFail(d) \/ Reload(d)
        PROVE  IInv'
    BY <1>2, DeliverStep, RefreshStep, ServerListStep, ListAnswerStep, ListFailStep, ReloadStep
  <1>3. ASSUME NEW d \in Docs, Serve(d) \/ Result(d) \/ Dropped(d) \/ LeaseTimer(d)
        PROVE  IInv'
    BY <1>3, ServeStep, ResultStep, DroppedStep, LeaseTimerStep
  <1>4. ASSUME NEW j \in Jobs, Click(j) \/ Switch(j) \/ Save(j)
        PROVE  IInv'
    BY <1>4, ClickStep, SwitchStep, SaveStep
  <1>5. CASE NewJob \/ Delete
    BY <1>5, NewJobStep, DeleteStep
  <1>6. ASSUME NEW r \in {Route(a, j) : a \in {"job", "edit"}, j \in Jobs}, Walk(r)
        PROVE  IInv'
    BY <1>6, WalkStep
  <1>7. ASSUME NEW t \in DOMAIN saves,
               Check(t) \/ Write(t) \/ Written(t) \/ End(t) \/ Expire(t)
        PROVE  IInv'
    BY <1>7, CheckStep, WriteStep, WrittenStep, EndStep, ExpireStep
  <1>8. QED
    BY <1>1, <1>2, <1>3, <1>4, <1>5, <1>6, <1>7 DEF Next

(* A document has what it needs to show the server's Jobs: its list, the    *)
(* answer on its way with its own mutation merged into it, or the news that *)
(* makes it ask again (refresh, run and ListSettles' exceptions).           *)
THEOREM StaleListsAreAnnounced == ConstantsFit /\ Spec => []IInv
  <1>1. ConstantsFit /\ Init => IInv /\ ConstantsFit
    BY InvInit
  <1>2. IInv /\ ConstantsFit /\ [Next]_vars => IInv' /\ ConstantsFit'
    BY InvStep DEF ConstantsFit
  <1>3. QED
    BY <1>1, <1>2, PTL DEF Spec

(* Whatever the two documents, the server and the user do in whatever order: *)
(* when messages, lists, saves and mutations have settled, a document shows  *)
(* the Jobs that the server has, unless its last list failed or nobody was   *)
(* there to announce a change (useCollectorData, JobForm.save).              *)
THEOREM ListsSettle == ConstantsFit /\ Spec => []ListSettles
  <1>1. IInv => ListSettles
    <2> SUFFICES ASSUME IInv, Quiet, NEW e \in Docs \ behind PROVE jobs[e] = stored
      BY DEF ListSettles
    <2>1. /\ wire[e] = << >> /\ asked[e] = Nothing /\ op[e] = Idle /\ op[Other(e)] = Idle
          /\ \A t \in DOMAIN saves : saves[t].pc = "done"
      BY DEF Quiet, Docs, Other
    <2>2. ~Told(e)
      BY <2>1 DEF Told, Refreshes, Nothing, Idle
    <2>3. UpToDate(e)
      BY <2>2 DEF IInv, Announced
    <2>4. QED
      BY <2>1, <2>3 DEF UpToDate, Merged, Known, Nothing, Idle
  <1>2. QED
    BY <1>1, StaleListsAreAnnounced, PTL
-----------------------------------------------------------------------------
(* The detail page of a Job, JobPage, for any Jobs that it can be opened     *)
(* for: the index, which the documents' lists are taken from, is where its   *)
(* Log level comes from.                                                     *)

CONSTANTS PageJobs, PageInputs, MaxChanges
VARIABLES index, runtime, up, name, data, loading, logLevel, waiting, active, late, entered,
          changes, chosen, applied, strayed
JP == INSTANCE JobPage WITH Jobs <- PageJobs, MaxInputs <- PageInputs, asked <- loading, inputs <- entered

-----------------------------------------------------------------------------
(* The inductive invariant                                                   *)

\* What the index, a view, a runtime file, a mutation and a load can be.
Confs     == [rev : Nat \ {0}, level : JP!Levels]
Views     == [job : PageJobs, rev : Nat \ {0}, level : JP!Levels, running : BOOLEAN,
              skipped : BOOLEAN]
Runtimes  == [state : {"running", "stopped"}, read : BOOLEAN, skipped : BOOLEAN]
PageMutations == [kind : {"level"}, job : PageJobs, level : JP!Levels]
                 \cup [kind : {"clear"}, job : PageJobs]
Loads     == [pc : {"nothing", "sent", "failed"}] \cup [pc : {"looked"}, conf : Confs]
             \cup [pc : {"answer"}, data : Views]

PageTyped ==
  /\ index \in [PageJobs -> Confs] /\ runtime \in [PageJobs -> Runtimes] /\ up \in BOOLEAN
  /\ name \in PageJobs /\ data \in {JP!Absent} \cup Views /\ loading \in Loads
  /\ logLevel \in JP!Levels /\ chosen \in BOOLEAN /\ applied \in Nat
  /\ active \in {JP!None} \cup PageMutations /\ late \in SUBSET PageMutations

\* A reading of the index of a Job: one of its past states.
Past(c) == c.rev <= index[name].rev /\ (c.rev = index[name].rev => c.level = index[name].level)
\* The reading that an answer carries.
Reads == loading.pc \in {"looked", "answer"}
Reading == IF loading.pc = "looked" THEN loading.conf ELSE loading.data

\* What the page shows and what is on its way are readings of the one index.
Readings ==
  /\ data # JP!Absent => Past(data)
  /\ Reads => Past(Reading)
  /\ data # JP!Absent /\ Reads /\ Reading.rev = data.rev => Reading.level = data.level

\* The answer of another page was aborted with it.
OfThisJob == loading.pc = "answer" => loading.data.job = name

\* Whatever is read from now on has the level that was applied last.
SinceApplied ==
  /\ applied <= index[name].rev
  /\ Reads => Reading.rev >= applied
  /\ JP!AppliedIsShown

PageInv == PageTyped /\ Readings /\ OfThisJob /\ JP!ShowsItsJob /\ SinceApplied

\* A step that touches neither the index nor what the page shows.
LEMMA PageStays ==
  ASSUME PageInv, runtime' \in [PageJobs -> Runtimes], up' \in BOOLEAN,
         UNCHANGED <<index, name, data, logLevel, chosen, applied>>,
         active' \in {JP!None} \cup PageMutations, late' \in SUBSET PageMutations,
         loading' = loading \/ loading' = JP!Request \/ loading' = [pc |-> "failed"]
  PROVE  PageInv'
  <1>1. loading' \in Loads
    BY DEF PageInv, PageTyped, Loads, JP!Request
  <1>2. PageTyped'
    BY <1>1 DEF PageInv, PageTyped
  <1>3. CASE loading' = loading
    BY <1>2, <1>3 DEF PageInv, Readings, OfThisJob, JP!ShowsItsJob, SinceApplied, JP!AppliedIsShown,
                      Past, Reads, Reading
  <1>4. CASE loading'.pc \in {"sent", "failed"}
    BY <1>2, <1>4 DEF PageInv, Readings, OfThisJob, JP!ShowsItsJob, SinceApplied, JP!AppliedIsShown,
                      Past, Reads, Reading
  <1>5. QED
    BY <1>3, <1>4 DEF JP!Request

\* The server reads the index for the answer ...
LEMMA LookStep ==
  ASSUME PageInv, JP!Look
  PROVE  PageInv'
  <1>1. PICK c : c = index[name]
    OBVIOUS
  <1>2. c \in Confs /\ applied <= c.rev
    BY <1>1 DEF PageInv, PageTyped, SinceApplied
  <1>3. loading' = [pc |-> "looked", conf |-> c] /\ UNCHANGED <<JP!server, JP!page, JP!changed>>
    BY <1>1 DEF JP!Look
  <1>4. UNCHANGED <<index, runtime, up, name, data, logLevel, chosen, applied, active, late>>
    BY <1>3 DEF JP!server, JP!page, JP!changed
  <1>5. PageTyped'
    BY <1>2, <1>3, <1>4 DEF PageInv, PageTyped, Loads
  <1>6. Reading' = c /\ Past(c)' /\ (data # JP!Absent => Past(data))
    BY <1>1, <1>2, <1>3, <1>4 DEF Reading, Past, Confs, PageInv, Readings
  <1>7. QED
    BY <1>1, <1>2, <1>3, <1>4, <1>5, <1>6
       DEF PageInv, Readings, OfThisJob, JP!ShowsItsJob, SinceApplied, JP!AppliedIsShown, Past, Reads

\* ... and then the runtime file: the answer has the level read first.
LEMMA TellStep ==
  ASSUME PageInv, JP!Tell
  PROVE  PageInv'
  <1>1. PICK c : c = loading.conf
    OBVIOUS
  <1>2. c \in Confs /\ loading.pc = "looked"
    BY <1>1 DEF JP!Tell, PageInv, PageTyped, Loads
  <1>3. PICK told \in {JP!Overview(name), JP!Unknown} : loading' = [pc |-> "answer", data |-> JP!View(name, c, told)]
    BY <1>1 DEF JP!Tell
  <1>4. told.running \in BOOLEAN /\ told.skipped \in BOOLEAN
    <2>1. JP!Executes(name) \in BOOLEAN /\ JP!Skipped(name) \in BOOLEAN
      BY DEF PageInv, PageTyped, Runtimes, JP!Executes, JP!Skipped
    <2>2. \A x, y \in BOOLEAN :
            [running |-> x, skipped |-> y] \in [running : BOOLEAN, skipped : BOOLEAN]
      OBVIOUS
    <2>3. JP!Overview(name) \in [running : BOOLEAN, skipped : BOOLEAN]
      BY <2>1, <2>2, Zenon DEF JP!Overview
    <2>4. told \in [running : BOOLEAN, skipped : BOOLEAN]
      BY <1>3, <2>2, <2>3 DEF JP!Unknown
    <2>5. QED
      BY <2>4
  <1>5. PICK v : v = JP!View(name, c, told)
    OBVIOUS
  <1>6. v \in Views /\ v.job = name /\ v.rev = c.rev /\ v.level = c.level
    BY <1>2, <1>4, <1>5 DEF JP!View, Views, JP!ConfigFromIndex, Confs, PageInv, PageTyped
  <1>7. loading' = [pc |-> "answer", data |-> v]
    BY <1>3, <1>5
  <1>8. UNCHANGED <<index, runtime, up, name, data, logLevel, chosen, applied, active, late>>
    BY DEF JP!Tell, JP!server, JP!page, JP!changed
  <1>9. PageTyped'
    BY <1>6, <1>7, <1>8 DEF PageInv, PageTyped, Loads
  <1>10. Reads' /\ Reading'.rev = Reading.rev /\ Reading'.level = Reading.level /\ Reads
    BY <1>1, <1>2, <1>6, <1>7 DEF Reading, Reads
  <1>11. QED
    BY <1>6, <1>7, <1>8, <1>9, <1>10
       DEF PageInv, Readings, OfThisJob, JP!ShowsItsJob, SinceApplied, JP!AppliedIsShown, Past

\* The page shows an answer, and sets the select when it may.
LEMMA HearStep ==
  ASSUME PageInv, JP!Hear
  PROVE  PageInv'
  <1>1. PICK d : d = IF loading.pc = "answer" THEN loading.data ELSE JP!Absent
    OBVIOUS
  <1>2. d \in {JP!Absent} \cup Views /\ (d # JP!Absent => loading.pc = "answer" /\ d = loading.data)
    BY <1>1 DEF PageInv, PageTyped, Loads
  <1>3. /\ JP!Shows(d) /\ loading' = JP!NoRequest
        /\ UNCHANGED <<index, runtime, up, name, applied, active, late>>
    BY <1>1 DEF JP!Hear, JP!server, JP!changed
  <1>4. data' = d /\ loading'.pc = "nothing"
    BY <1>3 DEF JP!Shows, JP!NoRequest
  <1>5. PageTyped'
    BY <1>2, <1>3, <1>4 DEF JP!Shows, PageInv, PageTyped, Loads, JP!NoRequest, JP!Levels, Views
  <1>6. d # JP!Absent => Past(d) /\ d.job = name /\ d.rev >= applied
    BY <1>2 DEF PageInv, Readings, OfThisJob, SinceApplied, Reads, Reading
  <1>7. JP!ShowsItsJob'
    <2>1. SUFFICES ASSUME d # JP!Absent, ~chosen' PROVE logLevel' = d.level
      BY <1>3, <1>4, <1>6 DEF JP!ShowsItsJob
    <2>2. CASE d.rev # data.rev
      BY <1>3, <2>1, <2>2 DEF JP!Shows
    <2>3. CASE d.rev = data.rev
      <3>1. data # JP!Absent
        BY <1>2, <2>1, <2>3 DEF Views, JP!Absent
      <3>2. d.level = data.level
        BY <1>2, <2>1, <2>3, <3>1 DEF PageInv, Readings, Reads, Reading
      <3>3. QED
        BY <1>3, <2>1, <2>3, <3>1, <3>2 DEF JP!Shows, PageInv, JP!ShowsItsJob
    <2>4. QED
      BY <2>2, <2>3
  <1>8. QED
    BY <1>3, <1>4, <1>5, <1>6, <1>7
       DEF PageInv, Readings, OfThisJob, SinceApplied, JP!AppliedIsShown, Past, Reads

\* The requests of useLoad, and one that fails.
LEMMA RequestStep ==
  ASSUME PageInv, JP!Poll \/ JP!Listed \/ JP!RefreshMonitoring \/ JP!LoadFails
  PROVE  PageInv'
  <1>1. UNCHANGED <<index, runtime, up, name, data, logLevel, chosen, applied, active, late>>
    BY DEF JP!Poll, JP!Listed, JP!RefreshMonitoring, JP!LoadFails, JP!server, JP!page, JP!changed
  <1>2. loading' = JP!Request \/ loading' = [pc |-> "failed"]
    BY DEF JP!Poll, JP!Listed, JP!RefreshMonitoring, JP!LoadFails
  <1>3. QED
    BY <1>1, <1>2, PageStays DEF PageInv, PageTyped

\* The collector, its service and a stutter of the page.
LEMMA CollectorStep ==
  ASSUME PageInv, JP!ServiceTurns \/ (\E j \in PageJobs : JP!CollectorActs(j))
  PROVE  PageInv'
  <1>1. UNCHANGED <<index, name, data, loading, logLevel, chosen, applied, active, late>>
    BY DEF JP!ServiceTurns, JP!CollectorActs, JP!page, JP!changed
  <1>2. runtime' \in [PageJobs -> Runtimes] /\ up' \in BOOLEAN
    <2>1. CASE JP!ServiceTurns
      BY <2>1 DEF JP!ServiceTurns, PageInv, PageTyped
    <2>2. ASSUME NEW j \in PageJobs, JP!CollectorActs(j)
          PROVE  runtime' \in [PageJobs -> Runtimes] /\ up' \in BOOLEAN
      <3>1. runtime[j] \in Runtimes /\ UNCHANGED up
        BY <2>2 DEF PageInv, PageTyped, JP!CollectorActs
      <3>2. PICK r \in Runtimes : runtime' = [runtime EXCEPT ![j] = r]
        <4>1. \A s \in {"running", "stopped"} : [runtime[j] EXCEPT !.state = s] \in Runtimes
          BY <3>1 DEF Runtimes
        <4>2. [runtime[j] EXCEPT !.read = TRUE] \in Runtimes
              /\ [runtime[j] EXCEPT !.skipped = TRUE] \in Runtimes
          BY <3>1 DEF Runtimes
        <4>3. runtime' = [runtime EXCEPT ![j].state = IF @ = "running" THEN "stopped" ELSE "running"]
              \/ runtime' = [runtime EXCEPT ![j].read = TRUE]
              \/ runtime' = [runtime EXCEPT ![j].skipped = TRUE]
          BY <2>2 DEF JP!CollectorActs
        <4>4. QED
          BY <4>1, <4>2, <4>3
      <3>3. QED
        BY <3>1, <3>2 DEF PageInv, PageTyped
    <2>3. QED
      BY <2>1, <2>2
  <1>3. QED
    BY <1>1, <1>2, PageStays DEF PageInv, PageTyped

\* A change of the index: of another Job, or to a later revision.
LEMMA IndexChange ==
  ASSUME PageInv, NEW j \in PageJobs, NEW l \in JP!Levels,
         index' = index \/ index' = [index EXCEPT ![j] = [rev |-> @.rev + 1, level |-> l]]
  PROVE  /\ index' \in [PageJobs -> Confs] /\ index'[name].rev >= index[name].rev
         /\ index'[name].rev = index[name].rev => index'[name] = index[name]
  <1>1. index[j] \in Confs /\ index[name] \in Confs /\ name \in PageJobs
    BY DEF PageInv, PageTyped
  <1>2. [rev |-> index[j].rev + 1, level |-> l] \in Confs
    BY <1>1 DEF Confs
  <1>3. QED
    BY <1>1, <1>2 DEF PageInv, PageTyped, Confs

\* What was a reading of the index still is one when the index has moved on.
LEMMA PastStays ==
  ASSUME PageInv, index'[name] \in Confs, index'[name].rev >= index[name].rev,
         index'[name].rev = index[name].rev => index'[name] = index[name],
         UNCHANGED name, NEW c \in Confs \cup Views, Past(c)
  PROVE  c.rev <= index'[name].rev /\ (c.rev = index'[name].rev => c.level = index'[name].level)
  <1>1. c.rev \in Nat /\ index[name].rev \in Nat /\ index'[name].rev \in Nat
    BY DEF PageInv, PageTyped, Confs, Views
  <1>2. QED
    BY <1>1 DEF Past

\* A change of the index that the page does not notice.
LEMMA IndexStep ==
  ASSUME PageInv, NEW j \in PageJobs, NEW l \in JP!Levels,
         index' = index \/ index' = [index EXCEPT ![j] = [rev |-> @.rev + 1, level |-> l]],
         UNCHANGED <<name, data, loading, logLevel, chosen, applied>>,
         active' \in {JP!None} \cup PageMutations, late' \in SUBSET PageMutations,
         runtime' \in [PageJobs -> Runtimes], up' \in BOOLEAN
  PROVE  PageInv'
  <1>1. /\ index' \in [PageJobs -> Confs] /\ index'[name].rev >= index[name].rev
        /\ index'[name].rev = index[name].rev => index'[name] = index[name]
    BY IndexChange
  <1>2. PageTyped'
    BY <1>1 DEF PageInv, PageTyped
  <1>3. Reads => Reading \in Confs \cup Views
    BY DEF PageInv, PageTyped, Reads, Reading, Loads
  <1>4. \A c \in Confs \cup Views : Past(c) => Past(c)'
    BY <1>1, PastStays DEF PageInv, PageTyped, Past
  <1>5. Readings'
    BY <1>3, <1>4 DEF PageInv, PageTyped, Readings, Reads, Reading
  <1>6. SinceApplied'
    BY <1>1 DEF PageInv, PageTyped, SinceApplied, Reads, Reading, JP!AppliedIsShown, Confs
  <1>7. QED
    BY <1>2, <1>5, <1>6 DEF PageInv, OfThisJob, JP!ShowsItsJob

\* Another page, or the package, changes a Job.
LEMMA OtherEditsStep ==
  ASSUME PageInv, NEW j \in PageJobs, NEW l \in JP!Levels, JP!OtherEdits(j, l)
  PROVE  PageInv'
  <1>1. /\ index' = [index EXCEPT ![j] = [rev |-> @.rev + 1, level |-> l]]
        /\ UNCHANGED <<runtime, up, name, data, loading, logLevel, chosen, applied, active, late>>
    BY DEF JP!OtherEdits, JP!page, JP!changed
  <1>2. QED
    BY <1>1, IndexStep DEF PageInv, PageTyped

-----------------------------------------------------------------------------
(* The operator *)

\* An aborted mutation may be served later.
LEMMA AbortTyped ==
  ASSUME PageInv, JP!Abort
  PROVE  late' \in SUBSET PageMutations
  BY DEF PageInv, PageTyped, JP!Abort

\* Another Job is opened: its page starts anew.
LEMMA GoStep ==
  ASSUME PageInv, NEW j \in PageJobs, JP!Go(j)
  PROVE  PageInv'
  <1>1. /\ name' = j /\ data' = JP!Absent /\ loading' = JP!Request /\ logLevel' = "info"
        /\ chosen' = FALSE /\ applied' = 0 /\ active' = JP!None /\ UNCHANGED <<index, runtime, up>>
        /\ late' \in SUBSET PageMutations
    BY AbortTyped DEF JP!Go, JP!server
  <1>2. PageTyped'
    BY <1>1 DEF PageInv, PageTyped, Loads, JP!Request, JP!Levels
  <1>3. ~Reads' /\ loading'.pc # "nothing" /\ loading'.pc # "answer"
    BY <1>1 DEF Reads, JP!Request
  <1>4. QED
    BY <1>1, <1>2, <1>3
       DEF PageInv, PageTyped, Readings, OfThisJob, JP!ShowsItsJob, SinceApplied, JP!AppliedIsShown, Confs

\* The operator sets the select.
LEMMA ChooseLevelStep ==
  ASSUME PageInv, NEW l \in JP!Levels, JP!ChooseLevel(l)
  PROVE  PageInv'
  <1>1. /\ logLevel' = l /\ chosen' = TRUE
        /\ UNCHANGED <<index, runtime, up, name, data, loading, applied, active, late>>
    BY DEF JP!ChooseLevel, JP!server
  <1>2. QED
    BY <1>1 DEF PageInv, PageTyped, Readings, OfThisJob, JP!ShowsItsJob, SinceApplied, JP!AppliedIsShown,
                Past, Reads, Reading

\* A mutation is sent.
LEMMA MutationStep ==
  ASSUME PageInv, JP!SaveLogLevel \/ JP!ClearOverrun
  PROVE  PageInv'
  <1>1. PICK m \in PageMutations : JP!Begin(m)
    BY DEF JP!SaveLogLevel, JP!ClearOverrun, PageInv, PageTyped, PageMutations
  <1>2. /\ active' \in {JP!None} \cup PageMutations /\ late' \in SUBSET PageMutations
        /\ UNCHANGED <<index, runtime, up, name, data, loading, logLevel, chosen, applied>>
    BY <1>1, AbortTyped DEF JP!Begin, JP!server
  <1>3. QED
    BY <1>2, PageStays DEF PageInv, PageTyped

-----------------------------------------------------------------------------
(* The mutations *)

\* What the server does for a mutation: a level it has already is no change.
LEMMA ServedKeeps ==
  ASSUME PageInv, NEW m \in PageMutations, JP!Served(m)
  PROVE  /\ \E j \in PageJobs, l \in JP!Levels :
               index' = index \/ index' = [index EXCEPT ![j] = [rev |-> @.rev + 1, level |-> l]]
         /\ runtime' \in [PageJobs -> Runtimes]
  <1>1. CASE JP!LevelServed(m)
    <2>1. m.job \in PageJobs /\ m.level \in JP!Levels
      BY <1>1 DEF JP!LevelServed, PageMutations
    <2>2. index[m.job].level = m.level => index' = index
      BY <1>1, <2>1 DEF JP!LevelServed, PageInv, PageTyped
    <2>3. index[m.job].level # m.level =>
             index' = [index EXCEPT ![m.job] = [rev |-> @.rev + 1, level |-> m.level]]
      BY <1>1, <2>1 DEF JP!LevelServed, PageInv, PageTyped
    <2>4. QED
      BY <1>1, <2>1, <2>2, <2>3 DEF JP!LevelServed, PageInv, PageTyped
  <1>2. CASE JP!OverrunServed(m)
    <2>1. m.job \in PageJobs /\ index' = index
      BY <1>2 DEF JP!OverrunServed, PageMutations
    <2>2. \A r \in Runtimes : [r EXCEPT !.skipped = FALSE] \in Runtimes
      BY DEF Runtimes
    <2>3. runtime' \in [PageJobs -> Runtimes]
      BY <1>2, <2>1, <2>2 DEF JP!OverrunServed, PageInv, PageTyped
    <2>4. QED
      BY <2>1, <2>3 DEF JP!Levels
  <1>3. QED
    BY <1>1, <1>2 DEF JP!Served

\* The server gets to a mutation that was aborted.
LEMMA ServedLateStep ==
  ASSUME PageInv, NEW m \in late, JP!ServedLate(m)
  PROVE  PageInv'
  <1>1. m \in PageMutations /\ JP!Served(m) /\ late' \in SUBSET PageMutations
        /\ UNCHANGED <<up, name, data, logLevel, chosen, applied, loading, active>>
    BY DEF PageInv, PageTyped, JP!ServedLate, JP!page
  <1>2. PICK j \in PageJobs, l \in JP!Levels :
           index' = index \/ index' = [index EXCEPT ![j] = [rev |-> @.rev + 1, level |-> l]]
    BY <1>1, ServedKeeps
  <1>3. runtime' \in [PageJobs -> Runtimes]
    BY <1>1, ServedKeeps
  <1>4. QED
    BY <1>1, <1>2, <1>3, IndexStep DEF PageInv, PageTyped

\* A mutation fails, served or not.
LEMMA FailsStep ==
  ASSUME PageInv, JP!Fails
  PROVE  PageInv'
  <1>1. /\ active' = JP!None
        /\ UNCHANGED <<up, name, data, logLevel, late, chosen, loading, applied>>
    BY DEF JP!Fails, JP!Ends
  <1>2. CASE JP!Served(active)
    <2>1. active \in PageMutations
      BY DEF JP!Fails, PageInv, PageTyped
    <2>2. PICK j \in PageJobs, l \in JP!Levels :
             index' = index \/ index' = [index EXCEPT ![j] = [rev |-> @.rev + 1, level |-> l]]
      BY <1>2, <2>1, ServedKeeps
    <2>3. runtime' \in [PageJobs -> Runtimes]
      BY <1>2, <2>1, ServedKeeps
    <2>4. QED
      BY <1>1, <2>2, <2>3, IndexStep DEF PageInv, PageTyped
  <1>3. CASE UNCHANGED <<index, runtime>>
    BY <1>1, <1>3, PageStays DEF PageInv, PageTyped
  <1>4. QED
    BY <1>2, <1>3 DEF JP!Fails

\* An answer that carries a result: the page loads again.
LEMMA SucceedsStep ==
  ASSUME PageInv, JP!Succeeds
  PROVE  PageInv'
  <1>1. /\ active' = JP!None /\ loading' = JP!Request
        /\ UNCHANGED <<up, name, data, logLevel, late, chosen>>
        /\ applied' = IF active.kind = "level" THEN index'[name].rev ELSE applied
    BY DEF JP!Succeeds, JP!Ends
  <1>2. active \in PageMutations /\ JP!Served(active)
    BY DEF JP!Succeeds, PageInv, PageTyped
  <1>3. PICK j \in PageJobs, l \in JP!Levels :
           index' = index \/ index' = [index EXCEPT ![j] = [rev |-> @.rev + 1, level |-> l]]
    BY <1>2, ServedKeeps
  <1>4. /\ index' \in [PageJobs -> Confs] /\ index'[name].rev >= index[name].rev
        /\ index'[name].rev = index[name].rev => index'[name] = index[name]
    BY <1>3, IndexChange
  <1>5. runtime' \in [PageJobs -> Runtimes]
    BY <1>2, ServedKeeps
  <1>6. index'[name].rev \in Nat /\ index[name].rev \in Nat
    BY <1>4 DEF PageInv, PageTyped, Confs
  <1>7. PageTyped'
    BY <1>1, <1>4, <1>5, <1>6 DEF PageInv, PageTyped, Loads, JP!Request
  <1>8. ~Reads' /\ loading'.pc # "nothing" /\ loading'.pc # "answer"
    BY <1>1 DEF Reads, JP!Request
  <1>9. applied' <= index'[name].rev
    BY <1>1, <1>4, <1>6 DEF PageInv, PageTyped, SinceApplied
  <1>10. data # JP!Absent => Past(data)'
    BY <1>1, <1>4, PastStays DEF PageInv, PageTyped, Readings, Past
  <1>11. QED
    BY <1>1, <1>7, <1>8, <1>9, <1>10
       DEF PageInv, Readings, OfThisJob, JP!ShowsItsJob, SinceApplied, JP!AppliedIsShown

-----------------------------------------------------------------------------
(* The specification *)

\* The page opens on a Job that is in the index.
LEMMA PageInit ==
  ASSUME JP!ConstantsFit, JP!Init
  PROVE  PageInv
  <1>1. name \in PageJobs
    BY DEF JP!Init, JP!ConstantsFit
  <1>2. PICK r \in Runtimes : runtime = [j \in PageJobs |-> r]
    BY DEF JP!Init, Runtimes
  <1>3. PageTyped
    <2>1. [rev |-> 1, level |-> "info"] \in Confs
      BY DEF Confs, JP!Levels
    <2>2. index \in [PageJobs -> Confs] /\ runtime \in [PageJobs -> Runtimes] /\ up \in BOOLEAN
      BY <1>2, <2>1 DEF JP!Init
    <2>3. QED
      BY <1>1, <2>2 DEF JP!Init, PageTyped, JP!Levels, Loads, JP!Request
  <1>4. ~Reads /\ loading.pc # "nothing" /\ loading.pc # "answer"
    BY DEF JP!Init, Reads, JP!Request
  <1>5. QED
    BY <1>1, <1>3, <1>4
       DEF JP!Init, PageInv, Readings, OfThisJob, JP!ShowsItsJob, SinceApplied, JP!AppliedIsShown

\* Every step keeps what is shown a reading of the index.
LEMMA PageStep ==
  ASSUME PageInv, [JP!Next]_JP!vars
  PROVE  PageInv'
  <1>1. CASE UNCHANGED JP!vars
    <2>1. UNCHANGED <<index, runtime, up, name, data, loading, logLevel, chosen, applied, active, late>>
      BY <1>1 DEF JP!vars
    <2>2. QED
      BY <2>1, PageStays DEF PageInv, PageTyped
  <1>2. CASE JP!Look \/ JP!Tell \/ JP!LoadFails \/ JP!Poll \/ JP!Listed \/ JP!RefreshMonitoring \/ JP!Hear
    BY <1>2, LookStep, TellStep, RequestStep, HearStep
  <1>3. CASE JP!ServiceTurns \/ \E j \in PageJobs : JP!CollectorActs(j)
    BY <1>3, CollectorStep
  <1>4. CASE JP!SaveLogLevel \/ JP!ClearOverrun \/ JP!Answer
    BY <1>4, MutationStep, SucceedsStep, FailsStep DEF JP!Answer
  <1>5. ASSUME NEW j \in PageJobs, JP!Go(j) \/ \E l \in JP!Levels : JP!OtherEdits(j, l)
        PROVE  PageInv'
    BY <1>5, GoStep, OtherEditsStep
  <1>6. ASSUME NEW l \in JP!Levels, JP!ChooseLevel(l) PROVE PageInv'
    BY <1>6, ChooseLevelStep
  <1>7. ASSUME NEW m \in late, JP!ServedLate(m) PROVE PageInv'
    BY <1>7, ServedLateStep
  <1>8. QED
    BY <1>1, <1>2, <1>3, <1>4, <1>5, <1>6, <1>7 DEF JP!Next

(* The page shows the Job of its route, and its select that Job's level      *)
(* unless the operator set it, whatever answer comes late; and once a level  *)
(* was applied the page does not settle on a revision of the index before    *)
(* it (useLoad and run, JobDetailPage.jsx).                                  *)
THEOREM PageShowsItsJob == JP!ConstantsFit /\ JP!Spec => [](JP!ShowsItsJob /\ JP!AppliedIsShown)
  <1>1. JP!ConstantsFit /\ JP!Init => PageInv
    BY PageInit
  <1>2. PageInv /\ [JP!Next]_JP!vars => PageInv'
    BY PageStep
  <1>3. PageInv => JP!ShowsItsJob /\ JP!AppliedIsShown
    BY DEF PageInv, SinceApplied
  <1>4. QED
    BY <1>1, <1>2, <1>3, PTL DEF JP!Spec

-----------------------------------------------------------------------------
(* The Data Viewer page, DataViewer, for any Tags, rows, clocks and page     *)
(* sizes, and any number of operations.                                      *)

CONSTANTS Tags, Table, Tick, Span, Clocks, PerTag, MaxPage, MaxOps
VARIABLES view, pinned, result, fetching, endLoading, calls, split, clock, ops, exact
DV == INSTANCE DataViewer WITH loading <- fetching

\* What the page says of sets is what the library's facts are about.
LEMMA SameSize == \A S : DV!Cardinality(S) = Cardinality(S) /\ (DV!IsFiniteSet(S) <=> IsFiniteSet(S))
  BY DEF DV!Cardinality, Cardinality, DV!IsFiniteSet, IsFiniteSet

-----------------------------------------------------------------------------
(* The order of the rows                                                     *)

LEMMA FirstPlace ==
  ASSUME NEW S \in SUBSET Nat, S # {}
  PROVE  \E i \in S : \A k \in S : i <= k
  <1>1. \E i \in S : \A k \in S : <<k, i>> \notin OpToRel(<, Nat)
    BY NatLessThanWellFounded, WFMin
  <1>2. ASSUME NEW i \in Nat, NEW k \in Nat, k < i  PROVE <<k, i>> \in OpToRel(<, Nat)
    BY <1>2 DEF OpToRel
  <1>3. \A i, k \in Nat : k < i \/ i <= k
    OBVIOUS
  <1>4. QED
    BY <1>1, <1>2, <1>3

-----------------------------------------------------------------------------
(* Rows in an order                                                          *)

\* A finite set has a first element in any strict order: the one that fewest
\* others come before.
LEMMA FirstOf ==
  ASSUME NEW S, IsFiniteSet(S), S # {}, NEW R,
         \A x \in S : <<x, x>> \notin R,
         \A x, y, z \in S : <<x, y>> \in R /\ <<y, z>> \in R => <<x, z>> \in R
  PROVE  \E x \in S : \A y \in S : <<y, x>> \notin R
  <1>1. PICK lower : lower = [x \in S |-> {y \in S : <<y, x>> \in R}]
    OBVIOUS
  <1>2. \A x \in S : /\ lower[x] \subseteq S /\ IsFiniteSet(lower[x]) /\ Cardinality(lower[x]) \in Nat
                     /\ \A y \in S : y \in lower[x] <=> <<y, x>> \in R
    <2>1. ASSUME NEW x \in S
          PROVE  /\ lower[x] \subseteq S /\ IsFiniteSet(lower[x]) /\ Cardinality(lower[x]) \in Nat
                 /\ \A y \in S : y \in lower[x] <=> <<y, x>> \in R
      <3>1. lower[x] \in SUBSET S /\ \A y \in S : y \in lower[x] <=> <<y, x>> \in R
        BY <1>1
      <3>2. QED
        BY <3>1, FS_Subset, FS_CardinalityType
    <2>2. QED
      BY <2>1
  <1>3. PICK N : N = {Cardinality(lower[x]) : x \in S}
    OBVIOUS
  <1>4. N \in SUBSET Nat /\ N # {}
    BY <1>2, <1>3
  <1>5. PICK n \in N : \A m \in N : n <= m
    BY <1>4, FirstPlace
  <1>6. PICK x \in S : n = Cardinality(lower[x])
    BY <1>3
  <1>7. ASSUME NEW y \in S, <<y, x>> \in R
        PROVE  FALSE
    <2>1. lower[y] \in SUBSET lower[x] /\ lower[y] # lower[x]
      <3>1. \A z \in S : z \in lower[y] => z \in lower[x]
        BY <1>2, <1>7
      <3>2. y \in lower[x] /\ y \notin lower[y]
        BY <1>2, <1>7
      <3>3. QED
        BY <1>2, <3>1, <3>2
    <2>2. Cardinality(lower[y]) <= Cardinality(lower[x]) /\ Cardinality(lower[y]) # Cardinality(lower[x])
      BY <1>2, <2>1, FS_Subset
    <2>3. Cardinality(lower[y]) \in N /\ Cardinality(lower[x]) \in Nat /\ Cardinality(lower[y]) \in Nat
      BY <1>2, <1>3
    <2>4. n <= Cardinality(lower[y])
      BY <1>5, <2>3
    <2>5. QED
      BY <1>6, <2>2, <2>3, <2>4
  <1>8. QED
    BY <1>7

RowSet == [t : Nat, tag : Nat]

LEMMA TotalOrder ==
  ASSUME NEW back \in BOOLEAN, NEW x \in RowSet, NEW y \in RowSet, NEW z \in RowSet
  PROVE  /\ ~DV!Precedes(back, x, x)
         /\ DV!Precedes(back, x, y) => ~DV!Precedes(back, y, x)
         /\ DV!Precedes(back, x, y) /\ DV!Precedes(back, y, z) => DV!Precedes(back, x, z)
         /\ x # y => DV!Precedes(back, x, y) \/ DV!Precedes(back, y, x)
  <1>1. /\ x.t \in Nat /\ x.tag \in Nat /\ y.t \in Nat /\ y.tag \in Nat /\ z.t \in Nat /\ z.tag \in Nat
        /\ x # y => x.t # y.t \/ x.tag # y.tag
    BY DEF RowSet
  <1>2. CASE back
    BY <1>1, <1>2 DEF DV!Precedes
  <1>3. CASE ~back
    BY <1>1, <1>3 DEF DV!Precedes
  <1>4. QED
    BY <1>2, <1>3

LEMMA EndRows ==
  ASSUME NEW back \in BOOLEAN, NEW S \in SUBSET RowSet, IsFiniteSet(S), S # {}
  PROVE  /\ \E r \in S : \A s \in S : ~DV!Precedes(back, s, r)
         /\ \E r \in S : \A s \in S : ~DV!Precedes(back, r, s)
  <1>1. PICK A : A = {p \in S \X S : DV!Precedes(back, p[1], p[2])}
    OBVIOUS
  <1>2. PICK B : B = {p \in S \X S : DV!Precedes(back, p[2], p[1])}
    OBVIOUS
  <1>3. \A x, y \in S : (<<x, y>> \in A <=> DV!Precedes(back, x, y)) /\ (<<x, y>> \in B <=> DV!Precedes(back, y, x))
    BY <1>1, <1>2
  <1>4. /\ \A x \in S : <<x, x>> \notin A /\ <<x, x>> \notin B
        /\ \A x, y, z \in S : /\ <<x, y>> \in A /\ <<y, z>> \in A => <<x, z>> \in A
                              /\ <<x, y>> \in B /\ <<y, z>> \in B => <<x, z>> \in B
    <2>1. ASSUME NEW x \in S, NEW y \in S, NEW z \in S
          PROVE  /\ <<x, x>> \notin A /\ <<x, x>> \notin B
                 /\ <<x, y>> \in A /\ <<y, z>> \in A => <<x, z>> \in A
                 /\ <<x, y>> \in B /\ <<y, z>> \in B => <<x, z>> \in B
      <3>1. /\ ~DV!Precedes(back, x, x)
            /\ DV!Precedes(back, x, y) /\ DV!Precedes(back, y, z) => DV!Precedes(back, x, z)
            /\ DV!Precedes(back, z, y) /\ DV!Precedes(back, y, x) => DV!Precedes(back, z, x)
        BY TotalOrder
      <3>2. QED
        BY <1>3, <3>1
    <2>2. QED
      BY <2>1
  <1>5. (\E r \in S : \A s \in S : <<s, r>> \notin A) /\ (\E r \in S : \A s \in S : <<s, r>> \notin B)
    <2>1. \E r \in S : \A s \in S : <<s, r>> \notin A
      BY <1>4, FirstOf
    <2>2. \E r \in S : \A s \in S : <<s, r>> \notin B
      BY <1>4, FirstOf
    <2>3. QED
      BY <2>1, <2>2
  <1>6. QED
    BY <1>3, <1>5

\* Before and After, as counts.
LEMMA Counts ==
  ASSUME NEW S, IsFiniteSet(S), NEW back, NEW r
  PROVE  /\ DV!Before(back, r, S) = Cardinality({s \in S : DV!Precedes(back, s, r)}) /\ DV!Before(back, r, S) \in Nat
         /\ DV!After(back, r, S) = Cardinality({s \in S : DV!Precedes(back, r, s)}) /\ DV!After(back, r, S) \in Nat
         /\ IsFiniteSet({s \in S : DV!Precedes(back, s, r)}) /\ IsFiniteSet({s \in S : DV!Precedes(back, r, s)})
  <1>1. {s \in S : DV!Precedes(back, s, r)} \in SUBSET S /\ {s \in S : DV!Precedes(back, r, s)} \in SUBSET S
    OBVIOUS
  <1>2. QED
    BY <1>1, FS_Subset, FS_CardinalityType, SameSize DEF DV!Before, DV!After

\* Two disjoint parts and one more element.
LEMMA Parts ==
  ASSUME NEW A, IsFiniteSet(A), NEW B, IsFiniteSet(B), NEW x, x \notin A, x \notin B, A \cap B = {}
  PROVE  Cardinality(A \cup {x} \cup B) = Cardinality(A) + 1 + Cardinality(B)
  <1>1. IsFiniteSet(A \cup {x}) /\ Cardinality(A \cup {x}) = Cardinality(A) + 1
    BY FS_AddElement
  <1>2. (A \cup {x}) \cap B = {}
    OBVIOUS
  <1>3. Cardinality(A \cup {x} \cup B) = Cardinality(A \cup {x}) + Cardinality(B) - Cardinality((A \cup {x}) \cap B)
    BY <1>1, FS_Union
  <1>4. Cardinality({}) = 0 /\ Cardinality(A) \in Nat /\ Cardinality(B) \in Nat
    BY FS_EmptySet, FS_CardinalityType
  <1>5. QED
    BY <1>1, <1>2, <1>3, <1>4

\* Of two rows, the later one has the earlier one and all before it before it.
LEMMA Ranks ==
  ASSUME NEW back \in BOOLEAN, NEW S \in SUBSET RowSet, IsFiniteSet(S), NEW x \in S, NEW y \in S, DV!Precedes(back, x, y)
  PROVE  /\ \A C : C = {s \in S : DV!Precedes(back, x, s)} => DV!Before(back, y, S) = DV!Before(back, x, S) + 1 + DV!Before(back, y, C)
         /\ \A D : D = {s \in S : DV!Precedes(back, s, y)} => DV!Before(back, y, S) = DV!Before(back, x, S) + 1 + DV!After(back, x, D)
         /\ DV!Before(back, x, S) < DV!Before(back, y, S)
  <1>1. PICK A, B, C, D : /\ A = {s \in S : DV!Precedes(back, s, x)} /\ C = {s \in S : DV!Precedes(back, x, s)}
                          /\ D = {s \in S : DV!Precedes(back, s, y)}
                          /\ B = {s \in S : DV!Precedes(back, x, s) /\ DV!Precedes(back, s, y)}
    OBVIOUS
  <1>2. \A s \in S : /\ DV!Precedes(back, s, y) <=> DV!Precedes(back, s, x) \/ s = x \/ (DV!Precedes(back, x, s) /\ DV!Precedes(back, s, y))
                     /\ ~(DV!Precedes(back, s, x) /\ DV!Precedes(back, x, s)) /\ ~DV!Precedes(back, x, x)
    <2>1. ASSUME NEW s \in S
          PROVE  /\ DV!Precedes(back, s, y) <=> DV!Precedes(back, s, x) \/ s = x \/ (DV!Precedes(back, x, s) /\ DV!Precedes(back, s, y))
                 /\ ~(DV!Precedes(back, s, x) /\ DV!Precedes(back, x, s)) /\ ~DV!Precedes(back, x, x)
      <3>1. s \in RowSet /\ x \in RowSet /\ y \in RowSet
        OBVIOUS
      <3>2. QED
        BY <3>1, TotalOrder
    <2>2. QED
      BY <2>1
  <1>3. /\ D = A \cup {x} \cup B /\ x \notin A /\ x \notin B /\ A \cap B = {}
        /\ B = {s \in C : DV!Precedes(back, s, y)} /\ B = {s \in D : DV!Precedes(back, x, s)}
    BY <1>1, <1>2
  <1>4. IsFiniteSet(A) /\ IsFiniteSet(B) /\ IsFiniteSet(C) /\ IsFiniteSet(D)
    BY <1>1, FS_Subset
  <1>5. Cardinality(D) = Cardinality(A) + 1 + Cardinality(B) /\ Cardinality(A) \in Nat /\ Cardinality(B) \in Nat
    BY <1>3, <1>4, Parts, FS_CardinalityType
  <1>6. /\ DV!Before(back, y, S) = Cardinality(D) /\ DV!Before(back, x, S) = Cardinality(A)
        /\ DV!Before(back, y, C) = Cardinality(B) /\ DV!After(back, x, D) = Cardinality(B)
    BY <1>1, <1>3, SameSize DEF DV!Before, DV!After
  <1>7. PICK a, b, d : a = Cardinality(A) /\ b = Cardinality(B) /\ d = Cardinality(D)
    OBVIOUS
  <1>8. d = a + 1 + b /\ a \in Nat /\ b \in Nat
    BY <1>5, <1>7
  <1>9. /\ DV!Before(back, y, S) = a + 1 + DV!Before(back, y, C) /\ DV!Before(back, y, S) = a + 1 + DV!After(back, x, D)
        /\ DV!Before(back, x, S) = a /\ a < DV!Before(back, y, S)
    BY <1>6, <1>7, <1>8
  <1>10. QED
    BY <1>1, <1>9

-----------------------------------------------------------------------------
(* Pages by number and pages by cursor                                       *)

\* From the last row of a page, the next page begins.
LEMMA NextPage ==
  ASSUME NEW back \in BOOLEAN, NEW S \in SUBSET RowSet, IsFiniteSet(S), NEW size \in Nat \ {0}, NEW p \in Nat \ {0},
         NEW L \in DV!Numbered(back, S, size, p), \A s \in DV!Numbered(back, S, size, p) : ~DV!Precedes(back, L, s),
         NEW C, C = {s \in S : DV!Precedes(back, L, s)}
  PROVE  {r \in C : DV!Before(back, r, C) < size} = DV!Numbered(back, S, size, p + 1)
  <1>1. PICK lo, mid, hi : /\ lo = (p - 1) * size /\ mid = p * size /\ hi = (p + 1) * size
                           /\ lo \in Nat /\ mid = lo + size /\ hi = mid + size
    <2>1. (p - 1) * size \in Nat /\ p * size = (p - 1) * size + size /\ (p + 1) * size = p * size + size
      OBVIOUS
    <2>2. QED
      BY <2>1
  <1>2. (p + 1) - 1 = p
    OBVIOUS
  <1>3. /\ \A r \in S : r \in DV!Numbered(back, S, size, p) <=> lo <= DV!Before(back, r, S) /\ DV!Before(back, r, S) < mid
        /\ \A r \in S : r \in DV!Numbered(back, S, size, p + 1) <=> mid <= DV!Before(back, r, S) /\ DV!Before(back, r, S) < hi
        /\ DV!Numbered(back, S, size, p + 1) \subseteq S
        /\ \A r \in S : DV!Before(back, r, S) \in Nat
        /\ L \in S
    <2>1. \A r \in S : DV!Before(back, r, S) \in Nat
      BY Counts
    <2>2. QED
      BY <1>1, <1>2, <2>1 DEF DV!Numbered
  <1>4. C \in SUBSET RowSet /\ IsFiniteSet(C) /\ C \subseteq S
    BY FS_Subset
  <1>5. \A r \in C : /\ DV!Before(back, r, S) = DV!Before(back, L, S) + 1 + DV!Before(back, r, C) /\ DV!Before(back, r, C) \in Nat
    <2>1. ASSUME NEW r \in C
          PROVE  DV!Before(back, r, S) = DV!Before(back, L, S) + 1 + DV!Before(back, r, C) /\ DV!Before(back, r, C) \in Nat
      <3>1. r \in S /\ DV!Precedes(back, L, r)
        OBVIOUS
      <3>2. DV!Before(back, r, S) = DV!Before(back, L, S) + 1 + DV!Before(back, r, C)
        BY <1>3, <3>1, Ranks
      <3>3. DV!Before(back, r, C) \in Nat
        BY <1>4, Counts
      <3>4. QED
        BY <3>2, <3>3
    <2>2. QED
      BY <2>1
  <1>6. lo <= DV!Before(back, L, S) /\ DV!Before(back, L, S) < mid
    BY <1>3
  <1>7. \A r \in S : r \notin C => DV!Before(back, r, S) <= DV!Before(back, L, S)
    <2>1. ASSUME NEW r \in S, r \notin C PROVE DV!Before(back, r, S) <= DV!Before(back, L, S)
      <3>1. r = L \/ DV!Precedes(back, r, L)
        BY <1>3, <2>1, TotalOrder
      <3>2. DV!Precedes(back, r, L) => DV!Before(back, r, S) < DV!Before(back, L, S)
        BY <1>3, Ranks
      <3>3. DV!Before(back, r, S) \in Nat /\ DV!Before(back, L, S) \in Nat
        BY <1>3
      <3>4. QED
        BY <3>1, <3>2, <3>3
    <2>2. QED
      BY <2>1
  <1>8. ASSUME NEW r \in C PROVE DV!Before(back, r, S) = mid + DV!Before(back, r, C)
    <2>1. PICK f \in C : \A s \in C : ~DV!Precedes(back, s, f)
      BY <1>4, EndRows
    <2>2. DV!Before(back, f, C) = 0
      <3>1. {s \in C : DV!Precedes(back, s, f)} = {}
        BY <2>1
      <3>2. QED
        BY <3>1, FS_EmptySet, SameSize DEF DV!Before
    <2>3. f \notin DV!Numbered(back, S, size, p) /\ f \in S
      BY <1>4
    <2>4. DV!Before(back, L, S) + 1 = mid
      BY <1>1, <1>3, <1>5, <1>6, <2>2, <2>3
    <2>5. QED
      BY <1>3, <1>5, <2>4
  <1>9. QED
    BY <1>1, <1>3, <1>4, <1>5, <1>6, <1>7, <1>8

\* Before the first row of a page, the one before it ends.
LEMMA PreviousPage ==
  ASSUME NEW back \in BOOLEAN, NEW S \in SUBSET RowSet, IsFiniteSet(S), NEW size \in Nat \ {0}, NEW p \in Nat \ {0, 1},
         NEW F \in DV!Numbered(back, S, size, p), \A s \in DV!Numbered(back, S, size, p) : ~DV!Precedes(back, s, F),
         NEW C, C = {s \in S : DV!Precedes(back, s, F)}
  PROVE  {r \in C : DV!After(back, r, C) < size} = DV!Numbered(back, S, size, p - 1)
  <1>1. PICK lo, mid, hi : /\ lo = (p - 1 - 1) * size /\ mid = (p - 1) * size /\ hi = p * size
                           /\ lo \in Nat /\ mid = lo + size /\ hi = mid + size
    <2>1. (p - 1 - 1) * size \in Nat /\ (p - 1) * size = (p - 1 - 1) * size + size /\ p * size = (p - 1) * size + size
      OBVIOUS
    <2>2. QED
      BY <2>1
  <1>2. /\ \A r \in S : r \in DV!Numbered(back, S, size, p) <=> mid <= DV!Before(back, r, S) /\ DV!Before(back, r, S) < hi
        /\ \A r \in S : r \in DV!Numbered(back, S, size, p - 1) <=> lo <= DV!Before(back, r, S) /\ DV!Before(back, r, S) < mid
        /\ DV!Numbered(back, S, size, p - 1) \subseteq S
        /\ \A r \in S : DV!Before(back, r, S) \in Nat
        /\ F \in S
    <2>1. \A r \in S : DV!Before(back, r, S) \in Nat
      BY Counts
    <2>2. QED
      BY <1>1, <2>1 DEF DV!Numbered
  <1>3. C \in SUBSET RowSet /\ IsFiniteSet(C) /\ C \subseteq S
    BY FS_Subset
  <1>4. \A r \in C : /\ DV!Before(back, F, S) = DV!Before(back, r, S) + 1 + DV!After(back, r, C) /\ DV!After(back, r, C) \in Nat
    <2>1. ASSUME NEW r \in C
          PROVE  DV!Before(back, F, S) = DV!Before(back, r, S) + 1 + DV!After(back, r, C) /\ DV!After(back, r, C) \in Nat
      <3>1. r \in S /\ DV!Precedes(back, r, F)
        OBVIOUS
      <3>2. DV!Before(back, F, S) = DV!Before(back, r, S) + 1 + DV!After(back, r, C)
        BY <1>2, <3>1, Ranks
      <3>3. DV!After(back, r, C) \in Nat
        BY <1>3, Counts
      <3>4. QED
        BY <3>2, <3>3
    <2>2. QED
      BY <2>1
  <1>5. mid <= DV!Before(back, F, S) /\ DV!Before(back, F, S) < hi
    BY <1>2
  <1>6. \A r \in S : r \notin C => DV!Before(back, F, S) <= DV!Before(back, r, S)
    <2>1. ASSUME NEW r \in S, r \notin C PROVE DV!Before(back, F, S) <= DV!Before(back, r, S)
      <3>1. r = F \/ DV!Precedes(back, F, r)
        BY <1>2, <2>1, TotalOrder
      <3>2. DV!Precedes(back, F, r) => DV!Before(back, F, S) < DV!Before(back, r, S)
        BY <1>2, Ranks
      <3>3. DV!Before(back, r, S) \in Nat /\ DV!Before(back, F, S) \in Nat
        BY <1>2
      <3>4. QED
        BY <3>1, <3>2, <3>3
    <2>2. QED
      BY <2>1
  <1>7. ASSUME NEW r \in C PROVE DV!Before(back, F, S) = mid
    <2>1. PICK g \in C : \A s \in C : ~DV!Precedes(back, g, s)
      BY <1>3, EndRows
    <2>2. DV!After(back, g, C) = 0
      <3>1. {s \in C : DV!Precedes(back, g, s)} = {}
        BY <2>1
      <3>2. QED
        BY <3>1, FS_EmptySet, SameSize DEF DV!After
    <2>3. g \notin DV!Numbered(back, S, size, p) /\ g \in S
      BY <1>3
    <2>4. QED
      BY <1>1, <1>2, <1>4, <1>5, <2>2, <2>3
  <1>8. QED
    BY <1>1, <1>2, <1>3, <1>4, <1>5, <1>6, <1>7

-----------------------------------------------------------------------------
(* What views, ranges and requests can be                                    *)

Wins     == [from : Int, to : Int]
Ranges   == [kind : {"now", "last", "abs"}, win : Wins]
Keys     == [range : Ranges, token : Nat, anchor : SUBSET Tags]
Places   == [ms : Nat, tag : Tags]
Bounds   == [first : Places, last : Places, from : Nat, to : Nat]
Cursors  == [side : {"next", "prev"}, ms : Nat, tag : Tags]
Asks     == [page : Nat \ {0}, cursor : {DV!None} \cup Cursors, win : Wins]
GridViews    == [sel : SUBSET Tags, range : Ranges, token : Nat, page : Nat \ {0}, req : Asks,
             bounds : {DV!None} \cup Bounds, back : BOOLEAN, rpt : PerTag]
Pins     == [key : Keys, from : Int, to : Int]

\* The p-th slice of a window.
Plain(v, pin, p) ==
  [names |-> v.sel, back |-> v.back, size |-> DV!PageSize(v.sel, v.rpt), from |-> pin.from, to |-> pin.to,
   page |-> p, bounded |-> FALSE, cursor |-> DV!None]
Slice(v, pin, p) == DV!PageRows(Plain(v, pin, p))

-----------------------------------------------------------------------------
(* What the queries bring                                                    *)

LEMMA MatchFits ==
  ASSUME DV!ConstantsFit, NEW names, NEW from, NEW to
  PROVE  DV!Match(names, from, to) \in SUBSET RowSet /\ DV!Match(names, from, to) \in SUBSET Table /\ IsFiniteSet(DV!Match(names, from, to))
  <1>1. DV!Match(names, from, to) \in SUBSET Table
    BY DEF DV!Match
  <1>2. Table \in SUBSET RowSet
    BY DEF DV!ConstantsFit, RowSet
  <1>3. IsFiniteSet(Table)
    BY SameSize DEF DV!ConstantsFit
  <1>4. QED
    BY <1>1, <1>2, <1>3, FS_Subset

LEMMA PageRowsFit ==
  ASSUME DV!ConstantsFit, NEW q
  PROVE  DV!PageRows(q) \in SUBSET DV!Match(q.names, q.from, q.to)
  BY DEF DV!PageRows, DV!OnSide, DV!Numbered

\* A time and its millisecond.
LEMMA Cut ==
  ASSUME NEW t \in Nat, NEW k \in Nat \ {0}
  PROVE  /\ t \div k \in Nat /\ (t \div k) * k <= t /\ t < (t \div k) * k + k
         /\ t % k = 0 => (t \div k) * k = t
  <1>1. t \div k \in Int /\ t = k * (t \div k) + (t % k) /\ t % k \in 0..k - 1
    OBVIOUS
  <1>2. t \div k \in Nat
    OBVIOUS
  <1>3. k * (t \div k) = (t \div k) * k
    BY <1>2
  <1>4. QED
    BY <1>1, <1>2, <1>3

LEMMA Monotone ==
  ASSUME NEW k \in Nat \ {0}, NEW a \in Int, NEW b \in Int
  PROVE  /\ a <= b => a * k <= b * k
         /\ a < b => a * k + k <= b * k
  OBVIOUS

LEMMA CutOrder ==
  ASSUME NEW k \in Nat \ {0}, NEW t \in Nat, NEW f \in Int
  PROVE  /\ f * k <= t => f <= t \div k
         /\ t <= f * k => t \div k <= f
         /\ \A u \in Nat : t <= u => t \div k <= u \div k
  <1>1. PICK m \in Nat : m = t \div k /\ m * k <= t /\ t < m * k + k
    BY Cut
  <1>2. f * k <= t => f <= m
    <2>1. SUFFICES ASSUME f * k <= t, m < f PROVE FALSE
      BY <1>1
    <2>2. m * k + k <= f * k
      BY <2>1, Monotone
    <2>3. f * k \in Int /\ m * k \in Int
      OBVIOUS
    <2>4. QED
      BY <1>1, <2>1, <2>2, <2>3
  <1>3. t <= f * k => m <= f
    <2>1. SUFFICES ASSUME t <= f * k, f < m PROVE FALSE
      BY <1>1
    <2>2. f * k + k <= m * k
      BY <2>1, Monotone
    <2>3. f * k \in Int /\ m * k \in Int
      OBVIOUS
    <2>4. QED
      BY <1>1, <2>1, <2>2, <2>3
  <1>4. ASSUME NEW u \in Nat, t <= u PROVE m <= u \div k
    <2>1. PICK n \in Nat : n = u \div k /\ n * k <= u /\ u < n * k + k
      BY Cut
    <2>2. SUFFICES ASSUME n < m PROVE FALSE
      BY <2>1
    <2>3. n * k + k <= m * k
      BY <2>2, Monotone
    <2>4. n * k \in Int /\ m * k \in Int
      OBVIOUS
    <2>5. QED
      BY <1>1, <1>4, <2>1, <2>3, <2>4
  <1>5. QED
    BY <1>1, <1>2, <1>3, <1>4

\* The rows of some Tags have a latest one, whose millisecond Latest is.
LEMMA LatestFits ==
  ASSUME DV!ConstantsFit, NEW names
  PROVE  \/ (\A r \in Table : r.tag \notin names) /\ DV!Latest(names) = DV!NoTime
         \/ \E r \in Table : /\ r.tag \in names /\ DV!Latest(names) = r.t \div Tick
                             /\ \A s \in Table : s.tag \in names => s.t <= r.t
  <1>1. PICK S, T : S = {x \in Table : x.tag \in names} /\ T = {r.t : r \in S}
    OBVIOUS
  <1>2. DV!Latest(names) = IF T = {} THEN DV!NoTime ELSE (CHOOSE t \in T : \A u \in T : u <= t) \div Tick
    BY <1>1 DEF DV!Latest
  <1>3. CASE S = {}
    BY <1>1, <1>2, <1>3
  <1>4. CASE S # {}
    <2>1. Table \in SUBSET RowSet /\ IsFiniteSet(Table)
      BY SameSize DEF DV!ConstantsFit, RowSet
    <2>2. S \in SUBSET RowSet /\ IsFiniteSet(S)
      BY <1>1, <2>1, FS_Subset
    <2>3. PICK f \in S : \A s \in S : ~DV!Precedes(TRUE, s, f)
      BY <1>4, <2>2, EndRows
    <2>4. \A s \in S : s.t \in Nat /\ s.t <= f.t
      BY <2>2, <2>3 DEF DV!Precedes, RowSet
    <2>5. T \in SUBSET Nat /\ f.t \in T /\ \A u \in T : u <= f.t
      BY <1>1, <2>4
    <2>6. (CHOOSE t \in T : \A u \in T : u <= t) = f.t
      <3>1. PICK m : m = CHOOSE t \in T : \A u \in T : u <= t
        OBVIOUS
      <3>2. m \in T /\ \A u \in T : u <= m
        BY <2>5, <3>1
      <3>3. m \in Nat /\ f.t \in Nat /\ m <= f.t /\ f.t <= m
        BY <2>5, <3>2
      <3>4. m = f.t
        BY <3>3
      <3>5. QED
        BY <3>1, <3>4
    <2>7. T # {}
      BY <2>5
    <2>8. QED
      BY <1>1, <1>2, <2>4, <2>6, <2>7
  <1>5. QED
    BY <1>3, <1>4

\* What a page's bounds are: the places of its first and last row, and the
\* milliseconds between which its rows lie.
LEMMA BoundsFit ==
  ASSUME DV!ConstantsFit, NEW back \in BOOLEAN, NEW names, NEW from \in Int, NEW to \in Int,
         NEW rows \in SUBSET DV!Match(names, from, to)
  PROVE  /\ DV!PageBounds(back, rows) \in {DV!None} \cup Bounds
         /\ rows = {} => DV!PageBounds(back, rows) = DV!None
         /\ DV!PageBounds(back, rows) # DV!None =>
              /\ from <= DV!PageBounds(back, rows).from /\ DV!PageBounds(back, rows).to <= to
              /\ \E r \in rows : /\ DV!PageBounds(back, rows).first = [ms |-> r.t \div Tick, tag |-> r.tag]
                                 /\ \A s \in rows : ~DV!Precedes(back, s, r)
              /\ \E r \in rows : /\ DV!PageBounds(back, rows).last = [ms |-> r.t \div Tick, tag |-> r.tag]
                                 /\ \A s \in rows : ~DV!Precedes(back, r, s)
  <1>1. CASE rows = {}
    BY <1>1 DEF DV!PageBounds
  <1>2. CASE rows # {}
    <2>1. /\ DV!Match(names, from, to) \in SUBSET RowSet /\ DV!Match(names, from, to) \in SUBSET Table
          /\ IsFiniteSet(DV!Match(names, from, to)) /\ Tick \in Nat \ {0} /\ Table \subseteq [t : Nat, tag : Tags]
      BY MatchFits DEF DV!ConstantsFit
    <2>2. rows \in SUBSET RowSet /\ IsFiniteSet(rows) /\ \A r \in rows : r.t \in Nat /\ r.tag \in Tags
      BY <2>1, FS_Subset
    <2>3. PICK f, l : /\ f = CHOOSE r \in rows : \A s \in rows : ~DV!Precedes(back, s, r)
                      /\ l = CHOOSE r \in rows : \A s \in rows : ~DV!Precedes(back, r, s)
      OBVIOUS
    <2>4. /\ f \in rows /\ \A s \in rows : ~DV!Precedes(back, s, f)
          /\ l \in rows /\ \A s \in rows : ~DV!Precedes(back, l, s)
      BY <1>2, <2>2, <2>3, EndRows
    <2>5. PICK all : all = {r.t \div Tick : r \in rows}
      OBVIOUS
    <2>6. \A r \in rows : r.t \div Tick \in Nat
      BY <2>1, <2>2, Cut
    <2>7. all \in SUBSET Nat /\ all # {}
      BY <1>2, <2>5, <2>6
    <2>8. PICK low : low = DV!Lowest(all)
      OBVIOUS
    <2>9. low \in all /\ \A y \in all : low <= y
      BY <2>7, <2>8, FirstPlace DEF DV!Lowest
    <2>10. PICK high : high = CHOOSE x \in all : \A y \in all : y <= x
      OBVIOUS
    <2>11. high \in all /\ \A y \in all : y <= high
      <3>1. PICK m \in rows : \A s \in rows : ~DV!Precedes(TRUE, s, m)
        BY <1>2, <2>2, EndRows
      <3>2. \A s \in rows : s.t <= m.t
        BY <2>2, <3>1 DEF DV!Precedes
      <3>3. \A s \in rows : s.t \div Tick <= m.t \div Tick
        BY <2>1, <2>2, <3>2, CutOrder
      <3>4. m.t \div Tick \in all /\ \A y \in all : y <= m.t \div Tick
        BY <2>5, <3>3
      <3>5. QED
        BY <2>10, <3>4
    <2>12. \A y \in all : from <= y /\ y <= to
      <3>1. ASSUME NEW r \in rows PROVE from <= r.t \div Tick /\ r.t \div Tick <= to
        <4>1. from * Tick <= r.t /\ r.t <= to * Tick
          BY DEF DV!Match
        <4>2. QED
          BY <2>1, <2>2, <4>1, CutOrder
      <3>2. QED
        BY <2>5, <3>1
    <2>13. DV!PageBounds(back, rows) = [first |-> [ms |-> f.t \div Tick, tag |-> f.tag],
                                     last |-> [ms |-> l.t \div Tick, tag |-> l.tag], from |-> low, to |-> high]
      BY <1>2, <2>3, <2>5, <2>8, <2>10 DEF DV!PageBounds
    <2>14. DV!PageBounds(back, rows) \in Bounds
      BY <2>2, <2>4, <2>6, <2>7, <2>9, <2>11, <2>13 DEF Bounds, Places
    <2>15. QED
      <3>1. from <= low /\ high <= to
        BY <2>9, <2>11, <2>12
      <3>2. PICK b : b = DV!PageBounds(back, rows)
        OBVIOUS
      <3>3. /\ b.from = low /\ b.to = high /\ b.first = [ms |-> f.t \div Tick, tag |-> f.tag]
            /\ b.last = [ms |-> l.t \div Tick, tag |-> l.tag]
        BY <2>13, <3>2
      <3>4. QED
        BY <1>2, <2>4, <2>14, <3>1, <3>2, <3>3
  <1>3. QED
    BY <1>1, <1>2

LEMMA SizeFits ==
  ASSUME DV!ConstantsFit, NEW v \in GridViews
  PROVE  DV!PageSize(v.sel, v.rpt) \in Nat \ {0}
  <1>1. IsFiniteSet(v.sel) /\ v.rpt \in Nat \ {0}
    <2>1. v.sel \in SUBSET Tags /\ v.rpt \in PerTag /\ IsFiniteSet(Tags) /\ PerTag \subseteq Nat \ {0}
      BY SameSize DEF GridViews, DV!ConstantsFit
    <2>2. QED
      BY <2>1, FS_Subset
  <1>2. PICK k \in Nat \ {0} : k = IF v.sel = {} THEN 1 ELSE Cardinality(v.sel)
    <2>1. Cardinality(v.sel) \in Nat
      BY <1>1, FS_CardinalityType
    <2>2. v.sel # {} => Cardinality(v.sel) # 0
      BY <1>1, FS_EmptySet
    <2>3. (IF v.sel = {} THEN 1 ELSE Cardinality(v.sel)) \in Nat \ {0}
      BY <2>1, <2>2
    <2>4. QED
      BY <2>3
  <1>3. k * v.rpt \in Nat \ {0}
    BY <1>1
  <1>4. QED
    BY <1>2, <1>3, SameSize DEF DV!PageSize

\* A page turned by cursor is the page with the next number.
LEMMA TurnedPage ==
  ASSUME DV!ConstantsFit, DV!WholeMilliseconds, NEW v \in GridViews, NEW pin \in Pins, NEW p \in Nat \ {0}, NEW n \in Nat \ {0},
         NEW bounds, bounds = DV!PageBounds(v.back, Slice(v, pin, p)),
         NEW c, c = DV!MoveRequest(p, n, bounds).cursor, c # DV!None,
         NEW q, q.names = v.sel, q.back = v.back, q.size = DV!PageSize(v.sel, v.rpt), q.from = pin.from, q.to = pin.to,
         ~q.bounded, q.cursor = c
  PROVE  DV!PageRows(q) = Slice(v, pin, n)
  <1>1. PICK S, size, back : /\ S = DV!Match(v.sel, pin.from, pin.to) /\ size = DV!PageSize(v.sel, v.rpt) /\ back = v.back
    OBVIOUS
  <1>2. S \in SUBSET RowSet /\ S \in SUBSET Table /\ IsFiniteSet(S) /\ back \in BOOLEAN /\ Tick \in Nat \ {0} /\ Table \subseteq [t : Nat, tag : Tags]
    BY <1>1, MatchFits DEF GridViews, DV!ConstantsFit
  <1>3. size \in Nat \ {0}
    BY <1>1, SizeFits
  <1>4. \A m : Slice(v, pin, m) = DV!Numbered(back, S, size, m)
    <2>1. ASSUME NEW m PROVE Slice(v, pin, m) = DV!Numbered(back, S, size, m)
      <3>1. PICK x : x = Plain(v, pin, m)
        OBVIOUS
      <3>2. /\ x.names = v.sel /\ x.back = back /\ x.size = size /\ x.from = pin.from /\ x.to = pin.to
            /\ x.page = m /\ x.bounded = FALSE /\ x.cursor = DV!None
        BY <1>1, <3>1 DEF Plain
      <3>3. DV!Match(x.names, x.from, x.to) = S /\ ~x.bounded
        BY <1>1, <3>2
      <3>4. DV!PageRows(x) = DV!Numbered(x.back, S, x.size, x.page)
        BY <3>2, <3>3 DEF DV!PageRows
      <3>5. QED
        BY <3>1, <3>2, <3>4 DEF Slice
    <2>2. QED
      BY <2>1
  <1>5. PICK rows : rows = DV!Numbered(back, S, size, p) /\ rows = Slice(v, pin, p)
    BY <1>4
  <1>6. rows \in SUBSET DV!Match(v.sel, pin.from, pin.to) /\ pin.from \in Int /\ pin.to \in Int
    BY <1>1, <1>5 DEF DV!Numbered, Pins
  <1>7. bounds # DV!None /\ (n = p + 1 \/ n = p - 1)
    BY DEF DV!MoveRequest, DV!PlainPage
  <1>8. /\ \E r \in rows : /\ bounds.first = [ms |-> r.t \div Tick, tag |-> r.tag]
                           /\ \A s \in rows : ~DV!Precedes(back, s, r)
        /\ \E r \in rows : /\ bounds.last = [ms |-> r.t \div Tick, tag |-> r.tag]
                           /\ \A s \in rows : ~DV!Precedes(back, r, s)
    <2>1. bounds = DV!PageBounds(back, rows)
      BY <1>1, <1>5
    <2>2. DV!PageBounds(back, rows) # DV!None
      BY <1>7, <2>1
    <2>3. /\ \E r \in rows : /\ DV!PageBounds(back, rows).first = [ms |-> r.t \div Tick, tag |-> r.tag]
                             /\ \A s \in rows : ~DV!Precedes(back, s, r)
          /\ \E r \in rows : /\ DV!PageBounds(back, rows).last = [ms |-> r.t \div Tick, tag |-> r.tag]
                             /\ \A s \in rows : ~DV!Precedes(back, r, s)
      BY <1>2, <1>6, <2>2, BoundsFit
    <2>4. QED
      BY <2>1, <2>3
  <1>9. PICK f \in rows, l \in rows : /\ bounds.first = [ms |-> f.t \div Tick, tag |-> f.tag]
                                      /\ \A s \in rows : ~DV!Precedes(back, s, f)
                                      /\ bounds.last = [ms |-> l.t \div Tick, tag |-> l.tag]
                                      /\ \A s \in rows : ~DV!Precedes(back, l, s)
    BY <1>8
  <1>10. \A r \in rows : r = [t |-> (r.t \div Tick) * Tick, tag |-> r.tag]
    <2>1. ASSUME NEW r \in rows PROVE r = [t |-> (r.t \div Tick) * Tick, tag |-> r.tag]
      <3>1. r \in Table /\ r.t \in Nat /\ r = [t |-> r.t, tag |-> r.tag]
        BY <1>1, <1>2, <1>6
      <3>2. r.t % Tick = 0
        BY <3>1 DEF DV!WholeMilliseconds
      <3>3. (r.t \div Tick) * Tick = r.t
        BY <1>2, <3>1, <3>2, Cut
      <3>4. QED
        BY <3>1, <3>3
    <2>2. QED
      BY <2>1
  <1>12. q.names = v.sel /\ q.back = back /\ q.size = size /\ q.from = pin.from /\ q.to = pin.to /\ ~q.bounded /\ q.cursor = c
    BY <1>1
  <1>13. CASE n = p + 1
    <2>1. c = [side |-> "next", ms |-> l.t \div Tick, tag |-> l.tag]
      BY <1>7, <1>9, <1>13 DEF DV!MoveRequest, DV!PlainPage
    <2>2. [t |-> q.cursor.ms * Tick, tag |-> q.cursor.tag] = l
      BY <1>10, <1>12, <2>1
    <2>3. PICK C : C = {r \in S : DV!Precedes(back, l, r)}
      OBVIOUS
    <2>4. DV!OnSide(q, S) = C
      BY <1>12, <2>1, <2>2, <2>3 DEF DV!OnSide
    <2>5. DV!PageRows(q) = {r \in C : DV!Before(back, r, C) < size}
      BY <1>1, <1>12, <2>1, <2>4 DEF DV!PageRows
    <2>6. {r \in C : DV!Before(back, r, C) < size} = DV!Numbered(back, S, size, p + 1)
      <3>1. l \in DV!Numbered(back, S, size, p) /\ \A s \in DV!Numbered(back, S, size, p) : ~DV!Precedes(back, l, s)
        BY <1>5, <1>9
      <3>2. QED
        BY <1>2, <1>3, <2>3, <3>1, NextPage
    <2>7. QED
      BY <1>4, <1>13, <2>5, <2>6
  <1>14. CASE n = p - 1
    <2>1. c = [side |-> "prev", ms |-> f.t \div Tick, tag |-> f.tag]
      BY <1>7, <1>9, <1>14 DEF DV!MoveRequest, DV!PlainPage
    <2>2. [t |-> q.cursor.ms * Tick, tag |-> q.cursor.tag] = f
      BY <1>10, <1>12, <2>1
    <2>3. PICK C : C = {r \in S : DV!Precedes(back, r, f)}
      OBVIOUS
    <2>4. DV!OnSide(q, S) = C
      BY <1>12, <2>1, <2>2, <2>3 DEF DV!OnSide
    <2>5. DV!PageRows(q) = {r \in C : DV!After(back, r, C) < size}
      BY <1>1, <1>12, <2>1, <2>4 DEF DV!PageRows
    <2>6. {r \in C : DV!After(back, r, C) < size} = DV!Numbered(back, S, size, p - 1)
      <3>1. p \in Nat \ {0, 1}
        BY <1>14
      <3>2. f \in DV!Numbered(back, S, size, p) /\ \A s \in DV!Numbered(back, S, size, p) : ~DV!Precedes(back, s, f)
        BY <1>5, <1>9
      <3>3. QED
        BY <1>2, <1>3, <2>3, <3>1, <3>2, PreviousPage
    <2>7. QED
      BY <1>4, <1>14, <2>5, <2>6
  <1>15. QED
    BY <1>7, <1>13, <1>14

-----------------------------------------------------------------------------
(* The inductive invariant.  A request of the page that counts was made from *)
(* the inputs of the moment and the pinned window (Fetching, Asking), and so *)
(* were the rows that are shown (Showing); what is derived from the rows,    *)
(* the bounds, is derived from those (ShownBounds) and in the window.        *)

GridTyped ==
  /\ view \in GridViews /\ view.req.page = view.page /\ pinned \in Pins /\ clock \in Nat
  /\ \A c \in calls : c.kind = "end" => /\ c.page \in Nat \ {0} /\ c.bounds \in {DV!None} \cup Bounds
                                        /\ c.q.size \in Nat \ {0}

\* A request for rows and the rows shown are those of the present inputs.
Current(q)  == /\ q = DV!Query(view, pinned) /\ pinned.key = DV!PinKey(view)
               /\ pinned.from # DV!NoTime /\ view.sel # {}
Fetching    == \A c \in calls : c.kind = "rows" => Current(c.q)
Showing     == DV!Settled => Current(result.q)
ShownBounds == ~fetching /\ view.bounds # DV!None =>
                 result.st = "rows" /\ view.bounds = DV!PageBounds(view.back, DV!PageRows(result.q))

\* A page that is asked for by its bounds lies in the window that is pinned.
InWindow(v, pin) ==
  /\ v.range.kind # "last" => pin.key = DV!PinKey(v)
  /\ DV!Bounded(v.req) => v.range.kind # "last" /\ pin.from <= v.req.win.from /\ v.req.win.to <= pin.to
  /\ v.bounds # DV!None /\ v.range.kind # "last" => pin.from <= v.bounds.from /\ v.bounds.to <= pin.to
Window == InWindow(view, pinned) /\ (view.bounds # DV!None => view.sel # {})

\* A window that is being resolved is the one of the present inputs, and one
\* that was resolved against the data is still what the data say.
AskedFor(c, v) == c.key = DV!PinKey(v) /\ c.range = v.range /\ c.names = v.sel /\ v.range.kind = "last"
GridAsking      == \A c \in calls : c.kind = "pin" => AskedFor(c, view)
OfData(pin) == pin.from # DV!NoTime /\ pin.key.range.kind = "last" =>
                 LET base == DV!Latest(pin.key.anchor)
                 IN  base # DV!NoTime /\ pin.from = base - Span /\ pin.to = base + 1

GridInv == DV!ConstantsFit /\ GridTyped /\ Fetching /\ Showing /\ ShownBounds /\ Window /\ GridAsking /\ OfData(pinned)

\* A page that is asked for by a cursor is the one with its number, and so will
\* the one be that is asked for when the total is known.
Steady      == pinned.key = DV!PinKey(view) /\ (pinned.from = DV!NoTime => \A c \in calls : c.kind # "pin")
Turned      == view.req.cursor # DV!None =>
                 Steady /\ (pinned.from # DV!NoTime => DV!PageRows(DV!Query(view, pinned)) = Slice(view, pinned, view.page))
Placed(c)   == c.kind = "end" /\ c.exact /\ c.bounds # DV!None =>
                 Steady /\ (pinned.from # DV!NoTime => c.bounds = DV!PageBounds(view.back, Slice(view, pinned, c.page)))
ExactInv == /\ DV!WholeMilliseconds
            /\ exact => ~DV!Bounded(view.req) /\ Turned
            /\ \A c \in calls : Placed(c)

-----------------------------------------------------------------------------
(* What the handlers have in common                                          *)

LEMMA LowestIs ==
  ASSUME NEW S \in SUBSET Nat, S # {}
  PROVE  DV!Lowest(S) \in S
  BY FirstPlace DEF DV!Lowest

LEMMA NormalFits ==
  ASSUME DV!ConstantsFit, NEW names \in SUBSET Tags
  PROVE  DV!Normalized(names) \in SUBSET Tags /\ DV!Normalized(names) # {} /\ (names # {} => DV!Normalized(names) = names)
  <1>1. DV!Lowest(Tags) \in Tags
    BY LowestIs DEF DV!ConstantsFit
  <1>2. QED
    BY <1>1 DEF DV!Normalized

LEMMA ResolveFits ==
  ASSUME DV!ConstantsFit, NEW range \in Ranges, NEW names, NEW now \in Nat, NEW w, w = DV!Resolve(range, names, now)
  PROVE  /\ w \in Wins
         /\ w.from # DV!NoTime /\ range.kind = "last" =>
              DV!Latest(names) # DV!NoTime /\ w.from = DV!Latest(names) - Span /\ w.to = DV!Latest(names) + 1
  <1>1. range.kind \in {"now", "last", "abs"} /\ range.win.from \in Int /\ range.win.to \in Int /\ Span \in Nat
    BY DEF Ranges, Wins, DV!ConstantsFit
  <1>2. DV!Latest(names) \in Int
    <2>1. \A r \in Table : r.t \in Nat /\ Tick \in Nat \ {0}
      BY DEF DV!ConstantsFit
    <2>2. \A r \in Table : r.t \div Tick \in Nat
      BY <2>1, Cut
    <2>3. QED
      BY <2>2, LatestFits DEF DV!NoTime
  <1>3. DV!NoWin \in Wins /\ DV!NoWin.from = DV!NoTime
    BY DEF DV!NoWin, DV!Win, DV!NoTime, Wins
  <1>4. CASE range.kind = "abs"
    BY <1>1, <1>4 DEF DV!Resolve, DV!Win, Wins
  <1>5. CASE range.kind = "now"
    BY <1>1, <1>3, <1>5 DEF DV!Resolve, DV!Win, Wins
  <1>6. CASE range.kind = "last"
    BY <1>1, <1>2, <1>3, <1>6 DEF DV!Resolve, DV!Win, Wins
  <1>7. QED
    BY <1>1, <1>4, <1>5, <1>6

\* PinKey and Query look at the inputs only.
LEMMA SameInputs ==
  ASSUME NEW v, NEW w, w.sel = v.sel, w.range = v.range, w.token = v.token
  PROVE  DV!PinKey(w) = DV!PinKey(v)
  BY DEF DV!PinKey

LEMMA SameQuery ==
  ASSUME NEW v, NEW w, w.sel = v.sel, w.back = v.back, w.rpt = v.rpt
  PROVE  /\ \A pin : w.req = v.req => DV!Query(w, pin) = DV!Query(v, pin)
         /\ \A pin, p : Slice(w, pin, p) = Slice(v, pin, p)
  BY DEF DV!Query, Slice, Plain

\* fetchRows leaves a request of the present inputs, or none.
LEMMA FetchFits ==
  ASSUME DV!ConstantsFit, NEW v \in GridViews, v.req.page = v.page, NEW pin \in Pins, InWindow(v, pin), OfData(pin),
         NEW others,
         \A c \in others : /\ c.kind # "rows" /\ (c.kind = "pin" => AskedFor(c, v))
                           /\ c.kind = "end" => /\ c.page \in Nat \ {0} /\ c.bounds \in {DV!None} \cup Bounds
                                                /\ c.q.size \in Nat \ {0},
         DV!FetchRows(v, pin, others), pinned' = pin, clock' \in Nat
  PROVE  /\ GridInv'
         /\ view' = v \/ view' = [v EXCEPT !.bounds = DV!None]
         /\ view'.req = v.req /\ view'.page = v.page /\ view'.back = v.back /\ view'.rpt = v.rpt /\ DV!PinKey(view') = DV!PinKey(v)
         /\ view'.sel = v.sel
         /\ \A c \in calls' : c.kind # "rows" => c \in others
  <1>1. PICK wait, blank : /\ wait = (v.sel # {} /\ pin.key # DV!PinKey(v))
                           /\ blank = (v.sel = {} \/ (~wait /\ pin.from = DV!NoTime))
                           /\ wait \in BOOLEAN /\ blank \in BOOLEAN
    OBVIOUS
  <1>2. /\ view' = IF blank THEN [v EXCEPT !.bounds = DV!None] ELSE v
        /\ result' = IF blank THEN [st |-> "empty", q |-> DV!None] ELSE result
        /\ fetching' = ~blank
        /\ calls' = others \cup (IF wait \/ blank THEN {} ELSE {[kind |-> "rows", q |-> DV!Query(v, pin)]})
    BY <1>1 DEF DV!FetchRows
  <1>3. view' = v \/ view' = [v EXCEPT !.bounds = DV!None]
    BY <1>2
  <1>4. /\ view' \in GridViews /\ view'.req = v.req /\ view'.page = v.page /\ view'.back = v.back /\ view'.rpt = v.rpt
        /\ view'.sel = v.sel /\ view'.range = v.range /\ view'.token = v.token
        /\ view'.bounds = v.bounds \/ view'.bounds = DV!None
    BY <1>3 DEF GridViews
  <1>5. DV!PinKey(view') = DV!PinKey(v) /\ DV!Query(view', pin) = DV!Query(v, pin)
    BY <1>4, SameInputs, SameQuery
  <1>6. \A c \in calls' : c \in others \/ (~wait /\ ~blank /\ c.kind = "rows" /\ c.q = DV!Query(v, pin))
    BY <1>1, <1>2
  <1>7. GridTyped'
    BY <1>4, <1>6 DEF GridTyped
  <1>8. Fetching'
    BY <1>1, <1>4, <1>5, <1>6 DEF Fetching, Current
  <1>9. Showing' /\ ShownBounds'
    <2>1. CASE blank
      BY <1>2, <2>1 DEF Showing, ShownBounds, DV!Settled
    <2>2. CASE ~blank
      BY <1>2, <2>2 DEF Showing, ShownBounds, DV!Settled
    <2>3. QED
      BY <1>1, <2>1, <2>2
  <1>10. Window'
    <2>1. InWindow(view', pin)
      BY <1>4, <1>5 DEF InWindow
    <2>2. blank => view'.bounds = DV!None
      BY <1>2 DEF GridViews
    <2>3. view'.bounds # DV!None => view'.sel # {}
      BY <1>1, <1>4, <2>2
    <2>4. QED
      BY <2>1, <2>3 DEF Window
  <1>11. GridAsking'
    <2>1. \A c \in calls' : c.kind = "pin" => AskedFor(c, v)
      BY <1>6
    <2>2. QED
      BY <1>4, <1>5, <2>1 DEF GridAsking, AskedFor
  <1>12. OfData(pinned)' /\ DV!ConstantsFit'
    BY DEF OfData, DV!ConstantsFit
  <1>13. \A c \in calls' : c.kind # "rows" => c \in others
    BY <1>6
  <1>14. QED
    BY <1>3, <1>4, <1>5, <1>7, <1>8, <1>9, <1>10, <1>11, <1>12, <1>13 DEF GridInv

\* What a handler may hand to its effects.
Proper(v, repin) ==
  /\ v \in GridViews /\ v.req.page = v.page /\ repin \in BOOLEAN
  /\ repin => ~DV!Bounded(v.req) /\ v.bounds = DV!None
  /\ ~repin /\ DV!PinKey(v) = DV!PinKey(view) =>
       /\ DV!Bounded(v.req) => v.range.kind # "last" /\ pinned.from <= v.req.win.from /\ v.req.win.to <= pinned.to
       /\ v.bounds # DV!None /\ v.range.kind # "last" => pinned.from <= v.bounds.from /\ v.bounds.to <= pinned.to

LEMMA PlainFits ==
  ASSUME NEW p \in Nat \ {0}
  PROVE  DV!PlainPage(p) \in Asks /\ DV!PlainPage(p).page = p /\ ~DV!Bounded(DV!PlainPage(p)) /\ DV!PlainPage(p).cursor = DV!None
  BY DEF DV!PlainPage, Asks, DV!Bounded, DV!NoWin, DV!Win, Wins, DV!NoTime

LEMMA AppliedFits ==
  ASSUME NEW v \in GridViews, v.req.page = v.page
  PROVE  /\ DV!Applied(v) \in GridViews /\ DV!Applied(v).req.page = DV!Applied(v).page /\ DV!PinKey(DV!Applied(v)) = DV!PinKey(v)
         /\ DV!Applied(v).sel = v.sel /\ DV!Applied(v).range = v.range /\ DV!Applied(v).back = v.back /\ DV!Applied(v).rpt = v.rpt
         /\ DV!PinKey(v) = DV!PinKey(view) => DV!Applied(v) = v
         /\ DV!PinKey(v) # DV!PinKey(view) => DV!Applied(v).req = DV!PlainPage(1) /\ DV!Applied(v).bounds = DV!None
  <1>1. PICK u : u = [v EXCEPT !.page = 1, !.req = DV!PlainPage(1), !.bounds = DV!None]
    OBVIOUS
  <1>2. DV!PlainPage(1) \in Asks /\ DV!PlainPage(1).page = 1
    BY PlainFits
  <1>3. /\ u \in GridViews /\ u.req = DV!PlainPage(1) /\ u.page = 1 /\ u.bounds = DV!None
        /\ u.sel = v.sel /\ u.range = v.range /\ u.token = v.token /\ u.back = v.back /\ u.rpt = v.rpt
    <2>1. u = [sel |-> v.sel, range |-> v.range, token |-> v.token, page |-> 1, req |-> DV!PlainPage(1),
               bounds |-> DV!None, back |-> v.back, rpt |-> v.rpt]
      BY <1>1 DEF GridViews
    <2>2. QED
      BY <1>2, <2>1 DEF GridViews
  <1>4. DV!PinKey(u) = DV!PinKey(v)
    BY <1>3, SameInputs
  <1>5. DV!Applied(v) = IF DV!PinKey(v) = DV!PinKey(view) THEN v ELSE u
    BY <1>1 DEF DV!Applied
  <1>6. QED
    BY <1>2, <1>3, <1>4, <1>5

LEMMA RenderFits ==
  ASSUME GridInv, NEW v, NEW repin, Proper(v, repin), NEW others,
         \A c \in others : c.kind \notin {"rows"} /\ (c \in calls \/ c.kind = "split"),
         DV!Render(v, repin, others), clock' \in Nat
  PROVE  /\ GridInv'
         /\ view'.req = DV!Applied(v).req /\ view'.page = DV!Applied(v).page /\ view'.back = v.back /\ view'.rpt = v.rpt
         /\ view'.sel = v.sel /\ DV!PinKey(view') = DV!PinKey(v)
         /\ ~repin /\ DV!PinKey(v) = DV!PinKey(view) =>
              pinned' = pinned /\ \A c \in calls' : c.kind \in {"pin", "end"} => c \in others
         /\ \A c \in calls' : c.kind \in {"end", "split"} => c \in others
  <1>1. PICK key, ask, now : /\ key = DV!PinKey(v)
                             /\ ask = ((repin \/ key # DV!PinKey(view)) /\ v.range.kind = "last")
                             /\ now = ((repin \/ key # DV!PinKey(view)) /\ ~ask)
                             /\ ask \in BOOLEAN /\ now \in BOOLEAN
    OBVIOUS
  <1>2. PICK w, new : w = DV!Resolve(v.range, v.sel, clock) /\ new = [key |-> key, from |-> w.from, to |-> w.to]
    OBVIOUS
  <1>3. PICK pin : pin = IF now THEN new ELSE pinned
    OBVIOUS
  <1>4. PICK old : old = IF now \/ ask THEN {c \in others : c.kind # "pin"} ELSE others
    OBVIOUS
  <1>5. PICK query : query = [kind |-> "pin", key |-> key, range |-> v.range, names |-> v.sel]
    OBVIOUS
  <1>6. PICK rest : rest = IF ask THEN old \cup {query} ELSE old
    OBVIOUS
  <1>7. pinned' = pin /\ DV!FetchRows(DV!Applied(v), pin, rest)
    BY <1>1, <1>2, <1>3, <1>4, <1>5, <1>6 DEF DV!Render
  <1>8. DV!ConstantsFit /\ GridTyped /\ v \in GridViews /\ v.req.page = v.page /\ repin \in BOOLEAN
    BY DEF GridInv, Proper
  <1>9. PICK u : u = DV!Applied(v)
    OBVIOUS
  <1>10. /\ u \in GridViews /\ u.req.page = u.page /\ DV!PinKey(u) = key
         /\ u.sel = v.sel /\ u.range = v.range /\ u.back = v.back /\ u.rpt = v.rpt
         /\ key = DV!PinKey(view) => u = v
         /\ key # DV!PinKey(view) => u.req = DV!PlainPage(1) /\ u.bounds = DV!None
    BY <1>1, <1>8, <1>9, AppliedFits
  <1>11. key.range = v.range /\ key \in Keys /\ (v.range.kind = "last" => key.anchor = v.sel)
    BY <1>1, <1>8 DEF DV!PinKey, GridViews, Keys
  <1>12. w \in Wins /\ v.range \in Ranges
    BY <1>2, <1>8, ResolveFits DEF GridViews, GridTyped
  <1>13. pin \in Pins
    BY <1>2, <1>3, <1>8, <1>11, <1>12 DEF GridTyped, Pins, Wins
  <1>14. OfData(pin)
    <2>1. CASE now
      BY <1>1, <1>2, <1>3, <1>11, <2>1 DEF OfData
    <2>2. CASE ~now
      BY <1>3, <2>2 DEF GridInv
    <2>3. QED
      BY <1>1, <2>1, <2>2
  <1>15. InWindow(u, pin)
    <2>1. u.range.kind # "last" => pin.key = DV!PinKey(u)
      <3>1. CASE now
        BY <1>2, <1>3, <1>10, <3>1
      <3>2. CASE ~now
        <4>1. SUFFICES ASSUME v.range.kind # "last" PROVE pinned.key = DV!PinKey(view) /\ key = DV!PinKey(view)
          BY <1>3, <1>10, <3>2
        <4>2. key = DV!PinKey(view)
          BY <1>1, <3>2, <4>1
        <4>3. DV!PinKey(view).range = view.range
          BY DEF DV!PinKey
        <4>4. view.range = v.range
          BY <1>11, <4>2, <4>3
        <4>5. QED
          BY <4>1, <4>2, <4>4 DEF GridInv, Window, InWindow
      <3>3. QED
        BY <1>1, <3>1, <3>2
    <2>2. CASE key # DV!PinKey(view)
      <3>1. ~DV!Bounded(u.req) /\ u.bounds = DV!None
        BY <1>10, <2>2, PlainFits
      <3>2. QED
        BY <2>1, <3>1 DEF InWindow
    <2>3. CASE key = DV!PinKey(view) /\ repin
      <3>1. ~DV!Bounded(u.req) /\ u.bounds = DV!None
        BY <1>10, <2>3 DEF Proper
      <3>2. QED
        BY <2>1, <3>1 DEF InWindow
    <2>4. CASE key = DV!PinKey(view) /\ ~repin
      <3>1. pin = pinned
        BY <1>1, <1>3, <2>4
      <3>2. /\ DV!Bounded(u.req) => u.range.kind # "last" /\ pin.from <= u.req.win.from /\ u.req.win.to <= pin.to
            /\ u.bounds # DV!None /\ u.range.kind # "last" => pin.from <= u.bounds.from /\ u.bounds.to <= pin.to
        BY <1>1, <1>10, <2>4, <3>1 DEF Proper
      <3>3. QED
        BY <2>1, <3>2 DEF InWindow
    <2>5. QED
      BY <1>8, <2>2, <2>3, <2>4
  <1>16. \A c \in rest : /\ c.kind # "rows" /\ (c.kind = "pin" => AskedFor(c, u))
                         /\ c.kind = "end" => /\ c.page \in Nat \ {0} /\ c.bounds \in {DV!None} \cup Bounds
                                              /\ c.q.size \in Nat \ {0}
    <2>1. query.kind = "pin" /\ (ask => AskedFor(query, u))
      BY <1>1, <1>5, <1>10 DEF AskedFor
    <2>2. ASSUME NEW c \in others, ~now, ~ask, c.kind = "pin" PROVE AskedFor(c, u)
      <3>1. key = DV!PinKey(view) /\ c \in calls
        BY <1>1, <2>2
      <3>2. AskedFor(c, view)
        BY <2>2, <3>1 DEF GridInv, GridAsking
      <3>3. DV!PinKey(view).range = view.range /\ (view.range.kind = "last" => DV!PinKey(view).anchor = view.sel)
        BY DEF DV!PinKey
      <3>4. QED
        BY <1>10, <1>11, <3>1, <3>2, <3>3 DEF AskedFor
    <2>3. \A c \in others : c.kind = "end" => /\ c.page \in Nat \ {0} /\ c.bounds \in {DV!None} \cup Bounds
                                              /\ c.q.size \in Nat \ {0}
      BY <1>8 DEF GridTyped
    <2>4. \A c \in rest : c \in others \/ (ask /\ c = query)
      BY <1>4, <1>6
    <2>5. \A c \in rest : (now \/ ask) /\ c \in others => c.kind # "pin" \/ (ask /\ c = query)
      BY <1>4, <1>6
    <2>6. query.kind = "pin"
      BY <2>1
    <2>7. ASSUME NEW c \in others, c \in rest, c # query, c.kind = "pin" PROVE AskedFor(c, u)
      <3>1. ~(now \/ ask)
        BY <2>5, <2>7
      <3>2. QED
        BY <1>1, <2>2, <2>7, <3>1
    <2>8. ASSUME NEW c \in rest
          PROVE  /\ c.kind # "rows" /\ (c.kind = "pin" => AskedFor(c, u))
                 /\ c.kind = "end" => /\ c.page \in Nat \ {0} /\ c.bounds \in {DV!None} \cup Bounds
                                      /\ c.q.size \in Nat \ {0}
      <3>1. CASE ask /\ c = query
        BY <2>1, <3>1
      <3>2. CASE c \in others /\ c # query
        BY <2>3, <2>7, <3>2
      <3>3. CASE c \in others /\ c = query /\ ~ask
        BY <1>1, <2>1, <2>2, <2>5, <2>6, <3>3
      <3>4. QED
        BY <1>1, <2>4, <3>1, <3>2, <3>3
    <2>9. QED
      BY <2>8
  <1>17. /\ GridInv'
         /\ view'.req = u.req /\ view'.page = u.page /\ view'.back = u.back /\ view'.rpt = u.rpt /\ DV!PinKey(view') = DV!PinKey(u)
         /\ view'.sel = u.sel
         /\ \A c \in calls' : c.kind # "rows" => c \in rest
    BY <1>7, <1>8, <1>9, <1>10, <1>13, <1>14, <1>15, <1>16, FetchFits
  <1>18. ~repin /\ key = DV!PinKey(view) => pin = pinned /\ rest = others
    BY <1>1, <1>3, <1>4, <1>6
  <1>19. \A c \in rest : c.kind \in {"end", "split"} => c \in others
    BY <1>4, <1>5, <1>6
  <1>20. QED
    BY <1>1, <1>7, <1>9, <1>10, <1>17, <1>18, <1>19

-----------------------------------------------------------------------------
(* The charts, and what a step has to keep                                   *)

Charts == [range : {DV!None} \cup Ranges, win : {DV!None} \cup Wins, rows : {DV!None, DV!Cleared} \cup Wins]

\* A request for the rows of charts: of windows that they show, or of ranges
\* that are yet to be resolved.
Charting(c) ==
  /\ c = [kind |-> "split", groups |-> c.groups, rest |-> c.rest, ranges |-> c.ranges, wins |-> c.wins, now |-> c.now]
  /\ c.now \in Nat /\ c.groups \subseteq Tags /\ c.rest \subseteq Tags
  /\ \A g \in c.groups :
       /\ c.wins[g] = DV!None => c.ranges[g] \in Ranges
       /\ c.wins[g] # DV!None => c.wins[g] \in Wins /\ g \in DOMAIN split /\ split[g].win = c.wins[g]
  /\ \A g \in c.rest : c.wins[g] = DV!None /\ c.ranges[g] \in Ranges

SplitInv == /\ DOMAIN split \subseteq Tags /\ split \in [DOMAIN split -> Charts]
            /\ \A c, d \in calls : c.kind = "split" /\ d.kind = "split" => c = d
            /\ \A c \in calls : c.kind = "split" => Charting(c)

ChartInv == GridInv /\ SplitInv
Goes == ChartInv' /\ DV!SplitRowsStep /\ (ExactInv => ExactInv')

-----------------------------------------------------------------------------
(* What the actions have in common                                           *)

LEMMA AWindow ==
  ASSUME NEW w \in Wins
  PROVE  w # DV!None
  BY DEF Wins, DV!None

LEMMA FreshExact ==
  ASSUME ExactInv, view'.req.cursor = DV!None, exact' => ~DV!Bounded(view'.req), \A c \in calls' : c.kind # "end"
  PROVE  ExactInv'
  BY DEF ExactInv, DV!WholeMilliseconds, Turned, Placed

\* A step that leaves the inputs and the window.
LEMMA ExactStays ==
  ASSUME ExactInv, pinned' = pinned, exact' = exact, DV!PinKey(view') = DV!PinKey(view),
         view'.sel = view.sel, view'.back = view.back, view'.rpt = view.rpt, view'.req = view.req, view'.page = view.page,
         \A c \in calls' : c.kind = "pin" => c \in calls,
         \A c \in calls' : c.kind = "end" => c \in calls \/ Placed(c)
  PROVE  ExactInv'
  <1>1. DV!Query(view', pinned) = DV!Query(view, pinned) /\ \A p : Slice(view', pinned, p) = Slice(view, pinned, p)
    BY SameQuery
  <1>2. Steady => Steady'
    BY DEF Steady
  <1>3. Turned => Turned'
    BY <1>1, <1>2 DEF Turned
  <1>4. ASSUME NEW c \in calls' PROVE Placed(c)'
    <2>1. CASE c.kind = "end"
      <3>1. Placed(c)
        BY <1>4, <2>1 DEF ExactInv
      <3>2. QED
        BY <1>1, <1>2, <3>1 DEF Placed
    <2>2. CASE c.kind # "end"
      BY <2>2 DEF Placed
    <2>3. QED
      BY <2>1, <2>2
  <1>5. QED
    BY <1>3, <1>4 DEF ExactInv, DV!WholeMilliseconds

\* A step that leaves the grid.
LEMMA GridStays ==
  ASSUME GridInv, view' = view, pinned' = pinned, result' = result, fetching' = fetching, exact' = exact, clock' \in Nat,
         \A c \in calls' : \/ c \in calls \/ c.kind = "split"
                           \/ /\ c.kind = "end" /\ c.page \in Nat \ {0} /\ c.bounds \in {DV!None} \cup Bounds
                              /\ c.q.size \in Nat \ {0} /\ (ExactInv => Placed(c))
  PROVE  GridInv' /\ (ExactInv => ExactInv')
  <1>1. GridTyped'
    BY DEF GridInv, GridTyped
  <1>2. Fetching' /\ Showing' /\ ShownBounds' /\ Window' /\ GridAsking' /\ OfData(pinned)'
    BY DEF GridInv, Fetching, Current, Showing, DV!Settled, ShownBounds, Window, InWindow, GridAsking, AskedFor, OfData
  <1>3. DV!ConstantsFit'
    BY DEF GridInv, DV!ConstantsFit
  <1>4. ExactInv => ExactInv'
    <2>1. /\ \A c \in calls' : c.kind = "pin" => c \in calls
          /\ ExactInv => \A c \in calls' : c.kind = "end" => c \in calls \/ Placed(c)
      OBVIOUS
    <2>2. QED
      BY <2>1, ExactStays
  <1>5. QED
    BY <1>1, <1>2, <1>3, <1>4 DEF GridInv

\* A step that leaves the charts.
LEMMA SplitStays ==
  ASSUME SplitInv, split' = split, \A c \in calls' : c.kind = "split" => c \in calls
  PROVE  SplitInv' /\ DV!SplitRowsStep
  BY DEF SplitInv, DV!SplitRowsStep, Charting

LEMMA WithoutIs ==
  ASSUME NEW kinds
  PROVE  \A c : c \in DV!Without(kinds) <=> c \in calls /\ c.kind \notin kinds
  BY DEF DV!Without

LEMMA ResetIs ==
  ASSUME NEW v \in GridViews
  PROVE  DV!Reset(v) = [sel |-> v.sel, range |-> v.range, token |-> v.token, page |-> 1, req |-> DV!PlainPage(1),
                     bounds |-> DV!None, back |-> v.back, rpt |-> v.rpt]
  <1>1. PICK u : u = [v EXCEPT !.page = 1, !.req = DV!PlainPage(1), !.bounds = DV!None]
    OBVIOUS
  <1>2. u = [sel |-> v.sel, range |-> v.range, token |-> v.token, page |-> 1, req |-> DV!PlainPage(1),
             bounds |-> DV!None, back |-> v.back, rpt |-> v.rpt]
    BY <1>1 DEF GridViews
  <1>3. QED
    BY <1>1, <1>2 DEF DV!Reset

LEMMA ResetFits ==
  ASSUME NEW v \in GridViews
  PROVE  /\ DV!Reset(v) \in GridViews /\ DV!Reset(v).req = DV!PlainPage(1) /\ DV!Reset(v).page = 1 /\ DV!Reset(v).bounds = DV!None
         /\ DV!Reset(v).req.page = 1 /\ ~DV!Bounded(DV!Reset(v).req) /\ DV!Reset(v).req.cursor = DV!None
         /\ DV!Reset(v).sel = v.sel /\ DV!Reset(v).range = v.range /\ DV!Reset(v).token = v.token
         /\ DV!Reset(v).back = v.back /\ DV!Reset(v).rpt = v.rpt
  <1>1. DV!PlainPage(1) \in Asks /\ DV!PlainPage(1).page = 1 /\ ~DV!Bounded(DV!PlainPage(1)) /\ DV!PlainPage(1).cursor = DV!None
    BY PlainFits
  <1>2. DV!Reset(v) = [sel |-> v.sel, range |-> v.range, token |-> v.token, page |-> 1, req |-> DV!PlainPage(1),
                    bounds |-> DV!None, back |-> v.back, rpt |-> v.rpt]
    BY ResetIs
  <1>3. QED
    BY <1>1, <1>2 DEF GridViews

\* A handler that starts again, at a page without bounds.
LEMMA RenderFresh ==
  ASSUME GridInv, NEW v, NEW repin, Proper(v, repin), v.req.cursor = DV!None, NEW others,
         \A c \in others : c.kind \notin {"rows", "end"} /\ (c \in calls \/ c.kind = "split"),
         DV!Render(v, repin, others), clock' \in Nat, exact' => ~DV!Bounded(v.req) \/ ~DV!Bounded(view'.req)
  PROVE  /\ GridInv' /\ (ExactInv => ExactInv')
         /\ \A c \in calls' : c.kind = "split" => c \in others
  <1>1. /\ GridInv'
        /\ view'.req = DV!Applied(v).req
        /\ \A c \in calls' : c.kind \in {"end", "split"} => c \in others
    BY RenderFits
  <1>2. DV!Applied(v).req = v.req \/ DV!Applied(v).req = DV!PlainPage(1)
    BY AppliedFits DEF Proper
  <1>3. view'.req.cursor = DV!None /\ (exact' => ~DV!Bounded(view'.req))
    BY <1>1, <1>2, PlainFits
  <1>4. \A c \in calls' : c.kind # "end"
    BY <1>1
  <1>5. QED
    BY <1>1, <1>3, <1>4, FreshExact

-----------------------------------------------------------------------------
(* The user's operations on the grid                                         *)

LEMMA TagsRequestFits ==
  ASSUME NEW v \in GridViews
  PROVE  /\ DV!TagsRequest(v) \in Asks /\ DV!TagsRequest(v).page = v.page /\ DV!TagsRequest(v).cursor = DV!None
         /\ v.bounds = DV!None => ~DV!Bounded(DV!TagsRequest(v))
         /\ v.bounds # DV!None => DV!TagsRequest(v).win = DV!Win(v.bounds.from, v.bounds.to)
  <1>1. v.page \in Nat \ {0} /\ v.bounds \in {DV!None} \cup Bounds
    BY DEF GridViews
  <1>2. DV!PlainPage(v.page) \in Asks /\ DV!PlainPage(v.page).page = v.page /\ ~DV!Bounded(DV!PlainPage(v.page)) /\ DV!PlainPage(v.page).cursor = DV!None
    BY <1>1, PlainFits
  <1>3. CASE v.bounds = DV!None
    BY <1>2, <1>3 DEF DV!TagsRequest
  <1>4. CASE v.bounds # DV!None
    <2>1. DV!Win(v.bounds.from, v.bounds.to) \in Wins
      BY <1>1, <1>4 DEF Bounds, DV!Win, Wins
    <2>2. QED
      BY <1>2, <1>4, <2>1 DEF DV!TagsRequest, Asks
  <1>5. QED
    BY <1>3, <1>4

LEMMA TagsLoadedStep ==
  ASSUME ChartInv, DV!TagsLoaded
  PROVE  Goes
  <1>1. GridInv /\ SplitInv /\ DV!ConstantsFit /\ GridTyped /\ Window
    BY DEF ChartInv, GridInv
  <1>2. PICK v : v = [view EXCEPT !.sel = DV!Normalized({}), !.req = DV!TagsRequest(view)]
    OBVIOUS
  <1>3. PICK others : others = DV!Without({"rows", "end"})
    OBVIOUS
  <1>4. view.sel = {} /\ DV!Render(v, FALSE, others) /\ split' = split /\ clock' = clock /\ exact' = TRUE
    BY <1>2, <1>3 DEF DV!TagsLoaded
  <1>5. view.bounds = DV!None /\ view \in GridViews /\ clock \in Nat
    BY <1>1, <1>4 DEF Window, GridTyped
  <1>6. DV!TagsRequest(view) \in Asks /\ DV!TagsRequest(view).page = view.page /\ DV!TagsRequest(view).cursor = DV!None /\ ~DV!Bounded(DV!TagsRequest(view))
    BY <1>5, TagsRequestFits
  <1>7. DV!Normalized({}) \in SUBSET Tags
    BY <1>1, NormalFits
  <1>8. v \in GridViews /\ v.req = DV!TagsRequest(view) /\ v.page = view.page /\ v.bounds = DV!None
    BY <1>2, <1>5, <1>6, <1>7 DEF GridViews
  <1>9. Proper(v, FALSE)
    BY <1>6, <1>8 DEF Proper
  <1>10. \A c \in others : c.kind \notin {"rows", "end"} /\ c \in calls
    BY <1>3, WithoutIs
  <1>11. /\ GridInv' /\ (ExactInv => ExactInv')
         /\ \A c \in calls' : c.kind = "split" => c \in others
    BY <1>1, <1>4, <1>5, <1>6, <1>8, <1>9, <1>10, RenderFresh
  <1>12. SplitInv' /\ DV!SplitRowsStep
    BY <1>1, <1>4, <1>10, <1>11, SplitStays
  <1>13. QED
    BY <1>11, <1>12 DEF Goes, ChartInv

\* What is reset is proper, whatever its range, token, direction and length.
LEMMA ResetProper ==
  ASSUME NEW v \in GridViews, NEW repin \in BOOLEAN
  PROVE  Proper(DV!Reset(v), repin) /\ DV!Reset(v).req.cursor = DV!None /\ ~DV!Bounded(DV!Reset(v).req)
  BY ResetFits DEF Proper

\* RowsPerTag, ScanDirection and ApplyRange, by what they start again with.
LEMMA ResetStep ==
  ASSUME ChartInv, NEW v, NEW repin \in BOOLEAN, Proper(v, repin), v.req.cursor = DV!None, ~DV!Bounded(v.req),
         DV!Render(v, repin, DV!Without({"rows", "end"})), split' = split, clock' = clock
  PROVE  Goes
  <1>1. GridInv /\ SplitInv /\ clock \in Nat
    BY DEF ChartInv, GridInv, GridTyped
  <1>2. PICK others : others = DV!Without({"rows", "end"})
    OBVIOUS
  <1>3. \A c \in others : c.kind \notin {"rows", "end"} /\ c \in calls
    BY <1>2, WithoutIs
  <1>4. /\ GridInv' /\ (ExactInv => ExactInv')
        /\ \A c \in calls' : c.kind = "split" => c \in others
    BY <1>1, <1>2, <1>3, RenderFresh
  <1>5. SplitInv' /\ DV!SplitRowsStep
    BY <1>1, <1>3, <1>4, SplitStays
  <1>6. QED
    BY <1>4, <1>5 DEF Goes, ChartInv

LEMMA RowsPerTagStep ==
  ASSUME ChartInv, NEW n \in PerTag, DV!RowsPerTag(n)
  PROVE  Goes
  <1>1. view \in GridViews
    BY DEF ChartInv, GridInv, GridTyped
  <1>2. PICK u : u = [view EXCEPT !.rpt = n]
    OBVIOUS
  <1>3. u = [sel |-> view.sel, range |-> view.range, token |-> view.token, page |-> view.page, req |-> view.req,
             bounds |-> view.bounds, back |-> view.back, rpt |-> n]
    BY <1>1, <1>2 DEF GridViews
  <1>4. u \in GridViews
    BY <1>1, <1>3 DEF GridViews
  <1>5. [DV!Reset(view) EXCEPT !.rpt = n] = DV!Reset(u)
    <2>1. PICK r : r = DV!Reset(view)
      OBVIOUS
    <2>2. r = [sel |-> view.sel, range |-> view.range, token |-> view.token, page |-> 1, req |-> DV!PlainPage(1),
               bounds |-> DV!None, back |-> view.back, rpt |-> view.rpt]
      BY <1>1, <2>1, ResetIs
    <2>3. DV!Reset(u) = [sel |-> view.sel, range |-> view.range, token |-> view.token, page |-> 1, req |-> DV!PlainPage(1),
                      bounds |-> DV!None, back |-> view.back, rpt |-> n]
      BY <1>3, <1>4, ResetIs
    <2>4. QED
      BY <2>1, <2>2, <2>3
  <1>6. DV!Render(DV!Reset(u), FALSE, DV!Without({"rows", "end"})) /\ split' = split /\ clock' = clock
    BY <1>5 DEF DV!RowsPerTag
  <1>7. Proper(DV!Reset(u), FALSE) /\ DV!Reset(u).req.cursor = DV!None /\ ~DV!Bounded(DV!Reset(u).req)
    BY <1>4, ResetProper
  <1>8. QED
    BY <1>6, <1>7, ResetStep

LEMMA ScanDirectionStep ==
  ASSUME ChartInv, NEW b \in BOOLEAN, DV!ScanDirection(b)
  PROVE  Goes
  <1>1. view \in GridViews
    BY DEF ChartInv, GridInv, GridTyped
  <1>2. PICK u : u = [view EXCEPT !.back = b]
    OBVIOUS
  <1>3. u = [sel |-> view.sel, range |-> view.range, token |-> view.token, page |-> view.page, req |-> view.req,
             bounds |-> view.bounds, back |-> b, rpt |-> view.rpt]
    BY <1>1, <1>2 DEF GridViews
  <1>4. u \in GridViews
    BY <1>1, <1>3 DEF GridViews
  <1>5. [DV!Reset(view) EXCEPT !.back = b] = DV!Reset(u)
    <2>1. PICK r : r = DV!Reset(view)
      OBVIOUS
    <2>2. r = [sel |-> view.sel, range |-> view.range, token |-> view.token, page |-> 1, req |-> DV!PlainPage(1),
               bounds |-> DV!None, back |-> view.back, rpt |-> view.rpt]
      BY <1>1, <2>1, ResetIs
    <2>3. DV!Reset(u) = [sel |-> view.sel, range |-> view.range, token |-> view.token, page |-> 1, req |-> DV!PlainPage(1),
                      bounds |-> DV!None, back |-> b, rpt |-> view.rpt]
      BY <1>3, <1>4, ResetIs
    <2>4. QED
      BY <2>1, <2>2, <2>3
  <1>6. DV!Render(DV!Reset(u), FALSE, DV!Without({"rows", "end"})) /\ split' = split /\ clock' = clock
    BY <1>5 DEF DV!ScanDirection
  <1>7. Proper(DV!Reset(u), FALSE) /\ DV!Reset(u).req.cursor = DV!None /\ ~DV!Bounded(DV!Reset(u).req)
    BY <1>4, ResetProper
  <1>8. QED
    BY <1>6, <1>7, ResetStep

\* With another range or another token, too.
LEMMA ResetRange ==
  ASSUME NEW range \in Ranges, view \in GridViews
  PROVE  \E u \in GridViews : [DV!Reset(view) EXCEPT !.range = range] = DV!Reset(u) /\ u.range = range
  <1>1. PICK u : u = [sel |-> view.sel, range |-> range, token |-> view.token, page |-> view.page, req |-> view.req,
                      bounds |-> view.bounds, back |-> view.back, rpt |-> view.rpt]
    OBVIOUS
  <1>2. u \in GridViews
    BY <1>1 DEF GridViews
  <1>3. PICK r : r = DV!Reset(view)
    OBVIOUS
  <1>4. r = [sel |-> view.sel, range |-> view.range, token |-> view.token, page |-> 1, req |-> DV!PlainPage(1),
             bounds |-> DV!None, back |-> view.back, rpt |-> view.rpt]
    BY <1>3, ResetIs
  <1>5. DV!Reset(u) = [sel |-> view.sel, range |-> range, token |-> view.token, page |-> 1, req |-> DV!PlainPage(1),
                    bounds |-> DV!None, back |-> view.back, rpt |-> view.rpt]
    BY <1>1, <1>2, ResetIs
  <1>6. [r EXCEPT !.range = range] = DV!Reset(u)
    BY <1>4, <1>5
  <1>7. QED
    BY <1>1, <1>2, <1>3, <1>6

LEMMA ResetToken ==
  ASSUME view \in GridViews
  PROVE  \E u \in GridViews : [DV!Reset(view) EXCEPT !.token = @ + 1] = DV!Reset(u)
  <1>1. PICK u : u = [sel |-> view.sel, range |-> view.range, token |-> view.token + 1, page |-> view.page, req |-> view.req,
                      bounds |-> view.bounds, back |-> view.back, rpt |-> view.rpt]
    OBVIOUS
  <1>2. u \in GridViews
    BY <1>1 DEF GridViews
  <1>3. PICK r : r = DV!Reset(view)
    OBVIOUS
  <1>4. r = [sel |-> view.sel, range |-> view.range, token |-> view.token, page |-> 1, req |-> DV!PlainPage(1),
             bounds |-> DV!None, back |-> view.back, rpt |-> view.rpt]
    BY <1>3, ResetIs
  <1>5. DV!Reset(u) = [sel |-> view.sel, range |-> view.range, token |-> view.token + 1, page |-> 1, req |-> DV!PlainPage(1),
                    bounds |-> DV!None, back |-> view.back, rpt |-> view.rpt]
    BY <1>1, <1>2, ResetIs
  <1>6. [r EXCEPT !.token = @ + 1] = DV!Reset(u)
    BY <1>4, <1>5
  <1>7. QED
    BY <1>1, <1>2, <1>3, <1>6

LEMMA RelFits ==
  ASSUME NEW k \in {"now", "last"}
  PROVE  DV!Rel(k) \in Ranges
  BY DEF DV!Rel, Ranges, DV!NoWin, DV!Win, DV!NoTime, Wins

LEMMA ApplyRangeStep ==
  ASSUME ChartInv, NEW k \in {"now", "last"}, DV!ApplyRange(DV!Rel(k))
  PROVE  Goes
  <1>1. view \in GridViews /\ DV!Rel(k) \in Ranges
    BY RelFits DEF ChartInv, GridInv, GridTyped
  <1>2. PICK u \in GridViews : [DV!Reset(view) EXCEPT !.range = DV!Rel(k)] = DV!Reset(u)
    BY <1>1, ResetRange
  <1>3. DV!Render(DV!Reset(u), TRUE, DV!Without({"rows", "end"})) /\ split' = split /\ clock' = clock
    BY <1>2 DEF DV!ApplyRange
  <1>4. Proper(DV!Reset(u), TRUE) /\ DV!Reset(u).req.cursor = DV!None /\ ~DV!Bounded(DV!Reset(u).req)
    BY ResetProper
  <1>5. QED
    BY <1>3, <1>4, ResetStep

LEMMA ToggleStep ==
  ASSUME ChartInv, NEW tag \in Tags, DV!Toggle(tag)
  PROVE  Goes
  <1>1. GridInv /\ SplitInv /\ DV!ConstantsFit /\ GridTyped /\ Window /\ view \in GridViews /\ clock \in Nat
    BY DEF ChartInv, GridInv, GridTyped
  <1>2. PICK raw : raw = IF tag \in view.sel THEN view.sel \ {tag} ELSE view.sel \cup {tag}
    OBVIOUS
  <1>3. PICK last \in BOOLEAN : last = (raw = {} /\ view.range.kind = "last")
    OBVIOUS
  <1>4. PICK wanted : wanted = [view EXCEPT !.sel = DV!Normalized(raw), !.req = DV!TagsRequest(view),
                                          !.bounds = IF raw = {} THEN DV!None ELSE @]
    OBVIOUS
  <1>5. PICK v : v = IF last THEN DV!Reset(wanted) ELSE wanted
    OBVIOUS
  <1>6. PICK gone : gone = DOMAIN split \ v.sel
    OBVIOUS
  <1>7. PICK others : others = {c \in DV!Without({"rows", "end"}) : c.kind = "split" => c.groups \cap gone = {}}
    OBVIOUS
  <1>8. /\ DV!Render(v, last, others) /\ split' = [g \in DOMAIN split \cap v.sel |-> split[g]]
        /\ exact' = ~DV!Bounded(view'.req) /\ clock' = clock
    BY <1>2, <1>3, <1>4, <1>5, <1>6, <1>7 DEF DV!Toggle
  <1>9. raw \in SUBSET Tags /\ raw # view.sel
    BY <1>1, <1>2 DEF GridViews
  <1>10. DV!Normalized(raw) \in SUBSET Tags /\ (raw # {} => DV!Normalized(raw) = raw)
    BY <1>1, <1>9, NormalFits
  <1>11. /\ DV!TagsRequest(view) \in Asks /\ DV!TagsRequest(view).page = view.page /\ DV!TagsRequest(view).cursor = DV!None
         /\ view.bounds = DV!None => ~DV!Bounded(DV!TagsRequest(view))
         /\ view.bounds # DV!None => DV!TagsRequest(view).win = DV!Win(view.bounds.from, view.bounds.to)
    BY <1>1, TagsRequestFits
  <1>12. wanted = [sel |-> DV!Normalized(raw), range |-> view.range, token |-> view.token, page |-> view.page,
                  req |-> DV!TagsRequest(view), bounds |-> IF raw = {} THEN DV!None ELSE view.bounds,
                  back |-> view.back, rpt |-> view.rpt]
    BY <1>1, <1>4 DEF GridViews
  <1>13. wanted \in GridViews
    BY <1>1, <1>10, <1>11, <1>12 DEF GridViews
  <1>14. Proper(v, last) /\ v.req.cursor = DV!None
    <2>1. CASE last
      BY <1>5, <1>13, <2>1, ResetProper
    <2>2. CASE ~last
      <3>1. v = wanted /\ v.req = DV!TagsRequest(view) /\ v.page = view.page /\ v.range = view.range /\ v.sel = DV!Normalized(raw)
            /\ (v.bounds = DV!None \/ v.bounds = view.bounds)
        BY <1>5, <1>12, <2>2
      <3>2. SUFFICES ASSUME DV!PinKey(v) = DV!PinKey(view)
                     PROVE  /\ DV!Bounded(v.req) => v.range.kind # "last" /\ pinned.from <= v.req.win.from /\ v.req.win.to <= pinned.to
                            /\ v.bounds # DV!None /\ v.range.kind # "last" => pinned.from <= v.bounds.from /\ v.bounds.to <= pinned.to
        BY <1>11, <1>13, <2>2, <3>1 DEF Proper
      <3>3. view.range.kind # "last"
        <4>1. SUFFICES ASSUME view.range.kind = "last" PROVE FALSE
          OBVIOUS
        <4>2. v.sel = view.sel
          BY <3>1, <3>2, <4>1 DEF DV!PinKey
        <4>3. raw # {}
          BY <1>3, <2>2, <4>1
        <4>4. QED
          BY <1>9, <1>10, <3>1, <4>2, <4>3
      <3>4. view.bounds # DV!None => pinned.from <= view.bounds.from /\ view.bounds.to <= pinned.to
        BY <1>1, <3>3 DEF Window, InWindow
      <3>5. DV!Bounded(v.req) => view.bounds # DV!None /\ v.req.win.from = view.bounds.from /\ v.req.win.to = view.bounds.to
        BY <1>11, <3>1 DEF DV!Win
      <3>6. QED
        BY <3>1, <3>3, <3>4, <3>5
    <2>3. QED
      BY <2>1, <2>2
  <1>15. \A c \in others : c.kind \notin {"rows", "end"} /\ c \in calls /\ (c.kind = "split" => c.groups \cap gone = {})
    BY <1>7, WithoutIs
  <1>16. /\ GridInv' /\ (ExactInv => ExactInv')
         /\ \A c \in calls' : c.kind = "split" => c \in others
    BY <1>1, <1>8, <1>14, <1>15, RenderFresh
  <1>17. SplitInv'
    <2>1. DOMAIN split' = DOMAIN split \cap v.sel /\ \A g \in DOMAIN split' : split'[g] = split[g]
      BY <1>8
    <2>2. DOMAIN split' \subseteq Tags /\ split' \in [DOMAIN split' -> Charts]
      BY <1>1, <1>8 DEF SplitInv
    <2>3. \A c, d \in calls' : c.kind = "split" /\ d.kind = "split" => c = d
      BY <1>1, <1>15, <1>16 DEF SplitInv
    <2>4. ASSUME NEW c \in calls', c.kind = "split" PROVE Charting(c)'
      <3>1. Charting(c) /\ c.groups \cap gone = {}
        BY <1>1, <1>15, <1>16, <2>4 DEF SplitInv
      <3>2. \A g \in c.groups : g \in DOMAIN split => g \in DOMAIN split'
        BY <1>6, <2>1, <3>1
      <3>3. QED
        BY <2>1, <3>1, <3>2 DEF Charting
    <2>5. QED
      BY <2>2, <2>3, <2>4 DEF SplitInv
  <1>18. DV!SplitRowsStep
    BY <1>8 DEF DV!SplitRowsStep
  <1>19. QED
    BY <1>16, <1>17, <1>18 DEF Goes, ChartInv

LEMMA MoveFits ==
  ASSUME NEW p \in Nat \ {0}, NEW n \in Nat \ {0}, NEW bounds \in {DV!None} \cup Bounds
  PROVE  /\ DV!MoveRequest(p, n, bounds) \in Asks /\ DV!MoveRequest(p, n, bounds).page = n /\ ~DV!Bounded(DV!MoveRequest(p, n, bounds))
         /\ DV!MoveRequest(p, n, bounds).cursor # DV!None => bounds # DV!None
  <1>1. DV!PlainPage(n) = [page |-> n, cursor |-> DV!None, win |-> DV!NoWin] /\ DV!PlainPage(n) \in Asks
    BY PlainFits DEF DV!PlainPage
  <1>2. CASE bounds = DV!None \/ n - p \notin {-1, 1}
    BY <1>1, <1>2, PlainFits DEF DV!MoveRequest
  <1>3. CASE bounds # DV!None /\ n - p \in {-1, 1}
    <2>1. PICK c : c = IF n > p THEN [side |-> "next", ms |-> bounds.last.ms, tag |-> bounds.last.tag]
                       ELSE [side |-> "prev", ms |-> bounds.first.ms, tag |-> bounds.first.tag]
      OBVIOUS
    <2>2. bounds.first \in Places /\ bounds.last \in Places
      BY <1>3 DEF Bounds
    <2>3. c \in Cursors
      BY <2>1, <2>2 DEF Cursors, Places
    <2>4. DV!MoveRequest(p, n, bounds) = [page |-> n, cursor |-> c, win |-> DV!NoWin]
      BY <1>1, <1>3, <2>1 DEF DV!MoveRequest
    <2>5. QED
      BY <1>1, <1>3, <2>3, <2>4 DEF Asks, DV!Bounded
  <1>4. QED
    BY <1>2, <1>3

\* A page is turned from the bounds of the page p, by MovePage or when the
\* total is known; good says that these are the bounds of that page.
LEMMA TurnStep ==
  ASSUME ChartInv, NEW p \in Nat \ {0}, NEW n \in Nat \ {0}, NEW bounds \in {DV!None} \cup Bounds, NEW good \in BOOLEAN,
         NEW req, req = DV!MoveRequest(p, n, bounds), NEW others,
         \A c \in others : c \in calls /\ c.kind # "rows",
         NEW v, v = [view EXCEPT !.req = req, !.page = n], DV!Render(v, FALSE, others),
         split' = split, clock' = clock, exact' = (req.cursor = DV!None \/ good),
         ExactInv /\ good /\ bounds # DV!None =>
           Steady /\ (pinned.from # DV!NoTime => bounds = DV!PageBounds(view.back, Slice(view, pinned, p)))
  PROVE  Goes
  <1>1. GridInv /\ SplitInv /\ DV!ConstantsFit /\ GridTyped /\ Window /\ view \in GridViews /\ pinned \in Pins /\ clock \in Nat
    BY DEF ChartInv, GridInv, GridTyped
  <1>3. req \in Asks /\ req.page = n /\ ~DV!Bounded(req) /\ (req.cursor # DV!None => bounds # DV!None)
    BY MoveFits
  <1>4. v = [sel |-> view.sel, range |-> view.range, token |-> view.token, page |-> n, req |-> req,
             bounds |-> view.bounds, back |-> view.back, rpt |-> view.rpt]
    BY <1>1 DEF GridViews
  <1>5. v \in GridViews /\ v.req = req /\ v.page = n /\ v.bounds = view.bounds /\ v.range = view.range
        /\ v.sel = view.sel /\ v.back = view.back /\ v.rpt = view.rpt /\ DV!PinKey(v) = DV!PinKey(view)
    <2>1. v \in GridViews
      BY <1>1, <1>3, <1>4 DEF GridViews
    <2>2. QED
      BY <1>4, <2>1 DEF DV!PinKey
  <1>6. Proper(v, FALSE)
    BY <1>1, <1>3, <1>5 DEF Proper, Window, InWindow
  <1>7. /\ GridInv'
        /\ view'.req = DV!Applied(v).req /\ view'.page = DV!Applied(v).page /\ view'.back = v.back /\ view'.rpt = v.rpt
        /\ view'.sel = v.sel /\ DV!PinKey(view') = DV!PinKey(v)
        /\ pinned' = pinned /\ \A c \in calls' : c.kind \in {"pin", "end"} => c \in others
        /\ \A c \in calls' : c.kind \in {"end", "split"} => c \in others
    BY <1>1, <1>5, <1>6, RenderFits
  <1>8. view'.req = req /\ view'.page = n
    <2>1. v.req.page = v.page
      BY <1>3, <1>5
    <2>2. DV!Applied(v) = v
      BY <1>5, <2>1, AppliedFits
    <2>3. QED
      BY <1>5, <1>7, <2>2
  <1>9. SplitInv' /\ DV!SplitRowsStep
    BY <1>1, <1>7, SplitStays
  <1>10. ASSUME ExactInv PROVE ExactInv'
    <2>1. Steady => Steady'
      BY <1>5, <1>7 DEF Steady
    <2>2. \A q : Slice(view', pinned, q) = Slice(view, pinned, q)
      BY <1>5, <1>7, SameQuery
    <2>3. ASSUME NEW c \in calls' PROVE Placed(c)'
      <3>1. CASE c.kind = "end"
        <4>1. Placed(c)
          BY <1>7, <1>10, <3>1 DEF ExactInv
        <4>2. QED
          BY <1>5, <1>7, <2>1, <2>2, <4>1 DEF Placed
      <3>2. CASE c.kind # "end"
        BY <3>2 DEF Placed
      <3>3. QED
        BY <3>1, <3>2
    <2>4. ASSUME exact' PROVE Turned'
      <3>1. SUFFICES ASSUME req.cursor # DV!None
                     PROVE  Steady' /\ (pinned.from # DV!NoTime => DV!PageRows(DV!Query(view', pinned)) = Slice(view', pinned, n))
        BY <1>7, <1>8 DEF Turned
      <3>2. Steady /\ (pinned.from # DV!NoTime => bounds = DV!PageBounds(view.back, Slice(view, pinned, p)))
        BY <1>3, <1>10, <2>4, <3>1
      <3>3. SUFFICES ASSUME pinned.from # DV!NoTime PROVE DV!PageRows(DV!Query(view', pinned)) = Slice(view', pinned, n)
        BY <2>1, <3>2
      <3>4. PICK q, c : q = DV!Query(view', pinned) /\ c = req.cursor
        OBVIOUS
      <3>5. /\ q.names = view.sel /\ q.back = view.back /\ q.size = DV!PageSize(view.sel, view.rpt)
            /\ q.from = pinned.from /\ q.to = pinned.to /\ ~q.bounded /\ q.cursor = c
        <4>1. PICK u : u = view'
          OBVIOUS
        <4>2. DV!Bounded(u.req) = FALSE /\ u.req = req
          BY <1>3, <1>8, <4>1 DEF DV!Bounded
        <4>3. u.sel = view.sel /\ u.back = view.back /\ u.rpt = view.rpt
          BY <1>5, <1>7, <4>1
        <4>4. QED
          BY <3>4, <4>1, <4>2, <4>3 DEF DV!Query
      <3>6. DV!WholeMilliseconds
        BY <1>10 DEF ExactInv
      <3>7. DV!PageRows(q) = Slice(view, pinned, n)
        <4>1. c = DV!MoveRequest(p, n, bounds).cursor /\ c # DV!None
          BY <3>1, <3>4
        <4>2. bounds = DV!PageBounds(view.back, Slice(view, pinned, p))
          BY <3>2, <3>3
        <4>3. PICK u, pin : u = view /\ pin = pinned
          OBVIOUS
        <4>4. u \in GridViews /\ pin \in Pins /\ DV!ConstantsFit /\ bounds = DV!PageBounds(u.back, Slice(u, pin, p))
          BY <1>1, <4>2, <4>3
        <4>5. /\ q.names = u.sel /\ q.back = u.back /\ q.size = DV!PageSize(u.sel, u.rpt)
              /\ q.from = pin.from /\ q.to = pin.to /\ ~q.bounded /\ q.cursor = c
          BY <3>5, <4>3
        <4>6. DV!PageRows(q) = Slice(u, pin, n)
          BY <3>6, <4>1, <4>4, <4>5, TurnedPage
        <4>7. QED
          BY <4>3, <4>6
      <3>8. QED
        BY <2>2, <3>4, <3>7
    <2>5. ~DV!Bounded(view'.req)
      BY <1>3, <1>8
    <2>6. QED
      BY <1>10, <2>3, <2>4, <2>5 DEF ExactInv, DV!WholeMilliseconds
  <1>11. QED
    BY <1>7, <1>9, <1>10 DEF Goes, ChartInv

\* What is shown is the page with its number; so are its bounds.
LEMMA ShownPage ==
  ASSUME ChartInv, ExactInv, exact, DV!Settled
  PROVE  /\ DV!PageRows(result.q) = Slice(view, pinned, view.page) /\ Steady /\ pinned.from # DV!NoTime
         /\ result.q = DV!Query(view, pinned)
  <1>1. Current(result.q) /\ view.req.page = view.page
    BY DEF ChartInv, GridInv, Showing, GridTyped
  <1>2. ~DV!Bounded(view.req) /\ Turned
    BY DEF ExactInv
  <1>3. Steady
    BY <1>1 DEF Current, Steady
  <1>4. CASE view.req.cursor = DV!None
    <2>1. DV!Bounded(view.req) = FALSE
      BY <1>2 DEF DV!Bounded
    <2>2. DV!Query(view, pinned) = Plain(view, pinned, view.page)
      BY <1>1, <1>4, <2>1 DEF DV!Query, Plain
    <2>3. QED
      BY <1>1, <1>3, <2>2 DEF Current, Slice
  <1>5. CASE view.req.cursor # DV!None
    BY <1>1, <1>2, <1>3, <1>5 DEF Current, Turned
  <1>6. QED
    BY <1>1, <1>3, <1>4, <1>5 DEF Current

LEMMA ShownPlaced ==
  ASSUME ChartInv, ExactInv, exact, ~fetching, view.bounds # DV!None
  PROVE  Steady /\ (pinned.from # DV!NoTime => view.bounds = DV!PageBounds(view.back, Slice(view, pinned, view.page)))
  <1>1. result.st = "rows" /\ view.bounds = DV!PageBounds(view.back, DV!PageRows(result.q))
    BY DEF ChartInv, GridInv, ShownBounds
  <1>2. QED
    BY <1>1, ShownPage DEF DV!Settled

LEMMA MovePageStep ==
  ASSUME ChartInv, NEW p \in Nat \ {0}, DV!MovePage(p)
  PROVE  Goes
  <1>1. PICK req, others, good : /\ req = DV!MoveRequest(view.page, p, view.bounds) /\ others = DV!Without({"rows"})
                                 /\ good = (exact /\ ~fetching) /\ good \in BOOLEAN
    OBVIOUS
  <1>2. PICK v : v = [view EXCEPT !.req = req, !.page = p]
    OBVIOUS
  <1>7. DV!Render(v, FALSE, others) /\ split' = split /\ clock' = clock /\ exact' = (req.cursor = DV!None \/ good)
    BY <1>1, <1>2 DEF DV!MovePage
  <1>3. \A c \in others : c \in calls /\ c.kind # "rows"
    BY <1>1, WithoutIs
  <1>4. view.page \in Nat \ {0} /\ view.bounds \in {DV!None} \cup Bounds
    BY DEF ChartInv, GridInv, GridTyped, GridViews
  <1>5. ExactInv /\ good /\ view.bounds # DV!None =>
          Steady /\ (pinned.from # DV!NoTime => view.bounds = DV!PageBounds(view.back, Slice(view, pinned, view.page)))
    BY <1>1, ShownPlaced
  <1>6. QED
    <2>1. PICK q, b : q = view.page /\ b = view.bounds
      OBVIOUS
    <2>2. q \in Nat \ {0} /\ b \in {DV!None} \cup Bounds /\ req = DV!MoveRequest(q, p, b)
      BY <1>1, <1>4, <2>1
    <2>3. ExactInv /\ good /\ b # DV!None =>
            Steady /\ (pinned.from # DV!NoTime => b = DV!PageBounds(view.back, Slice(view, pinned, q)))
      BY <1>5, <2>1
    <2>4. good \in BOOLEAN
      BY <1>1
    <2>5. QED
      BY <1>2, <1>3, <1>7, <2>2, <2>3, <2>4, TurnStep

LEMMA ShiftMainStep ==
  ASSUME ChartInv, NEW d, DV!ShiftMain(view.page + d)
  PROVE  Goes
  <1>1. PICK n : n = view.page + d
    OBVIOUS
  <1>2. n \in 1..MaxPage /\ DV!MovePage(n)
    BY <1>1 DEF DV!ShiftMain
  <1>3. MaxPage \in Nat
    BY DEF ChartInv, GridInv, DV!ConstantsFit
  <1>4. n \in Nat \ {0}
    BY <1>2, <1>3
  <1>5. QED
    BY <1>2, <1>4, MovePageStep

-----------------------------------------------------------------------------
(* Requests for charts, for the total, and their answers                     *)

\* One request for charts takes the place of every other.
LEMMA SplitNew ==
  ASSUME NEW new, new.kind = "split", Charting(new)', \A c \in calls' : c.kind = "split" => c = new,
         DOMAIN split' \subseteq Tags, split' \in [DOMAIN split' -> Charts]
  PROVE  SplitInv'
  <1>1. \A c \in calls' : c.kind = "split" => Charting(c)'
    OBVIOUS
  <1>2. QED
    BY <1>1 DEF SplitInv

LEMMA RefreshGridStep ==
  ASSUME ChartInv, DV!Refresh
  PROVE  Goes
  <1>1. GridInv /\ SplitInv /\ DV!ConstantsFit /\ view \in GridViews /\ clock \in Nat
    BY DEF ChartInv, GridInv, GridTyped
  <1>2. PICK own, new, others :
          /\ own = {g \in DOMAIN split : split[g].range # DV!None}
          /\ new = DV!SplitCall({DV!Lowest(own)}, own \ {DV!Lowest(own)}, [g \in own |-> split[g].range], DV!NoWins)
          /\ others = DV!Without({"rows", "end"} \cup (IF DV!CanQuery THEN {"split"} ELSE {}))
                      \cup (IF DV!CanQuery /\ own # {} THEN {new} ELSE {})
    OBVIOUS
  <1>3. PICK u \in GridViews : [DV!Reset(view) EXCEPT !.token = @ + 1] = DV!Reset(u)
    BY <1>1, ResetToken
  <1>4. DV!Render(DV!Reset(u), FALSE, others) /\ split' = split /\ clock' = clock
    BY <1>2, <1>3 DEF DV!Refresh
  <1>5. Proper(DV!Reset(u), FALSE) /\ DV!Reset(u).req.cursor = DV!None /\ ~DV!Bounded(DV!Reset(u).req)
    BY ResetProper
  <1>6. new = [kind |-> "split", groups |-> {DV!Lowest(own)}, rest |-> own \ {DV!Lowest(own)},
               ranges |-> [g \in own |-> split[g].range], wins |-> DV!NoWins, now |-> clock]
    BY <1>2 DEF DV!SplitCall
  <1>7. \A c \in others : c.kind \notin {"rows", "end"} /\ (c \in calls \/ c.kind = "split")
                          /\ (c.kind = "split" => (DV!CanQuery /\ own # {} /\ c = new) \/ (~DV!CanQuery /\ c \in calls))
    <2>1. CASE DV!CanQuery
      BY <1>2, <1>6, <2>1, WithoutIs
    <2>2. CASE ~DV!CanQuery
      BY <1>2, <2>2, WithoutIs
    <2>3. QED
      BY <2>1, <2>2
  <1>8. /\ GridInv' /\ (ExactInv => ExactInv')
        /\ \A c \in calls' : c.kind = "split" => c \in others
    BY <1>1, <1>4, <1>5, <1>7, RenderFresh
  <1>9. SplitInv'
    <2>1. CASE DV!CanQuery /\ own # {}
      <3>1. own \subseteq Tags /\ \A g \in own : split[g].range \in Ranges
        BY <1>1, <1>2 DEF SplitInv, Charts
      <3>2. DV!Lowest(own) \in own
        BY <1>1, <2>1, <3>1, LowestIs DEF DV!ConstantsFit
      <3>3. Charting(new)'
        <4>1. \A g \in own : new.wins[g] = DV!None /\ new.ranges[g] \in Ranges
          BY <1>6, <3>1 DEF DV!NoWins
        <4>2. new.now \in Nat /\ new.groups \subseteq own /\ new.rest \subseteq own
          BY <1>1, <1>6, <3>2
        <4>3. new = [kind |-> "split", groups |-> new.groups, rest |-> new.rest, ranges |-> new.ranges, wins |-> new.wins, now |-> new.now]
          BY <1>6
        <4>4. QED
          BY <3>1, <4>1, <4>2, <4>3 DEF Charting
      <3>4. QED
        BY <1>1, <1>4, <1>6, <1>7, <1>8, <2>1, <3>3, SplitNew DEF SplitInv
    <2>2. CASE DV!CanQuery /\ own = {}
      <3>1. \A c \in calls' : c.kind # "split"
        BY <1>7, <1>8, <2>2
      <3>2. QED
        BY <1>1, <1>4, <3>1, SplitStays
    <2>3. CASE ~DV!CanQuery
      <3>1. \A c \in calls' : c.kind = "split" => c \in calls
        BY <1>7, <1>8, <2>3
      <3>2. QED
        BY <1>1, <1>4, <3>1, SplitStays
    <2>4. QED
      BY <2>1, <2>2, <2>3
  <1>10. DV!SplitRowsStep
    BY <1>4 DEF DV!SplitRowsStep
  <1>11. QED
    BY <1>8, <1>9, <1>10 DEF Goes, ChartInv

LEMMA EndPageStep ==
  ASSUME ChartInv, DV!EndPage
  PROVE  Goes
  <1>1. GridInv /\ SplitInv /\ DV!ConstantsFit /\ GridTyped /\ view \in GridViews /\ clock \in Nat
    BY DEF ChartInv, GridInv, GridTyped
  <1>2. PICK e : e = [kind |-> "end", page |-> view.page, bounds |-> view.bounds, exact |-> exact,
                      q |-> [DV!Query(view, pinned) EXCEPT !.from = pinned.from, !.to = pinned.to]]
    OBVIOUS
  <1>3. /\ calls' = DV!Without({"end"}) \cup {e} /\ ~fetching
        /\ view' = view /\ pinned' = pinned /\ result' = result /\ fetching' = fetching /\ split' = split
        /\ clock' = clock /\ exact' = exact
    BY <1>2 DEF DV!EndPage
  <1>4. e.kind = "end" /\ e.page = view.page /\ e.bounds = view.bounds /\ e.exact = exact
    BY <1>2
  <1>5. e.q.size = DV!PageSize(view.sel, view.rpt)
    BY <1>2 DEF DV!Query
  <1>6. e.page \in Nat \ {0} /\ e.bounds \in {DV!None} \cup Bounds /\ e.q.size \in Nat \ {0}
    BY <1>1, <1>4, <1>5, SizeFits DEF GridViews
  <1>7. ExactInv => Placed(e)
    <2>1. SUFFICES ASSUME ExactInv, exact, view.bounds # DV!None
                   PROVE  Steady /\ (pinned.from # DV!NoTime => view.bounds = DV!PageBounds(view.back, Slice(view, pinned, view.page)))
      BY <1>4 DEF Placed
    <2>2. QED
      BY <1>3, <2>1, ShownPlaced
  <1>8. \A c \in calls' : c = e \/ c \in calls
    BY <1>3, WithoutIs
  <1>9. GridInv' /\ (ExactInv => ExactInv')
    <2>1. \A c \in calls' : \/ c \in calls \/ c.kind = "split"
                            \/ /\ c.kind = "end" /\ c.page \in Nat \ {0} /\ c.bounds \in {DV!None} \cup Bounds
                               /\ c.q.size \in Nat \ {0} /\ (ExactInv => Placed(c))
      BY <1>4, <1>6, <1>7, <1>8
    <2>2. QED
      BY <1>1, <1>3, <2>1, GridStays
  <1>10. SplitInv' /\ DV!SplitRowsStep
    BY <1>1, <1>3, <1>4, <1>8, SplitStays
  <1>11. QED
    BY <1>9, <1>10 DEF Goes, ChartInv

LEMMA PinAnswerStep ==
  ASSUME ChartInv, NEW c \in calls, NEW ok \in BOOLEAN, DV!PinAnswer(c, ok)
  PROVE  Goes
  <1>1. GridInv /\ SplitInv /\ DV!ConstantsFit /\ GridTyped /\ view \in GridViews /\ view.req.page = view.page
        /\ pinned \in Pins /\ clock \in Nat /\ c.kind = "pin"
    BY DEF ChartInv, GridInv, GridTyped, DV!PinAnswer
  <1>2. PICK w : w = IF ok THEN DV!Resolve(c.range, c.names, clock) ELSE DV!NoWin
    OBVIOUS
  <1>3. PICK pin : pin = [key |-> c.key, from |-> w.from, to |-> w.to]
    OBVIOUS
  <1>4. PICK others : others = DV!Without({"pin", "rows"})
    OBVIOUS
  <1>5. pinned' = pin /\ DV!FetchRows(view, pin, others) /\ split' = split /\ clock' = clock /\ exact' = exact
    BY <1>2, <1>3, <1>4 DEF DV!PinAnswer
  <1>6. AskedFor(c, view)
    BY <1>1 DEF GridInv, GridAsking
  <1>7. /\ c.key = DV!PinKey(view) /\ c.range = view.range /\ c.names = view.sel /\ view.range.kind = "last"
        /\ DV!PinKey(view).range = view.range /\ DV!PinKey(view).anchor = view.sel /\ DV!PinKey(view) \in Keys
    BY <1>1, <1>6 DEF AskedFor, DV!PinKey, GridViews, Keys
  <1>8. /\ w \in Wins
        /\ w.from # DV!NoTime => DV!Latest(view.sel) # DV!NoTime /\ w.from = DV!Latest(view.sel) - Span /\ w.to = DV!Latest(view.sel) + 1
    <2>1. view.range \in Ranges
      BY <1>1 DEF GridViews
    <2>2. CASE ok
      <3>1. w = DV!Resolve(view.range, view.sel, clock)
        BY <1>2, <1>7, <2>2
      <3>2. QED
        BY <1>1, <1>7, <2>1, <3>1, ResolveFits
    <2>3. CASE ~ok
      BY <1>2, <2>3 DEF DV!NoWin, DV!Win, DV!NoTime, Wins
    <2>4. QED
      BY <2>2, <2>3
  <1>9. pin \in Pins /\ OfData(pin) /\ pin.key = DV!PinKey(view)
    <2>1. pin.key = DV!PinKey(view) /\ pin.from = w.from /\ pin.to = w.to
      BY <1>3, <1>7
    <2>2. pin \in Pins
      BY <1>3, <1>7, <1>8 DEF Pins, Wins
    <2>3. QED
      BY <1>7, <1>8, <2>1, <2>2 DEF OfData
  <1>10. InWindow(view, pin)
    BY <1>1, <1>7 DEF InWindow, GridInv, Window
  <1>11. \A x \in others : x \in calls /\ x.kind \notin {"pin", "rows"}
    BY <1>4, WithoutIs
  <1>12. /\ GridInv'
         /\ view'.req = view.req /\ view'.page = view.page /\ view'.back = view.back /\ view'.rpt = view.rpt
         /\ DV!PinKey(view') = DV!PinKey(view) /\ view'.sel = view.sel
         /\ \A x \in calls' : x.kind # "rows" => x \in others
    <2>1. \A x \in others : /\ x.kind # "rows" /\ (x.kind = "pin" => AskedFor(x, view))
                            /\ x.kind = "end" => /\ x.page \in Nat \ {0} /\ x.bounds \in {DV!None} \cup Bounds
                                                 /\ x.q.size \in Nat \ {0}
      BY <1>1, <1>11 DEF GridTyped
    <2>2. QED
      BY <1>1, <1>5, <1>9, <1>10, <2>1, FetchFits
  <1>13. ASSUME ExactInv PROVE ExactInv'
    <2>1. Steady => Steady'
      BY <1>5, <1>9, <1>11, <1>12 DEF Steady
    <2>2. ASSUME Steady, pin.from # DV!NoTime PROVE pinned = pin
      <3>1. pinned.key = DV!PinKey(view) /\ pinned.from # DV!NoTime
        BY <1>1, <2>2 DEF Steady
      <3>2. pinned.from = pin.from /\ pinned.to = pin.to
        BY <1>1, <1>7, <1>9, <2>2, <3>1 DEF GridInv, OfData
      <3>3. QED
        BY <1>1, <1>9, <3>1, <3>2 DEF Pins
    <2>3. \A x, p : DV!Query(view', x) = DV!Query(view, x) /\ Slice(view', x, p) = Slice(view, x, p)
      BY <1>12, SameQuery
    <2>4. exact => ~DV!Bounded(view.req) /\ Turned
      BY <1>13 DEF ExactInv
    <2>5. exact' => ~DV!Bounded(view'.req) /\ Turned'
      <3>1. SUFFICES ASSUME exact PROVE ~DV!Bounded(view'.req) /\ Turned'
        BY <1>5
      <3>2. QED
        BY <1>5, <1>12, <2>1, <2>2, <2>3, <2>4, <3>1 DEF Turned
    <2>6. ASSUME NEW x \in calls' PROVE Placed(x)'
      <3>1. CASE x.kind = "end"
        <4>1. Placed(x)
          BY <1>11, <1>12, <1>13, <3>1 DEF ExactInv
        <4>2. QED
          BY <1>5, <1>12, <2>1, <2>2, <2>3, <4>1 DEF Placed
      <3>2. CASE x.kind # "end"
        BY <3>2 DEF Placed
      <3>3. QED
        BY <3>1, <3>2
    <2>7. QED
      BY <1>13, <2>5, <2>6 DEF ExactInv, DV!WholeMilliseconds
  <1>14. SplitInv' /\ DV!SplitRowsStep
    BY <1>1, <1>5, <1>11, <1>12, SplitStays
  <1>15. QED
    BY <1>12, <1>13, <1>14 DEF Goes, ChartInv

LEMMA RowsAnswerStep ==
  ASSUME ChartInv, NEW c \in calls, NEW ok \in BOOLEAN, DV!RowsAnswer(c, ok)
  PROVE  Goes
  <1>1. GridInv /\ SplitInv /\ DV!ConstantsFit /\ GridTyped /\ view \in GridViews /\ pinned \in Pins /\ clock \in Nat
    BY DEF ChartInv, GridInv, GridTyped
  <1>2. PICK q, b, new : /\ q = c.q
                         /\ b = IF ok THEN DV!PageBounds(q.back, DV!PageRows(q)) ELSE DV!None
                         /\ new = [view EXCEPT !.bounds = b]
    OBVIOUS
  <1>3. /\ result' = [st |-> IF ok THEN "rows" ELSE "failed", q |-> q]
        /\ view' = new /\ fetching' = FALSE /\ calls' = calls \ {c}
        /\ pinned' = pinned /\ split' = split /\ clock' = clock /\ exact' = exact
    BY <1>2 DEF DV!RowsAnswer
  <1>4. Current(q)
    BY <1>1, <1>2 DEF DV!RowsAnswer, GridInv, Fetching
  <1>5. /\ q = DV!Query(view, pinned) /\ pinned.key = DV!PinKey(view) /\ pinned.from # DV!NoTime /\ view.sel # {}
        /\ q.back = view.back /\ q.names = view.sel
    BY <1>4 DEF Current, DV!Query
  <1>6. /\ ~DV!Bounded(view.req) => q.from = pinned.from /\ q.to = pinned.to
        /\ DV!Bounded(view.req) => q.from = view.req.win.from /\ q.to = view.req.win.to
    BY <1>5 DEF DV!Query
  <1>7. q.from \in Int /\ q.to \in Int /\ pinned.from \in Int /\ pinned.to \in Int
    <2>1. view.req.win \in Wins /\ pinned.from \in Int /\ pinned.to \in Int
      BY <1>1 DEF GridViews, Asks, Pins
    <2>2. QED
      BY <1>6, <2>1 DEF Wins
  <1>8. /\ b \in {DV!None} \cup Bounds
        /\ b # DV!None => q.from <= b.from /\ b.to <= q.to
    <2>1. DV!PageRows(q) \in SUBSET DV!Match(q.names, q.from, q.to) /\ q.back \in BOOLEAN
      BY <1>1, <1>5, PageRowsFit DEF GridViews
    <2>2. /\ DV!PageBounds(q.back, DV!PageRows(q)) \in {DV!None} \cup Bounds
          /\ DV!PageBounds(q.back, DV!PageRows(q)) # DV!None =>
               q.from <= DV!PageBounds(q.back, DV!PageRows(q)).from /\ DV!PageBounds(q.back, DV!PageRows(q)).to <= q.to
      BY <1>1, <1>7, <2>1, BoundsFit
    <2>3. QED
      BY <1>2, <2>2
  <1>9. new = [sel |-> view.sel, range |-> view.range, token |-> view.token, page |-> view.page, req |-> view.req,
               bounds |-> b, back |-> view.back, rpt |-> view.rpt]
    BY <1>1, <1>2 DEF GridViews
  <1>10. /\ new \in GridViews /\ new.sel = view.sel /\ new.range = view.range /\ new.page = view.page /\ new.req = view.req
         /\ new.bounds = b /\ new.back = view.back /\ new.rpt = view.rpt
    <2>1. new \in GridViews
      BY <1>1, <1>8, <1>9 DEF GridViews
    <2>2. QED
      BY <1>9, <2>1
  <1>11. DV!PinKey(new) = DV!PinKey(view) /\ \A x : DV!Query(new, x) = DV!Query(view, x)
    <2>1. new.token = view.token
      BY <1>9
    <2>2. QED
      BY <1>10, <2>1, SameInputs, SameQuery
  <1>12. \A x \in calls' : x \in calls
    BY <1>3
  <1>13. GridTyped'
    BY <1>1, <1>3, <1>10, <1>12 DEF GridTyped
  <1>14. \A x : Current(x) => Current(x)'
    BY <1>3, <1>10, <1>11 DEF Current
  <1>15. Fetching' /\ Showing' /\ GridAsking'
    <2>1. Fetching'
      BY <1>1, <1>12, <1>14 DEF GridInv, Fetching
    <2>2. Showing'
      BY <1>3, <1>4, <1>14 DEF Showing
    <2>3. GridAsking'
      BY <1>1, <1>3, <1>10, <1>11, <1>12 DEF GridInv, GridAsking, AskedFor
    <2>4. QED
      BY <2>1, <2>2, <2>3
  <1>16. ShownBounds'
    <2>1. b # DV!None => ok /\ b = DV!PageBounds(view.back, DV!PageRows(q))
      BY <1>2, <1>5
    <2>2. QED
      BY <1>3, <1>10, <2>1 DEF ShownBounds
  <1>17. Window'
    <2>1. InWindow(view, pinned)
      BY <1>1 DEF GridInv, Window
    <2>2. b # DV!None /\ view.range.kind # "last" => pinned.from <= b.from /\ b.to <= pinned.to
      <3>1. SUFFICES ASSUME b # DV!None, view.range.kind # "last" PROVE pinned.from <= b.from /\ b.to <= pinned.to
        OBVIOUS
      <3>2. q.from <= b.from /\ b.to <= q.to /\ b.from \in Int /\ b.to \in Int
        BY <1>8, <3>1 DEF Bounds
      <3>3. pinned.from <= q.from /\ q.to <= pinned.to
        <4>1. CASE DV!Bounded(view.req)
          BY <1>6, <2>1, <4>1 DEF InWindow
        <4>2. CASE ~DV!Bounded(view.req)
          BY <1>6, <1>7, <4>2
        <4>3. QED
          BY <4>1, <4>2
      <3>4. QED
        BY <1>7, <3>2, <3>3
    <2>3. InWindow(new, pinned)
      BY <1>10, <1>11, <2>1, <2>2 DEF InWindow
    <2>4. QED
      BY <1>3, <1>5, <1>10, <2>3 DEF Window
  <1>18. GridInv'
    BY <1>1, <1>3, <1>13, <1>15, <1>16, <1>17 DEF GridInv, OfData, DV!ConstantsFit
  <1>19. ExactInv => ExactInv'
    <2>1. DV!PinKey(view') = DV!PinKey(view) /\ view'.sel = view.sel /\ view'.back = view.back /\ view'.rpt = view.rpt
          /\ view'.req = view.req /\ view'.page = view.page
      BY <1>3, <1>10, <1>11
    <2>2. QED
      BY <1>3, <1>12, <2>1, ExactStays
  <1>20. SplitInv' /\ DV!SplitRowsStep
    BY <1>1, <1>3, <1>12, SplitStays
  <1>21. QED
    BY <1>18, <1>19, <1>20 DEF Goes, ChartInv

LEMMA LastFits ==
  ASSUME DV!ConstantsFit, NEW q, q.size \in Nat \ {0}
  PROVE  DV!LastPage(q) \in Nat \ {0}
  <1>1. PICK S, n : S = DV!Match(q.names, q.from, q.to) /\ n = Cardinality(S)
    OBVIOUS
  <1>2. n \in Nat
    BY <1>1, MatchFits, FS_CardinalityType
  <1>3. PICK s \in Nat \ {0} : s = q.size
    OBVIOUS
  <1>4. DV!Cardinality(S) = n
    BY <1>1, SameSize
  <1>5. CASE n = 0
    BY <1>1, <1>4, <1>5 DEF DV!LastPage
  <1>6. CASE n # 0
    <2>1. n + s - 1 \in Nat /\ n + s - 1 >= s
      BY <1>2, <1>6
    <2>2. (n + s - 1) \div s \in Nat /\ n + s - 1 < ((n + s - 1) \div s) * s + s
      BY <2>1, Cut
    <2>3. (n + s - 1) \div s # 0
      BY <2>1, <2>2
    <2>4. QED
      BY <1>1, <1>3, <1>4, <1>6, <2>2, <2>3 DEF DV!LastPage
  <1>7. QED
    BY <1>5, <1>6

LEMMA EndAnswerStep ==
  ASSUME ChartInv, NEW c \in calls, NEW ok \in BOOLEAN, DV!EndAnswer(c, ok)
  PROVE  Goes
  <1>1. GridInv /\ SplitInv /\ DV!ConstantsFit /\ GridTyped /\ clock \in Nat /\ c.kind = "end"
    BY DEF ChartInv, GridInv, GridTyped, DV!EndAnswer
  <1>2. split' = split /\ clock' = clock
    BY DEF DV!EndAnswer
  <1>3. PICK p, n, b : p = c.page /\ n = DV!LastPage(c.q) /\ b = c.bounds
    OBVIOUS
  <1>4. p \in Nat \ {0} /\ b \in {DV!None} \cup Bounds /\ n \in Nat \ {0}
    BY <1>1, <1>3, LastFits DEF GridTyped
  <1>5. CASE ok
    <2>1. PICK req, others : req = DV!MoveRequest(p, n, b) /\ others = DV!Without({"end", "rows"})
      OBVIOUS
    <2>2. PICK good \in BOOLEAN : good = (c.exact \/ FALSE)
      OBVIOUS
    <2>3. req.page = n
      BY <1>4, <2>1, MoveFits
    <2>4. PICK v : v = [view EXCEPT !.req = req, !.page = n]
      OBVIOUS
    <2>5. DV!Render(v, FALSE, others) /\ exact' = (req.cursor = DV!None \/ good)
      BY <1>3, <1>5, <2>1, <2>2, <2>3, <2>4 DEF DV!EndAnswer
    <2>6. \A x \in others : x \in calls /\ x.kind # "rows"
      BY <2>1, WithoutIs
    <2>7. ExactInv /\ good /\ b # DV!None =>
            Steady /\ (pinned.from # DV!NoTime => b = DV!PageBounds(view.back, Slice(view, pinned, p)))
      <3>1. ExactInv => Placed(c)
        BY DEF ExactInv
      <3>2. QED
        BY <1>1, <1>3, <2>2, <3>1 DEF Placed
    <2>8. QED
      BY <1>2, <1>4, <2>1, <2>4, <2>5, <2>6, <2>7, TurnStep
  <1>6. CASE ~ok
    <2>1. /\ calls' = calls \ {c} /\ view' = view /\ pinned' = pinned /\ result' = result /\ fetching' = fetching
          /\ exact' = exact
      BY <1>6 DEF DV!EndAnswer
    <2>2. GridInv' /\ (ExactInv => ExactInv')
      BY <1>1, <1>2, <2>1, GridStays
    <2>3. SplitInv' /\ DV!SplitRowsStep
      BY <1>1, <1>2, <2>1, SplitStays
    <2>4. QED
      BY <2>2, <2>3 DEF Goes, ChartInv
  <1>7. QED
    BY <1>5, <1>6

-----------------------------------------------------------------------------
(* The charts                                                                *)

\* A step on the charts leaves the grid.
LEMMA ChartStep ==
  ASSUME ChartInv, view' = view, pinned' = pinned, result' = result, fetching' = fetching, clock' = clock, exact' = exact,
         \A c \in calls' : c \in calls \/ c.kind = "split",
         SplitInv', DV!SplitRowsStep
  PROVE  Goes
  <1>1. GridInv /\ clock \in Nat
    BY DEF ChartInv, GridInv, GridTyped
  <1>2. GridInv' /\ (ExactInv => ExactInv')
    BY <1>1, GridStays
  <1>3. QED
    BY <1>2 DEF Goes, ChartInv

\* A new request for the chart g, of a range that is to be resolved or of the
\* window that it shows.
LEMMA OneChart ==
  ASSUME NEW g \in Tags, clock \in Nat, NEW ranges, NEW wins, NEW new, new = DV!SplitCall({g}, {}, ranges, wins),
         \/ wins[g] = DV!None /\ ranges[g] \in Ranges
         \/ wins[g] \in Wins /\ g \in DOMAIN split' /\ split'[g].win = wins[g]
  PROVE  Charting(new)' /\ new.kind = "split"
  <1>1. new = [kind |-> "split", groups |-> {g}, rest |-> {}, ranges |-> ranges, wins |-> wins, now |-> clock]
    BY DEF DV!SplitCall
  <1>2. /\ new = [kind |-> "split", groups |-> new.groups, rest |-> new.rest, ranges |-> new.ranges, wins |-> new.wins, now |-> new.now]
        /\ new.kind = "split" /\ new.groups = {g} /\ new.rest = {} /\ new.ranges = ranges /\ new.wins = wins /\ new.now = clock
    BY <1>1
  <1>3. wins[g] \in Wins => wins[g] # DV!None
    BY AWindow
  <1>4. QED
    BY <1>2, <1>3 DEF Charting

LEMMA CreateSplitStep ==
  ASSUME ChartInv, NEW g \in Tags, DV!CreateSplit(g)
  PROVE  Goes
  <1>1. SplitInv
    BY DEF ChartInv
  <1>2. /\ g \notin DOMAIN split /\ split' = [x \in DOMAIN split \cup {g} |-> IF x = g THEN DV!NoSplit ELSE split[x]]
        /\ view' = view /\ pinned' = pinned /\ result' = result /\ fetching' = fetching /\ clock' = clock
        /\ exact' = exact /\ calls' = calls
    BY DEF DV!CreateSplit
  <1>3. DOMAIN split' = DOMAIN split \cup {g} /\ \A x \in DOMAIN split : split'[x] = split[x]
    BY <1>2
  <1>4. DV!NoSplit \in Charts
    BY DEF DV!NoSplit, Charts
  <1>5. SplitInv'
    <2>1. DOMAIN split' \subseteq Tags /\ split' \in [DOMAIN split' -> Charts]
      BY <1>1, <1>2, <1>4 DEF SplitInv
    <2>2. ASSUME NEW c \in calls', c.kind = "split" PROVE Charting(c)'
      <3>1. Charting(c)
        BY <1>1, <1>2, <2>2 DEF SplitInv
      <3>2. QED
        BY <1>3, <3>1 DEF Charting
    <2>3. QED
      BY <1>1, <1>2, <2>1, <2>2 DEF SplitInv
  <1>6. DV!SplitRowsStep
    BY <1>3 DEF DV!SplitRowsStep
  <1>7. QED
    BY <1>2, <1>5, <1>6, ChartStep

LEMMA RemoveSplitStep ==
  ASSUME ChartInv, NEW g \in Tags, DV!RemoveSplit(g)
  PROVE  Goes
  <1>1. SplitInv
    BY DEF ChartInv
  <1>2. /\ split' = [x \in DOMAIN split \ {g} |-> split[x]] /\ calls' = DV!Without({"split"})
        /\ view' = view /\ pinned' = pinned /\ result' = result /\ fetching' = fetching /\ clock' = clock
        /\ exact' = exact
    BY DEF DV!RemoveSplit
  <1>3. \A c \in calls' : c \in calls /\ c.kind # "split"
    BY <1>2, WithoutIs
  <1>4. SplitInv' /\ DV!SplitRowsStep
    <2>1. DOMAIN split' \subseteq Tags /\ split' \in [DOMAIN split' -> Charts]
      BY <1>1, <1>2 DEF SplitInv
    <2>2. QED
      BY <1>2, <1>3, <2>1 DEF SplitInv, DV!SplitRowsStep
  <1>5. QED
    BY <1>2, <1>3, <1>4, ChartStep

LEMMA ApplySplitStep ==
  ASSUME ChartInv, NEW g \in Tags, NEW k \in {"now", "last"}, DV!ApplySplit(g, DV!Rel(k))
  PROVE  Goes
  <1>1. SplitInv /\ clock \in Nat
    BY DEF ChartInv, GridInv, GridTyped
  <1>2. PICK ranges, new : ranges = [x \in {g} |-> DV!Rel(k)] /\ new = DV!SplitCall({g}, {}, ranges, DV!NoWins)
    OBVIOUS
  <1>3. /\ calls' = DV!Without({"split"}) \cup {new} /\ split' = split
        /\ view' = view /\ pinned' = pinned /\ result' = result /\ fetching' = fetching /\ clock' = clock
        /\ exact' = exact
    BY <1>2 DEF DV!ApplySplit
  <1>4. DV!NoWins[g] = DV!None /\ ranges[g] \in Ranges
    BY <1>2, RelFits DEF DV!NoWins
  <1>5. Charting(new)' /\ new.kind = "split"
    BY <1>1, <1>2, <1>4, OneChart
  <1>6. \A c \in calls' : c = new \/ (c \in calls /\ c.kind # "split")
    BY <1>3, WithoutIs
  <1>7. SplitInv'
    BY <1>1, <1>3, <1>5, <1>6, SplitNew DEF SplitInv
  <1>8. DV!SplitRowsStep
    BY <1>3 DEF DV!SplitRowsStep
  <1>9. QED
    BY <1>3, <1>5, <1>6, <1>7, <1>8, ChartStep

\* A chart that keeps its rows while its window moves.
LEMMA MovedChart ==
  ASSUME NEW s \in Charts, NEW w \in Wins
  PROVE  /\ [s EXCEPT !.range = DV!Abs(w), !.win = w] \in Charts
         /\ [s EXCEPT !.range = DV!Abs(w), !.win = w].win = w
         /\ [s EXCEPT !.range = DV!Abs(w), !.win = w].rows = s.rows
  <1>1. PICK x, r : x = [s EXCEPT !.range = r, !.win = w] /\ r = DV!Abs(w)
    OBVIOUS
  <1>2. x = [range |-> r, win |-> w, rows |-> s.rows]
    BY <1>1 DEF Charts
  <1>3. r \in Ranges
    BY <1>1 DEF DV!Abs, Ranges
  <1>4. x \in Charts /\ x.win = w /\ x.rows = s.rows
    BY <1>2, <1>3 DEF Charts
  <1>5. QED
    BY <1>1, <1>4

LEMMA ShiftSplitStep ==
  ASSUME ChartInv, NEW g \in Tags, NEW d \in {-1, 1}, DV!ShiftSplit(g, d)
  PROVE  Goes
  <1>1. SplitInv /\ clock \in Nat /\ pinned \in Pins /\ g \in DOMAIN split /\ split[g] \in Charts
    BY DEF ChartInv, GridInv, GridTyped, SplitInv, DV!ShiftSplit
  <1>2. PICK w0, w : w0 = (IF split[g].win = DV!None THEN DV!Win(pinned.from, pinned.to) ELSE split[g].win)
                     /\ w = DV!Win(w0.from + d, w0.to + d)
    OBVIOUS
  <1>3. PICK s, wins, new : /\ s = [split[g] EXCEPT !.range = DV!Abs(w), !.win = w]
                            /\ wins = [DV!NoWins EXCEPT ![g] = w] /\ new = DV!SplitCall({g}, {}, DV!NoWins, wins)
    OBVIOUS
  <1>4. /\ split' = [split EXCEPT ![g] = s] /\ calls' = DV!Without({"split"}) \cup {new}
        /\ view' = view /\ pinned' = pinned /\ result' = result /\ fetching' = fetching /\ clock' = clock
        /\ exact' = exact
    BY <1>2, <1>3 DEF DV!ShiftSplit
  <1>5. w \in Wins
    <2>1. w0 \in Wins
      BY <1>1, <1>2 DEF Charts, Pins, DV!Win, Wins
    <2>2. QED
      BY <1>2, <2>1 DEF DV!Win, Wins
  <1>6. s \in Charts /\ s.win = w /\ s.rows = split[g].rows
    BY <1>1, <1>3, <1>5, MovedChart
  <1>7. DOMAIN split' = DOMAIN split /\ split'[g] = s /\ \A x \in DOMAIN split : x # g => split'[x] = split[x]
    BY <1>1, <1>4 DEF SplitInv
  <1>8. wins[g] = w
    BY <1>3 DEF DV!NoWins
  <1>9. Charting(new)' /\ new.kind = "split"
    <2>1. wins[g] \in Wins /\ g \in DOMAIN split' /\ split'[g].win = wins[g]
      BY <1>1, <1>5, <1>6, <1>7, <1>8
    <2>2. QED
      BY <1>1, <1>3, <2>1, OneChart
  <1>10. \A c \in calls' : c = new \/ (c \in calls /\ c.kind # "split")
    BY <1>4, WithoutIs
  <1>11. SplitInv'
    <2>1. DOMAIN split' \subseteq Tags /\ split' \in [DOMAIN split' -> Charts]
      BY <1>1, <1>4, <1>6 DEF SplitInv
    <2>2. QED
      BY <1>9, <1>10, <2>1, SplitNew
  <1>12. DV!SplitRowsStep
    BY <1>6, <1>7 DEF DV!SplitRowsStep
  <1>13. QED
    BY <1>4, <1>9, <1>10, <1>11, <1>12, ChartStep

LEMMA GlobalTimeStep ==
  ASSUME ChartInv, NEW g \in Tags, DV!GlobalTime(g)
  PROVE  Goes
  <1>1. GridInv /\ SplitInv /\ clock \in Nat /\ view \in GridViews /\ pinned \in Pins
    BY DEF ChartInv, GridInv, GridTyped
  <1>2. PICK w : w = IF g \in DOMAIN split /\ split[g].win # DV!None THEN split[g].win ELSE DV!Win(pinned.from, pinned.to)
    OBVIOUS
  <1>3. PICK s, wins, new, others : /\ s = [range |-> DV!Abs(w), win |-> w, rows |-> DV!Cleared] /\ wins = [x \in Tags |-> w]
                                    /\ new = DV!SplitCall(DOMAIN split, {}, DV!NoWins, wins)
                                    /\ others = DV!Without({"rows", "end", "split"}) \cup {new}
    OBVIOUS
  <1>4. w \in Wins
    <2>1. CASE g \in DOMAIN split /\ split[g].win # DV!None
      <3>1. split[g] \in Charts
        BY <1>1, <2>1 DEF SplitInv
      <3>2. QED
        BY <1>2, <2>1, <3>1 DEF Charts
    <2>2. CASE ~(g \in DOMAIN split /\ split[g].win # DV!None)
      BY <1>1, <1>2, <2>2 DEF Pins, DV!Win, Wins
    <2>3. QED
      BY <2>1, <2>2
  <1>5. DV!Abs(w) \in Ranges
    BY <1>4 DEF DV!Abs, Ranges
  <1>6. PICK u \in GridViews : [DV!Reset(view) EXCEPT !.range = DV!Abs(w)] = DV!Reset(u)
    BY <1>1, <1>5, ResetRange
  <1>7. DV!Render(DV!Reset(u), TRUE, others) /\ split' = [x \in DOMAIN split |-> s] /\ clock' = clock
    BY <1>2, <1>3, <1>6 DEF DV!GlobalTime
  <1>8. Proper(DV!Reset(u), TRUE) /\ DV!Reset(u).req.cursor = DV!None /\ ~DV!Bounded(DV!Reset(u).req)
    BY ResetProper
  <1>9. new = [kind |-> "split", groups |-> DOMAIN split, rest |-> {}, ranges |-> DV!NoWins, wins |-> wins, now |-> clock]
    BY <1>3 DEF DV!SplitCall
  <1>10. \A c \in others : /\ c.kind \notin {"rows", "end"} /\ (c \in calls \/ c.kind = "split")
                           /\ c.kind = "split" => c = new
    BY <1>3, <1>9, WithoutIs
  <1>11. /\ GridInv' /\ (ExactInv => ExactInv')
         /\ \A c \in calls' : c.kind = "split" => c \in others
    BY <1>1, <1>7, <1>8, <1>10, RenderFresh
  <1>12. DOMAIN split' = DOMAIN split /\ \A x \in DOMAIN split : split'[x] = s
    BY <1>7
  <1>13. DOMAIN split \subseteq Tags /\ \A x \in DOMAIN split : wins[x] = w
    BY <1>1, <1>3 DEF SplitInv
  <1>14. Charting(new)'
    <2>1. /\ new = [kind |-> "split", groups |-> new.groups, rest |-> new.rest, ranges |-> new.ranges, wins |-> new.wins, now |-> new.now]
          /\ new.groups = DOMAIN split /\ new.rest = {} /\ new.wins = wins /\ new.now = clock
      BY <1>9
    <2>2. w # DV!None
      BY <1>4, AWindow
    <2>3. s.win = w
      BY <1>3
    <2>4. QED
      BY <1>1, <1>4, <1>12, <1>13, <2>1, <2>2, <2>3 DEF Charting
  <1>15. SplitInv'
    <2>1. s \in Charts
      BY <1>3, <1>4, <1>5 DEF Charts
    <2>2. DOMAIN split' \subseteq Tags /\ split' \in [DOMAIN split' -> Charts]
      BY <1>7, <1>13, <2>1
    <2>3. QED
      BY <1>9, <1>10, <1>11, <1>14, <2>2, SplitNew
  <1>16. DV!SplitRowsStep
    <2>1. s.rows = DV!Cleared
      BY <1>3
    <2>2. QED
      BY <1>12, <2>1 DEF DV!SplitRowsStep
  <1>17. QED
    BY <1>11, <1>15, <1>16 DEF Goes, ChartInv

LEMMA SplitAnswerStep ==
  ASSUME ChartInv, NEW c \in calls, NEW ok \in BOOLEAN, DV!SplitAnswer(c, ok)
  PROVE  Goes
  <1>1. GridInv /\ SplitInv /\ DV!ConstantsFit /\ c.kind = "split" /\ Charting(c)
    BY DEF ChartInv, GridInv, DV!SplitAnswer, SplitInv
  <1>2. PICK w, next : /\ w = [g \in Tags |-> IF c.wins[g] # DV!None THEN c.wins[g] ELSE DV!Resolve(c.ranges[g], {g}, c.now)]
                       /\ next = [c EXCEPT !.groups = {DV!Lowest(c.rest)}, !.rest = @ \ {DV!Lowest(c.rest)}]
    OBVIOUS
  <1>3. DOMAIN split \subseteq Tags /\ \A g \in DOMAIN split : split[g] \in Charts
    BY <1>1 DEF SplitInv
  <1>4. /\ calls' = (calls \ {c}) \cup (IF ok /\ c.rest # {} THEN {next} ELSE {})
        /\ view' = view /\ pinned' = pinned /\ result' = result /\ fetching' = fetching /\ clock' = clock
        /\ exact' = exact
    BY <1>2 DEF DV!SplitAnswer
  <1>5. /\ ~ok => split' = split
        /\ ok => split' = [g \in DOMAIN split |->
                             IF g \notin c.groups \/ w[g] = DV!NoWin THEN split[g]
                             ELSE IF c.wins[g] # DV!None THEN [split[g] EXCEPT !.rows = w[g]]
                             ELSE [range |-> c.ranges[g], win |-> w[g], rows |-> w[g]]]
    <2>1. \A g \in DOMAIN split : w[g] = IF c.wins[g] # DV!None THEN c.wins[g] ELSE DV!Resolve(c.ranges[g], {g}, c.now)
      BY <1>2, <1>3
    <2>2. QED
      BY <2>1 DEF DV!SplitAnswer
  <1>6. \A g \in DOMAIN split : g \in c.groups =>
          /\ w[g] \in Wins
          /\ c.wins[g] # DV!None => w[g] = c.wins[g] /\ split[g].win = w[g]
          /\ c.wins[g] = DV!None => c.ranges[g] \in Ranges
    <2>1. ASSUME NEW g \in DOMAIN split, g \in c.groups
          PROVE  /\ w[g] \in Wins
                 /\ c.wins[g] # DV!None => w[g] = c.wins[g] /\ split[g].win = w[g]
                 /\ c.wins[g] = DV!None => c.ranges[g] \in Ranges
      <3>1. /\ c.wins[g] = DV!None => c.ranges[g] \in Ranges
            /\ c.wins[g] # DV!None => c.wins[g] \in Wins /\ split[g].win = c.wins[g]
            /\ c.now \in Nat
        BY <1>1, <2>1 DEF Charting
      <3>2. w[g] = IF c.wins[g] # DV!None THEN c.wins[g] ELSE DV!Resolve(c.ranges[g], {g}, c.now)
        BY <1>2, <1>3
      <3>3. c.wins[g] = DV!None => w[g] \in Wins
        BY <1>1, <3>1, <3>2, ResolveFits
      <3>4. QED
        BY <3>1, <3>2, <3>3
    <2>2. QED
      BY <2>1
  <1>7. DOMAIN split' = DOMAIN split
    BY <1>5
  <1>8. \A g \in DOMAIN split :
          \/ split'[g] = split[g]
          \/ /\ split'[g] \in Charts /\ split'[g].rows = split'[g].win
             /\ c.wins[g] # DV!None => split'[g].win = split[g].win
    <2>1. ASSUME NEW g \in DOMAIN split, ok, g \in c.groups, w[g] # DV!NoWin
          PROVE  /\ split'[g] \in Charts /\ split'[g].rows = split'[g].win
                 /\ c.wins[g] # DV!None => split'[g].win = split[g].win
      <3>1. split[g] \in Charts /\ w[g] \in Wins
        BY <1>3, <1>6, <2>1
      <3>2. CASE c.wins[g] # DV!None
        <4>1. PICK s, x : s = [split[g] EXCEPT !.rows = x] /\ x = w[g]
          OBVIOUS
        <4>2. split'[g] = s
          BY <1>5, <2>1, <3>2, <4>1
        <4>3. s = [range |-> split[g].range, win |-> split[g].win, rows |-> x]
          BY <3>1, <4>1 DEF Charts
        <4>4. split[g].win = x
          BY <1>6, <2>1, <3>2, <4>1
        <4>5. s \in Charts /\ s.rows = s.win /\ s.win = split[g].win
          BY <3>1, <4>1, <4>3, <4>4 DEF Charts
        <4>6. QED
          BY <4>2, <4>5
      <3>3. CASE c.wins[g] = DV!None
        <4>1. PICK s : s = [range |-> c.ranges[g], win |-> w[g], rows |-> w[g]]
          OBVIOUS
        <4>2. split'[g] = s
          BY <1>5, <2>1, <3>3, <4>1
        <4>3. c.ranges[g] \in Ranges
          BY <1>6, <2>1, <3>3
        <4>4. s \in Charts /\ s.rows = s.win
          BY <3>1, <4>1, <4>3 DEF Charts
        <4>5. QED
          BY <3>3, <4>2, <4>4
      <3>4. QED
        BY <3>2, <3>3
    <2>2. ASSUME NEW g \in DOMAIN split, ~ok \/ g \notin c.groups \/ w[g] = DV!NoWin PROVE split'[g] = split[g]
      BY <1>5, <2>2
    <2>3. QED
      BY <2>1, <2>2
  <1>9. DV!SplitRowsStep
    BY <1>7, <1>8 DEF DV!SplitRowsStep
  <1>10. next.kind = "split" /\ (c.rest # {} => Charting(next)')
    <2>1. PICK lo, rest : lo = DV!Lowest(c.rest) /\ rest = c.rest \ {lo}
      OBVIOUS
    <2>2. c = [kind |-> "split", groups |-> c.groups, rest |-> c.rest, ranges |-> c.ranges, wins |-> c.wins, now |-> c.now]
      BY <1>1 DEF Charting
    <2>3. next = [kind |-> "split", groups |-> {lo}, rest |-> rest, ranges |-> c.ranges, wins |-> c.wins, now |-> c.now]
      <3>1. PICK k, gs, rs, ra, wi, no : c = [kind |-> k, groups |-> gs, rest |-> rs, ranges |-> ra, wins |-> wi, now |-> no]
        BY <2>2
      <3>2. PICK one, left : one = {lo} /\ left = c.rest \ {lo}
        OBVIOUS
      <3>3. PICK mid : mid = [c EXCEPT !.groups = one]
        OBVIOUS
      <3>5. mid = [kind |-> k, groups |-> one, rest |-> rs, ranges |-> ra, wins |-> wi, now |-> no]
        BY <3>1, <3>3
      <3>6. next = [mid EXCEPT !.rest = left]
        BY <1>2, <2>1, <3>2, <3>3
      <3>7. [mid EXCEPT !.rest = left]
              = [kind |-> k, groups |-> one, rest |-> left, ranges |-> ra, wins |-> wi, now |-> no]
        BY <3>5
      <3>4. QED
        <4>1. k = "split" /\ rs = c.rest /\ ra = c.ranges /\ wi = c.wins /\ no = c.now
          BY <1>1, <3>1
        <4>2. QED
          BY <2>1, <3>2, <3>6, <3>7, <4>1
    <2>4. /\ next = [kind |-> "split", groups |-> next.groups, rest |-> next.rest, ranges |-> next.ranges, wins |-> next.wins, now |-> next.now]
          /\ next.kind = "split" /\ next.groups = {lo} /\ next.rest = rest /\ next.ranges = c.ranges /\ next.wins = c.wins /\ next.now = c.now
      BY <2>3
    <2>5. ASSUME c.rest # {} PROVE Charting(next)'
      <3>1. c.rest \subseteq Tags /\ c.now \in Nat /\ \A g \in c.rest : c.wins[g] = DV!None /\ c.ranges[g] \in Ranges
        BY <1>1 DEF Charting
      <3>2. lo \in c.rest
        BY <1>1, <2>1, <2>5, <3>1, LowestIs DEF DV!ConstantsFit
      <3>3. lo \in Tags /\ rest \subseteq Tags /\ rest \subseteq c.rest
        BY <2>1, <3>1, <3>2
      <3>4. QED
        BY <2>4, <3>1, <3>2, <3>3 DEF Charting
    <2>6. QED
      BY <2>4, <2>5
  <1>11. \A x \in calls' : (x \in calls /\ x.kind # "split") \/ (x = next /\ c.rest # {})
    <2>1. \A x \in calls : x.kind = "split" => x = c
      BY <1>1 DEF SplitInv
    <2>2. QED
      BY <1>4, <2>1
  <1>12. SplitInv'
    <2>1. DOMAIN split' \subseteq Tags /\ split' \in [DOMAIN split' -> Charts]
      <3>1. \A g \in DOMAIN split' : split'[g] \in Charts
        BY <1>3, <1>7, <1>8
      <3>2. split' = [g \in DOMAIN split' |-> split'[g]]
        BY <1>1, <1>5, <1>7 DEF SplitInv
      <3>3. QED
        BY <1>3, <1>7, <3>1, <3>2
    <2>2. CASE c.rest # {}
      BY <1>10, <1>11, <2>1, <2>2, SplitNew
    <2>3. CASE c.rest = {}
      BY <1>11, <2>1, <2>3 DEF SplitInv
    <2>4. QED
      BY <2>2, <2>3
  <1>13. \A x \in calls' : x \in calls \/ x.kind = "split"
    BY <1>10, <1>11
  <1>14. QED
    BY <1>4, <1>9, <1>12, <1>13, ChartStep

-----------------------------------------------------------------------------
(* Every step                                                                *)

LEMMA AdvanceStep ==
  ASSUME ChartInv, DV!Advance
  PROVE  Goes
  <1>1. GridInv /\ SplitInv /\ clock' \in Nat
    BY DEF ChartInv, GridInv, DV!ConstantsFit, DV!Advance
  <1>2. /\ view' = view /\ pinned' = pinned /\ result' = result /\ fetching' = fetching /\ calls' = calls
        /\ split' = split /\ exact' = exact
    BY DEF DV!Advance
  <1>3. GridInv' /\ (ExactInv => ExactInv') /\ SplitInv' /\ DV!SplitRowsStep
    BY <1>1, <1>2, GridStays, SplitStays
  <1>4. QED
    BY <1>3 DEF Goes, ChartInv

LEMMA StillStep ==
  ASSUME ChartInv, UNCHANGED DV!vars
  PROVE  Goes
  <1>1. GridInv /\ SplitInv /\ clock \in Nat
    BY DEF ChartInv, GridInv, GridTyped
  <1>2. /\ view' = view /\ pinned' = pinned /\ result' = result /\ fetching' = fetching /\ calls' = calls
        /\ split' = split /\ exact' = exact /\ clock' = clock
    BY DEF DV!vars
  <1>3. GridInv' /\ (ExactInv => ExactInv') /\ SplitInv' /\ DV!SplitRowsStep
    BY <1>1, <1>2, GridStays, SplitStays
  <1>4. QED
    BY <1>3 DEF Goes, ChartInv

LEMMA ChartInit ==
  ASSUME DV!ConstantsFit, DV!Init
  PROVE  ChartInv /\ (DV!WholeMilliseconds => ExactInv)
  <1>1. PICK now, n : now = DV!Rel("now") /\ n = DV!Lowest(PerTag)
    OBVIOUS
  <1>2. now \in Ranges /\ now.kind = "now" /\ n \in PerTag
    BY <1>1, RelFits, LowestIs DEF DV!ConstantsFit, DV!Rel
  <1>3. clock \in Nat /\ Span \in Nat
    BY LowestIs DEF DV!Init, DV!ConstantsFit
  <1>4. view = [sel |-> {}, range |-> now, token |-> 0, page |-> 1, req |-> DV!PlainPage(1),
                bounds |-> DV!None, back |-> TRUE, rpt |-> n]
    BY <1>1 DEF DV!Init
  <1>5. DV!PlainPage(1) \in Asks /\ DV!PlainPage(1).page = 1 /\ ~DV!Bounded(DV!PlainPage(1)) /\ DV!PlainPage(1).cursor = DV!None
    BY PlainFits
  <1>6. /\ view \in GridViews /\ view.req = DV!PlainPage(1) /\ view.page = 1 /\ view.bounds = DV!None
        /\ view.range = now /\ view.token = 0 /\ view.sel = {}
    BY <1>2, <1>4, <1>5 DEF GridViews
  <1>7. pinned = [key |-> DV!PinKey(view), from |-> clock - Span, to |-> clock + 1]
    BY <1>1, <1>4 DEF DV!Init
  <1>8. DV!PinKey(view) = [range |-> now, token |-> 0, anchor |-> {}]
    BY <1>2, <1>6 DEF DV!PinKey
  <1>9. pinned \in Pins /\ pinned.key = DV!PinKey(view) /\ pinned.key.range.kind = "now"
    BY <1>2, <1>3, <1>7, <1>8 DEF Pins, Keys
  <1>10. fetching = FALSE /\ calls = {} /\ split = [g \in {} |-> DV!NoSplit] /\ result.st = "empty"
    BY DEF DV!Init
  <1>11. GridTyped
    BY <1>3, <1>5, <1>6, <1>9, <1>10 DEF GridTyped
  <1>12. Fetching /\ Showing /\ ShownBounds /\ GridAsking
    BY <1>6, <1>10 DEF Fetching, Showing, ShownBounds, GridAsking, DV!Settled
  <1>13. Window /\ OfData(pinned)
    BY <1>5, <1>6, <1>9 DEF Window, InWindow, OfData
  <1>14. SplitInv
    BY <1>10 DEF SplitInv
  <1>15. DV!WholeMilliseconds => ExactInv
    BY <1>5, <1>6, <1>10 DEF ExactInv, Turned
  <1>16. QED
    BY <1>11, <1>12, <1>13, <1>14, <1>15 DEF ChartInv, GridInv

LEMMA ChartNext ==
  ASSUME ChartInv, [DV!Next]_DV!vars
  PROVE  Goes
  <1>1. CASE UNCHANGED DV!vars
    BY <1>1, StillStep
  <1>2. CASE DV!TagsLoaded
    BY <1>2, TagsLoadedStep
  <1>3. CASE DV!Advance
    BY <1>3, AdvanceStep
  <1>4. ASSUME NEW g \in Tags, DV!Toggle(g) \/ DV!CreateSplit(g) \/ DV!RemoveSplit(g) \/ DV!GlobalTime(g) PROVE Goes
    BY <1>4, ToggleStep, CreateSplitStep, RemoveSplitStep, GlobalTimeStep
  <1>5. ASSUME NEW p \in 1..MaxPage, DV!MovePage(p) PROVE Goes
    <2>1. p \in Nat \ {0}
      BY <1>5 DEF ChartInv, GridInv, DV!ConstantsFit
    <2>2. QED
      BY <1>5, <2>1, MovePageStep
  <1>6. ASSUME NEW d \in {-1, 1}, DV!ShiftMain(view.page + d) PROVE Goes
    BY <1>6, ShiftMainStep
  <1>7. ASSUME NEW n \in PerTag, DV!RowsPerTag(n) PROVE Goes
    BY <1>7, RowsPerTagStep
  <1>8. ASSUME NEW b \in BOOLEAN, DV!ScanDirection(b) PROVE Goes
    BY <1>8, ScanDirectionStep
  <1>9. ASSUME NEW k \in {"now", "last"}, DV!ApplyRange(DV!Rel(k)) PROVE Goes
    BY <1>9, ApplyRangeStep
  <1>10. ASSUME NEW k \in {"now", "last"}, NEW g \in Tags, DV!ApplySplit(g, DV!Rel(k)) PROVE Goes
    BY <1>10, ApplySplitStep
  <1>11. ASSUME NEW g \in Tags, NEW d \in {-1, 1}, DV!ShiftSplit(g, d) PROVE Goes
    BY <1>11, ShiftSplitStep
  <1>12. CASE DV!Refresh \/ DV!EndPage
    BY <1>12, RefreshGridStep, EndPageStep
  <1>13. ASSUME NEW c \in calls, NEW ok \in BOOLEAN,
                DV!PinAnswer(c, ok) \/ DV!RowsAnswer(c, ok) \/ DV!EndAnswer(c, ok) \/ DV!SplitAnswer(c, ok)
         PROVE  Goes
    BY <1>13, PinAnswerStep, RowsAnswerStep, EndAnswerStep, SplitAnswerStep
  <1>14. CASE DV!User
    BY <1>4, <1>5, <1>6, <1>7, <1>8, <1>9, <1>10, <1>11, <1>12, <1>14 DEF DV!User
  <1>15. CASE DV!Answer
    BY <1>13, <1>15 DEF DV!Answer
  <1>16. QED
    BY <1>1, <1>2, <1>3, <1>14, <1>15 DEF DV!Next

LEMMA ShownThere ==
  ASSUME ChartInv
  PROVE  DV!ShownInStep
  <1>1. SUFFICES ASSUME DV!Settled
                 PROVE  /\ result.q.names = view.sel /\ result.q.back = view.back
                        /\ result.q.size = DV!PageSize(view.sel, view.rpt)
                        /\ pinned.key = DV!PinKey(view)
                        /\ pinned.from <= result.q.from /\ result.q.to <= pinned.to
    BY DEF DV!ShownInStep
  <1>2. Current(result.q) /\ InWindow(view, pinned) /\ pinned \in Pins
    BY <1>1 DEF ChartInv, GridInv, Showing, Window, GridTyped
  <1>3. result.q = DV!Query(view, pinned) /\ pinned.key = DV!PinKey(view)
    BY <1>2 DEF Current
  <1>4. /\ result.q.names = view.sel /\ result.q.back = view.back /\ result.q.size = DV!PageSize(view.sel, view.rpt)
        /\ result.q.from = IF DV!Bounded(view.req) THEN view.req.win.from ELSE pinned.from
        /\ result.q.to = IF DV!Bounded(view.req) THEN view.req.win.to ELSE pinned.to
    BY <1>3 DEF DV!Query
  <1>5. pinned.from <= result.q.from /\ result.q.to <= pinned.to
    <2>1. CASE DV!Bounded(view.req)
      BY <1>2, <1>4, <2>1 DEF InWindow
    <2>2. CASE ~DV!Bounded(view.req)
      BY <1>2, <1>4, <2>2 DEF Pins
    <2>3. QED
      BY <2>1, <2>2
  <1>6. QED
    BY <1>3, <1>4, <1>5

LEMMA NewestThere ==
  ASSUME ChartInv
  PROVE  DV!NewestRowShown
  <1>1. SUFFICES ASSUME DV!Settled, view.range.kind = "last", view.page = 1, view.back, view.req = DV!PlainPage(1),
                        ~(\A r \in Table : r.tag \notin view.sel)
                 PROVE  \E first \in DV!PageRows(result.q) :
                          /\ \A r \in DV!PageRows(result.q) : ~DV!Precedes(result.q.back, r, first)
                          /\ \A r \in Table : r.tag \in view.sel => r.t <= first.t
    BY DEF DV!NewestRowShown
  <1>2. /\ Current(result.q) /\ pinned \in Pins /\ view \in GridViews /\ OfData(pinned) /\ DV!ConstantsFit
        /\ Tick \in Nat \ {0} /\ Span \in Nat /\ \A r \in Table : r.t \in Nat
    BY <1>1 DEF ChartInv, GridInv, Showing, GridTyped, DV!ConstantsFit
  <1>3. /\ result.q = DV!Query(view, pinned) /\ pinned.key = DV!PinKey(view) /\ pinned.from # DV!NoTime
        /\ DV!PinKey(view).range = view.range /\ DV!PinKey(view).anchor = view.sel
    BY <1>1, <1>2 DEF Current, DV!PinKey
  <1>4. PICK base : base = DV!Latest(view.sel) /\ base # DV!NoTime /\ pinned.from = base - Span /\ pinned.to = base + 1
    BY <1>1, <1>2, <1>3 DEF OfData
  <1>5. PICK r \in Table : /\ r.tag \in view.sel /\ base = r.t \div Tick
                           /\ \A s \in Table : s.tag \in view.sel => s.t <= r.t
    BY <1>2, <1>4, LatestFits
  <1>6. base \in Nat /\ base * Tick <= r.t /\ r.t < base * Tick + Tick
    BY <1>2, <1>5, Cut
  <1>7. PICK S, size : S = DV!Match(view.sel, pinned.from, pinned.to) /\ size = DV!PageSize(view.sel, view.rpt)
    OBVIOUS
  <1>8. r \in S
    <2>1. (base - Span) * Tick <= base * Tick /\ base * Tick + Tick <= (base + 1) * Tick
      <3>1. base - Span \in Int /\ base - Span <= base /\ base + 1 \in Int /\ base < base + 1
        BY <1>2, <1>6
      <3>2. QED
        BY <1>2, <1>6, <3>1, Monotone
    <2>2. (base - Span) * Tick \in Int /\ base * Tick \in Int /\ (base + 1) * Tick \in Int
      BY <1>2, <1>6
    <2>3. pinned.from * Tick <= r.t /\ r.t <= pinned.to * Tick
      <3>1. (base - Span) * Tick <= r.t /\ r.t <= (base + 1) * Tick
        BY <1>2, <1>5, <1>6, <2>1, <2>2
      <3>2. QED
        BY <1>4, <3>1
    <2>4. QED
      BY <1>5, <1>7, <2>3 DEF DV!Match
  <1>9. S \in SUBSET RowSet /\ S \in SUBSET Table /\ IsFiniteSet(S) /\ \A s \in S : s.tag \in view.sel
    <2>1. S \in SUBSET RowSet /\ S \in SUBSET Table /\ IsFiniteSet(S)
      BY <1>2, <1>7, MatchFits
    <2>2. \A s \in S : s.tag \in view.sel
      BY <1>7 DEF DV!Match
    <2>3. QED
      BY <2>1, <2>2
  <1>10. PICK first \in S : \A s \in S : ~DV!Precedes(TRUE, s, first)
    BY <1>8, <1>9, EndRows
  <1>11. DV!Before(TRUE, first, S) = 0
    <2>1. {s \in S : DV!Precedes(TRUE, s, first)} = {}
      BY <1>10
    <2>2. QED
      BY <2>1, FS_EmptySet, SameSize DEF DV!Before
  <1>12. size \in Nat \ {0}
    BY <1>2, <1>7, SizeFits
  <1>13. PICK q : q = result.q
    OBVIOUS
  <1>14. /\ q.names = view.sel /\ q.from = pinned.from /\ q.to = pinned.to /\ q.size = size /\ q.page = 1
         /\ ~q.bounded /\ q.cursor = DV!None
    <2>1. ~DV!Bounded(view.req) /\ view.req.cursor = DV!None /\ view.req.page = 1
      BY <1>1, PlainFits
    <2>2. QED
      BY <1>3, <1>7, <1>13, <2>1 DEF DV!Query
  <1>15. q.back = view.back /\ view.back = TRUE
    BY <1>1, <1>2, <1>3, <1>13 DEF DV!Query, GridViews
  <1>16. DV!PageRows(q) = DV!Numbered(TRUE, S, size, 1)
    BY <1>7, <1>14, <1>15 DEF DV!PageRows
  <1>17. first \in DV!PageRows(q)
    <2>1. (1 - 1) * size = 0 /\ 1 * size = size
      BY <1>12
    <2>2. DV!Before(TRUE, first, S) \in (1 - 1) * size .. 1 * size - 1
      <3>1. 0 \in 0..size - 1
        BY <1>12
      <3>2. QED
        BY <1>11, <2>1, <3>1
    <2>3. QED
      BY <1>16, <2>2 DEF DV!Numbered
  <1>18. DV!PageRows(q) \subseteq S
    BY <1>16 DEF DV!Numbered
  <1>19. \A s \in Table : s.tag \in view.sel => s.t <= first.t
    <2>1. r.t \in Nat /\ first.t \in Nat /\ r.tag \in Nat /\ first.tag \in Nat
      BY <1>2, <1>8, <1>9, <1>10 DEF RowSet
    <2>2. r.t <= first.t
      <3>1. ~DV!Precedes(TRUE, r, first)
        BY <1>8, <1>10
      <3>2. QED
        BY <2>1, <3>1 DEF DV!Precedes
    <2>3. QED
      BY <1>2, <1>5, <2>1, <2>2
  <1>20. \A s \in DV!PageRows(q) : ~DV!Precedes(q.back, s, first)
    BY <1>10, <1>15, <1>18
  <1>21. QED
    BY <1>13, <1>17, <1>19, <1>20

LEMMA PageThere ==
  ASSUME ChartInv, ExactInv
  PROVE  DV!PageIsThatPage
  <1>1. SUFFICES ASSUME DV!Settled, exact, ~DV!Bounded(view.req)
                 PROVE  DV!PageRows(result.q) = DV!PageRows([result.q EXCEPT !.cursor = DV!None, !.page = view.page])
    BY DEF DV!PageIsThatPage
  <1>2. DV!PageRows(result.q) = Slice(view, pinned, view.page) /\ result.q = DV!Query(view, pinned)
    BY <1>1, ShownPage
  <1>3. PICK q : q = [result.q EXCEPT !.cursor = DV!None, !.page = view.page]
    OBVIOUS
  <1>4. /\ q.names = view.sel /\ q.back = view.back /\ q.size = DV!PageSize(view.sel, view.rpt)
        /\ q.from = pinned.from /\ q.to = pinned.to /\ q.page = view.page /\ q.cursor = DV!None /\ ~q.bounded
    BY <1>1, <1>2, <1>3 DEF DV!Query
  <1>5. PICK p : p = Plain(view, pinned, view.page)
    OBVIOUS
  <1>6. /\ p.names = view.sel /\ p.back = view.back /\ p.size = DV!PageSize(view.sel, view.rpt)
        /\ p.from = pinned.from /\ p.to = pinned.to /\ p.page = view.page /\ p.cursor = DV!None /\ ~p.bounded
    BY <1>5 DEF Plain
  <1>7. DV!PageRows(q) = DV!PageRows(p)
    BY <1>4, <1>6 DEF DV!PageRows
  <1>8. QED
    BY <1>2, <1>3, <1>5, <1>7 DEF Slice

-----------------------------------------------------------------------------
(* The theorems                                                              *)

(* Once loaded, the grid shows rows that answer the inputs of the moment,    *)
(* whatever was asked and answered meanwhile (fetchRows, the pin effect), in *)
(* the window that its caption names; page 1 of a last-* window, newest      *)
(* first, begins with the newest row that the selected Tags have.            *)
THEOREM GridShowsItsWindow == DV!ConstantsFit /\ DV!Spec => [](DV!ShownInStep /\ DV!NewestRowShown)
  <1>1. DV!ConstantsFit /\ DV!Init => ChartInv
    BY ChartInit
  <1>2. ChartInv /\ [DV!Next]_DV!vars => ChartInv'
    BY ChartNext DEF Goes
  <1>3. ChartInv => DV!ShownInStep /\ DV!NewestRowShown
    BY ShownThere, NewestThere
  <1>4. QED
    BY <1>1, <1>2, <1>3, PTL DEF DV!Spec

(* For rows of whole milliseconds: the page labelled p is the p-th slice of  *)
(* the window, also when it was found by the cursor of its neighbour or by   *)
(* the total (buildDataViewerRawPageRequest, opcuaPage, handleEndPage).      *)
THEOREM PagesAreThosePages == DV!ConstantsFit /\ DV!WholeMilliseconds /\ DV!Spec => []DV!PageIsThatPage
  <1>1. DV!ConstantsFit /\ DV!WholeMilliseconds /\ DV!Init => ChartInv /\ ExactInv
    BY ChartInit
  <1>2. ChartInv /\ ExactInv /\ [DV!Next]_DV!vars => (ChartInv /\ ExactInv)'
    BY ChartNext DEF Goes
  <1>3. ChartInv /\ ExactInv => DV!PageIsThatPage
    BY PageThere
  <1>4. QED
    BY <1>1, <1>2, <1>3, PTL DEF DV!Spec

(* Rows that land in a split chart are those of the window that it shows:    *)
(* of all requests for charts one counts, and it was made for that window.   *)
THEOREM ChartsShowTheirWindow == DV!ConstantsFit /\ DV!Spec => DV!SplitRowsInStep
  <1>1. DV!ConstantsFit /\ DV!Init => ChartInv
    BY ChartInit
  <1>2. ChartInv /\ [DV!Next]_DV!vars => ChartInv'
    BY ChartNext DEF Goes
  <1>3. ChartInv /\ [DV!Next]_DV!vars => [DV!SplitRowsStep]_DV!vars
    BY ChartNext DEF Goes
  <1>4. QED
    BY <1>1, <1>2, <1>3, PTL DEF DV!Spec, DV!SplitRowsInStep
=============================================================================
