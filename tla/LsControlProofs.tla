--------------------------- MODULE LsControlProofs ---------------------------
(***************************************************************************)
(* Proofs about LsControl for any set of Jobs, any number of requests and  *)
(* any number of deaths.  IInv is the inductive invariant; what a step may *)
(* do to the requests, to a document, to a running Job and to what the     *)
(* collector knows is shown once for all steps (RequestsStep, Files,       *)
(* Running, TellStoring, TellProceeding, TellCollects), and each conjunct  *)
(* follows from that.                                                      *)
(***************************************************************************)
EXTENDS LsControl, TLAPS

-----------------------------------------------------------------------------
(* The inductive invariant                                                 *)

Docs     == [rev : Nat \ {0}, cfg : Nat, log : Levels, test : BOOLEAN]
Confs    == [cfg : Nat, log : Levels, table : Tables, test : BOOLEAN]
States   == {"none", "starting", "running", "stopping", "stopped", "failed"}
Kinds    == {"create", "update", "log", "start", "install", "stop", "delete"}
Steps    == {"ensure", "store", "install", "discard", "profile", "service", "exec", "wait",
             "confirm", "provision", "list", "normalise", "done"}
Requests == [kind : Kinds, job : Jobs, pc : Steps, want : Docs \cup {None}]
Puts     == [kind : {"put"}, pc : Steps, to : Tables, todo : SUBSET Jobs]
Commands == [act : {"start", "stop", "refresh"}, job : Jobs, op : Nat]

TypedFiles ==
  /\ doc \in [Jobs -> Docs \cup {None}] /\ idx \in [Jobs -> Docs \cup {None}]
  /\ table \in Tables /\ secret \in Tables /\ split \in BOOLEAN

TypedCollector ==
  /\ service \in {"absent", "stopped", "running"} /\ active \in SUBSET Jobs
  /\ state \in [Jobs -> States] /\ conf \in [Jobs -> Confs] /\ commands \in SUBSET Commands

Typed == TypedFiles /\ TypedCollector /\ ops \in Seq(Requests \cup Puts)

\* Which requests a step belongs to, and which have a document to store.
Suits(p, kind) ==
  /\ p = "ensure" => kind \in {"create", "update"}
  /\ p = "store" => kind \in {"create", "update", "log"}
  /\ p = "install" => kind \in {"create", "install"}
  /\ p = "discard" => kind = "delete"
  /\ p \in {"profile", "service"} => kind = "start"
  /\ p \in {"exec", "wait", "confirm"} => kind \in {"start", "stop", "log"}
  /\ p \in {"provision", "list", "normalise"} => kind = "put"
Fits(r) == /\ Suits(r.pc, r.kind)
           /\ r.kind \in {"create", "update", "log"} => r.want \in Docs
Placed == \A o \in Ids : Fits(ops[o])

\* A command names the request that gave it.
Commanded ==
  \A c \in commands : /\ c.op \in Ids /\ c.act = Act(c.op)
                      /\ ops[c.op].kind \in {"start", "stop", "log"} /\ c.job = ops[c.op].job

\* The lock of a Job: one request at work on it.
Alone == \A o, p \in Ids : \A j \in Jobs : o \in Holders(j) /\ p \in Holders(j) => o = p

\* Whatever does not create a Job works on a document.
There == \A o \in Ids : \A j \in Jobs :
           o \in Holders(j) /\ ops[o].kind # "create" => doc[j] # None

\* An index differs from its document only after a save that broke off.
Indexed == \A j \in Jobs : j \notin cut => doc[j] = idx[j]

\* RunsWhatIsStored, and the index is there too.
Stored == \A j \in Jobs : Runs(j) /\ j \notin unguarded => Registered(j) /\ conf[j].cfg = doc[j].cfg

\* A Job whose document is about to be replaced runs only if it was started meanwhile.
Replaced == \A o \in Ids : \A j \in Jobs :
              o \in Holders(j) /\ ops[o].kind \in {"create", "update"} /\ Runs(j) => j \in unguarded

\* A change of the log level is of the document that is stored.
Relogged == \A o \in Ids : Is(o, "log", "store") => ops[o].want.cfg = doc[ops[o].job].cfg

\* The collector's copy is the profile, or a save of it is under way or broke off.
Publishing(o) == ops[o].pc \in {"list", "normalise"}
Published == split \/ secret = table \/ \E o \in Ids : Publishing(o)

\* A level the collector does not have yet is on its way to it.
Telling(o, j) == /\ ops[o].kind = "log" /\ ops[o].pc \in {"exec", "wait"} /\ ops[o].job = j
Heard == \A j \in Jobs :
           Runs(j) /\ j \notin unheard /\ j \notin unguarded /\ ~(\E o \in Ids : Telling(o, j))
             => conf[j].log = doc[j].log

IInv == /\ Typed /\ Placed /\ Commanded /\ Alone /\ There /\ Indexed /\ Stored /\ Replaced
        /\ Relogged /\ Published /\ ProfileInForce /\ Heard

-----------------------------------------------------------------------------
(* What a step does to the requests                                        *)

\* Requests only go on: they keep their kind and their Job, one that has ended
\* stays so, and none begins to store a log level.
Onward ==
  /\ ops' \in Seq(Requests \cup Puts) /\ DOMAIN ops' = Ids
  /\ \A o \in Ids :
       /\ ops'[o].kind = ops[o].kind
       /\ ops[o].kind # "put" => ops'[o].job = ops[o].job
       /\ ops[o].pc = "done" => ops'[o].pc = "done"
       /\ Fits(ops'[o])
       /\ ops'[o].kind = "log" /\ ops'[o].pc = "store"
            => ops[o].pc = "store" /\ ops'[o].want = ops[o].want

\* A request comes; it found nobody at work on its Job.
Joined(r) ==
  /\ r \in Requests \cup Puts /\ Fits(r) /\ ops' = Append(ops, r)
  /\ r.pc \notin {"list", "normalise", "wait"} /\ (r.kind = "log" => r.pc = "store")
  /\ r.kind # "put" => Holders(r.job) = {}
  /\ r.kind = "create" => ~Registered(r.job)
  /\ r.kind = "update" => ~Busy(r.job)
  /\ r.kind \notin {"put", "create"} => doc[r.job] # None
  /\ r.kind = "log" => r.want.cfg = doc[r.job].cfg
  /\ r.kind # "create" => UNCHANGED <<doc, idx>>
  /\ UNCHANGED <<service, state, conf, commands, stale, unguarded, unheard>>

\* What the records of requests hold.
LEMMA OpFacts ==
  ASSUME Typed, NEW o \in Ids
  PROVE  /\ o \in Nat \ {0} /\ ops[o] \in Requests \cup Puts
         /\ ops[o].kind \in Kinds \cup {"put"} /\ ops[o].pc \in Steps
         /\ ops[o].kind = "put" <=> ops[o] \in Puts
         /\ ops[o].kind = "put" => ops[o].to \in Tables /\ ops[o].todo \in SUBSET Jobs
         /\ ops[o].kind # "put" => ops[o].job \in Jobs /\ ops[o].want \in Docs \cup {None}
  <1>1. o \in Nat \ {0} /\ ops[o] \in Requests \cup Puts
    BY DEF Typed, Ids
  <1>2. CASE ops[o] \in Requests
    BY <1>1, <1>2 DEF Requests, Puts, Kinds
  <1>3. CASE ops[o] \in Puts
    BY <1>1, <1>3 DEF Requests, Puts, Kinds
  <1>4. QED
    BY <1>1, <1>2, <1>3

\* A request goes to a step.
LEMMA Moves ==
  ASSUME Typed, NEW o \in Ids, NEW p \in Steps, Goto(o, p)
  PROVE  /\ ops' \in Seq(Requests \cup Puts) /\ DOMAIN ops' = Ids
         /\ ops'[o].pc = p /\ ops'[o].kind = ops[o].kind
         /\ ops[o].kind # "put" => ops'[o].job = ops[o].job /\ ops'[o].want = ops[o].want
         /\ \A x \in Ids \ {o} : ops'[x] = ops[x]
  <1>1. ops \in Seq(Requests \cup Puts) /\ ops[o] \in Requests \cup Puts
    BY OpFacts DEF Typed
  <1>2. [ops[o] EXCEPT !.pc = p] \in Requests \cup Puts
    <2>1. CASE ops[o] \in Requests
      BY <2>1 DEF Requests
    <2>2. CASE ops[o] \in Puts
      BY <2>2 DEF Puts
    <2>3. QED
      BY <1>1, <2>1, <2>2
  <1>3. ops' = [ops EXCEPT ![o] = [ops[o] EXCEPT !.pc = p]]
    BY DEF Goto
  <1>4. /\ [ops[o] EXCEPT !.pc = p].pc = p /\ [ops[o] EXCEPT !.pc = p].kind = ops[o].kind
        /\ ops[o].kind # "put" => /\ [ops[o] EXCEPT !.pc = p].job = ops[o].job
                                  /\ [ops[o] EXCEPT !.pc = p].want = ops[o].want
    <2>1. CASE ops[o] \in Requests
      BY <2>1 DEF Requests
    <2>2. CASE ops[o] \in Puts
      BY <2>2 DEF Puts
    <2>3. QED
      BY <1>1, <2>1, <2>2
  <1>5. PICK r \in Requests \cup Puts :
          /\ r.pc = p /\ r.kind = ops[o].kind
          /\ ops[o].kind # "put" => r.job = ops[o].job /\ r.want = ops[o].want
          /\ ops' = [ops EXCEPT ![o] = r]
    BY <1>2, <1>3, <1>4
  <1>6. ops' \in Seq(Requests \cup Puts) /\ DOMAIN ops' = Ids
    BY <1>1, <1>5 DEF Ids
  <1>7. ops'[o] = r /\ \A x \in Ids \ {o} : ops'[x] = ops[x]
    BY <1>1, <1>5 DEF Ids
  <1>8. QED
    BY <1>5, <1>6, <1>7
\* A request goes to a step that is its kind's.
LEMMA GoesOn ==
  ASSUME Typed, Placed, NEW o \in Ids, NEW p \in Steps \ {"store"}, Goto(o, p),
         ops[o].pc # "done", Suits(p, ops[o].kind)
  PROVE  Onward
  <1>1. /\ ops' \in Seq(Requests \cup Puts) /\ DOMAIN ops' = Ids
        /\ ops'[o].pc = p /\ ops'[o].kind = ops[o].kind
        /\ ops[o].kind # "put" => ops'[o].job = ops[o].job /\ ops'[o].want = ops[o].want
        /\ \A x \in Ids \ {o} : ops'[x] = ops[x]
    BY Moves
  <1>2. Fits(ops'[o])
    BY <1>1 DEF Fits, Placed
  <1>3. \A x \in Ids \ {o} : Fits(ops'[x])
    BY <1>1 DEF Placed
  <1>4. QED
    BY <1>1, <1>2, <1>3 DEF Onward

\* A request ends.
LEMMA Ends ==
  ASSUME Typed, Placed, NEW o \in Ids, End(o), ops[o].pc # "done"
  PROVE  Onward /\ ops'[o].pc = "done"
  <1>1. "done" \in Steps \ {"store"} /\ Suits("done", ops[o].kind) /\ Goto(o, "done")
    BY DEF Steps, Suits, End
  <1>2. QED
    BY <1>1, GoesOn, Moves

\* No request does anything.
LEMMA Rests ==
  ASSUME Typed, Placed, UNCHANGED ops
  PROVE  Onward
  BY DEF Typed, Placed, Onward, Ids

\* Those at work on a Job are at work on it since they came.
LEMMA OnwardHolders ==
  ASSUME Typed, Onward, NEW j \in Jobs
  PROVE  Holders(j)' \subseteq Holders(j) /\ ProfileHolders' \subseteq ProfileHolders
  BY DEF Onward, Holders, ProfileHolders, Ids

\* The records after a request came.
LEMMA JoinedFacts ==
  ASSUME Typed, NEW r, Joined(r)
  PROVE  /\ Len(ops) + 1 \in Nat \ {0} /\ Len(ops) + 1 \notin Ids
         /\ DOMAIN ops' = Ids \cup {Len(ops) + 1}
         /\ ops'[Len(ops) + 1] = r
         /\ \A o \in Ids : ops'[o] = ops[o]
         /\ ops' \in Seq(Requests \cup Puts)
  <1>1. ops \in Seq(Requests \cup Puts) /\ r \in Requests \cup Puts /\ ops' = Append(ops, r)
    BY DEF Typed, Joined
  <1>2. QED
    BY <1>1 DEF Ids

\* The documents a Job may have, and the changes requests make to them.
LEMMA DocFacts ==
  ASSUME Typed, NEW j \in Jobs
  PROVE  /\ None \notin Docs /\ \A d \in Docs : d # None
         /\ doc[j] # None => doc[j] \in Docs
         /\ idx[j] # None => idx[j] \in Docs
  BY DEF Typed, TypedFiles, Docs, None

\* A patch, a new level and a cleared TEST flag give documents.
LEMMA DocChanges ==
  ASSUME NEW d \in Docs, NEW c \in Nat, NEW l \in Levels, NEW t \in BOOLEAN
  PROVE  /\ [d EXCEPT !.rev = @ + 1, !.cfg = c, !.test = t] \in Docs
         /\ [d EXCEPT !.rev = @ + 1, !.log = l] \in Docs
         /\ [d EXCEPT !.rev = @ + 1, !.log = l].cfg = d.cfg
         /\ [d EXCEPT !.rev = @ + 1, !.test = FALSE] \in Docs
         /\ [d EXCEPT !.rev = @ + 1, !.test = FALSE].cfg = d.cfg
         /\ [d EXCEPT !.rev = @ + 1, !.test = FALSE].log = d.log
  <1>1. d.rev + 1 \in Nat \ {0} /\ FALSE \in BOOLEAN
    BY DEF Docs
  <1>2. /\ [d EXCEPT !.rev = d.rev + 1, !.cfg = c, !.test = t] \in Docs
        /\ [d EXCEPT !.rev = d.rev + 1, !.log = l] \in Docs
        /\ [d EXCEPT !.rev = d.rev + 1, !.test = FALSE] \in Docs
    BY <1>1 DEF Docs
  <1>3. /\ [d EXCEPT !.rev = d.rev + 1, !.log = l].cfg = d.cfg
        /\ [d EXCEPT !.rev = d.rev + 1, !.test = FALSE].cfg = d.cfg
        /\ [d EXCEPT !.rev = d.rev + 1, !.test = FALSE].log = d.log
    BY DEF Docs
  <1>4. QED
    BY <1>2, <1>3

\* A request of a Job: nobody is at work on it, and the record fits.
LEMMA Comes ==
  ASSUME Typed, NEW kind \in Kinds, NEW j \in Jobs, NEW p \in Steps, NEW w \in Docs \cup {None},
         Request(kind, j, p, w), Suits(p, kind), p \notin {"list", "normalise", "wait"},
         kind = "log" => p = "store" /\ w.cfg = doc[j].cfg,
         kind \in {"create", "update", "log"} => w \in Docs,
         kind = "create" => ~Registered(j), kind = "update" => ~Busy(j),
         kind # "create" => doc[j] # None /\ UNCHANGED <<doc, idx>>,
         UNCHANGED <<service, state, conf, commands, stale, unguarded, unheard>>
  PROVE  \E r \in Requests : Joined(r) /\ r.kind = kind /\ r.job = j
  <1>1. PICK r \in Requests : /\ r = [kind |-> kind, job |-> j, pc |-> p, want |-> w]
                              /\ r.kind = kind /\ r.job = j /\ r.pc = p /\ r.want = w
    <2>1. [kind |-> kind, job |-> j, pc |-> p, want |-> w] \in Requests
      BY DEF Requests
    <2>2. QED
      BY <2>1
  <1>2. ops' = Append(ops, r) /\ Holders(j) = {}
    BY <1>1 DEF Request, Lock
  <1>3. kind # "put"
    BY DEF Kinds
  <1>4. Joined(r)
    BY <1>1, <1>2, <1>3 DEF Joined, Fits
  <1>5. QED
    BY <1>1, <1>4

\* Every request that comes.
LEMMA ArrivalJoins ==
  ASSUME Typed, NEW j \in Jobs
  PROVE  /\ \A test \in BOOLEAN :
              Create(j, test) => \E r \in Requests : Joined(r) /\ r.kind = "create" /\ r.job = j
         /\ \A test, same \in BOOLEAN :
              Update(j, test, same) => \E r \in Requests : Joined(r) /\ r.kind = "update" /\ r.job = j
         /\ \A l \in Levels :
              UpdateLog(j, l) => \E r \in Requests : Joined(r) /\ r.kind = "log" /\ r.job = j
         /\ Start(j) => \E r \in Requests : Joined(r) /\ r.kind = "start" /\ r.job = j
         /\ InstallJob(j) => \E r \in Requests : Joined(r) /\ r.kind = "install" /\ r.job = j
         /\ Stop(j) => \E r \in Requests : Joined(r) /\ r.kind = "stop" /\ r.job = j
         /\ Delete(j) => \E r \in Requests : Joined(r) /\ r.kind = "delete" /\ r.job = j
  <1>0. Len(ops) + 1 \in Nat
    BY DEF Typed
  <1>1. ASSUME NEW test \in BOOLEAN, Create(j, test)
        PROVE  \E r \in Requests : Joined(r) /\ r.kind = "create" /\ r.job = j
    <2>1. PICK w \in Docs : Request("create", j, "ensure", w)
      <3>1. [rev |-> 1, cfg |-> Len(ops) + 1, log |-> "info", test |-> test] \in Docs
        BY <1>0 DEF Docs, Levels
      <3>2. QED
        BY <1>1, <3>1 DEF Create
    <2>2. /\ "create" \in Kinds /\ "ensure" \in Steps /\ Suits("ensure", "create")
          /\ "ensure" \notin {"list", "normalise", "wait"}
      BY DEF Kinds, Steps, Suits
    <2>3. /\ ~Registered(j)
          /\ UNCHANGED <<service, state, conf, commands, stale, unguarded, unheard>>
      BY <1>1 DEF Create, collector
    <2>4. QED
      BY <2>1, <2>2, <2>3, Comes
  <1>2. ASSUME NEW test \in BOOLEAN, NEW same \in BOOLEAN, Update(j, test, same)
        PROVE  \E r \in Requests : Joined(r) /\ r.kind = "update" /\ r.job = j
    <2>1. doc[j] # None /\ doc[j] \in Docs /\ ~Busy(j)
      BY <1>2, DocFacts DEF Update
    <2>2. PICK w \in Docs : Request("update", j, "ensure", w)
      <3>1. [doc[j] EXCEPT !.rev = @ + 1, !.cfg = Len(ops) + 1, !.test = test] \in Docs
        <4>1. \A n \in Nat : [doc[j] EXCEPT !.rev = @ + 1, !.cfg = n, !.test = test] \in Docs
          BY <2>1, DocChanges DEF Levels
        <4>2. QED
          BY <1>0, <4>1
      <3>2. QED
        BY <1>2, <2>1, <3>1 DEF Update
    <2>3. /\ "update" \in Kinds /\ "ensure" \in Steps /\ Suits("ensure", "update")
          /\ "ensure" \notin {"list", "normalise", "wait"}
      BY DEF Kinds, Steps, Suits
    <2>4. UNCHANGED <<doc, idx, service, state, conf, commands, stale, unguarded, unheard>>
      BY <1>2 DEF Update, stored, collector
    <2>5. QED
      BY <2>1, <2>2, <2>3, <2>4, Comes
  <1>3. ASSUME NEW l \in Levels, UpdateLog(j, l)
        PROVE  \E r \in Requests : Joined(r) /\ r.kind = "log" /\ r.job = j
    <2>1. doc[j] # None /\ doc[j] \in Docs
      BY <1>3, DocFacts DEF UpdateLog
    <2>2. PICK w \in Docs : Request("log", j, "store", w) /\ w.cfg = doc[j].cfg
      <3>1. /\ [doc[j] EXCEPT !.rev = @ + 1, !.log = l] \in Docs
            /\ [doc[j] EXCEPT !.rev = @ + 1, !.log = l].cfg = doc[j].cfg
        BY <2>1, DocChanges
      <3>2. QED
        BY <1>3, <2>1, <3>1 DEF UpdateLog
    <2>3. /\ "log" \in Kinds /\ "store" \in Steps /\ Suits("store", "log")
          /\ "store" \notin {"list", "normalise", "wait"}
      BY DEF Kinds, Steps, Suits
    <2>4. UNCHANGED <<doc, idx, service, state, conf, commands, stale, unguarded, unheard>>
      BY <1>3 DEF UpdateLog, stored, collector
    <2>5. QED
      BY <2>1, <2>2, <2>3, <2>4, Comes
  <1>4. ASSUME Start(j)
        PROVE  \E r \in Requests : Joined(r) /\ r.kind = "start" /\ r.job = j
    <2>1. PICK p \in {"profile", "service"} : Request("start", j, p, None)
      BY <1>4 DEF Start
    <2>2. /\ "start" \in Kinds /\ p \in Steps /\ Suits(p, "start")
          /\ p \notin {"list", "normalise", "wait"}
      BY DEF Kinds, Steps, Suits
    <2>3. /\ UNCHANGED <<doc, idx, service, state, conf, commands, stale, unguarded, unheard>>
          /\ doc[j] # None
      BY <1>4 DEF Start, stored, collector, Registered
    <2>4. QED
      BY <2>1, <2>2, <2>3, Comes
  <1>5. ASSUME InstallJob(j)
        PROVE  \E r \in Requests : Joined(r) /\ r.kind = "install" /\ r.job = j
    <2>1. /\ "install" \in Kinds /\ "install" \in Steps /\ Suits("install", "install")
          /\ "install" \notin {"list", "normalise", "wait"}
      BY DEF Kinds, Steps, Suits
    <2>2. /\ UNCHANGED <<doc, idx, service, state, conf, commands, stale, unguarded, unheard>>
          /\ doc[j] # None /\ Request("install", j, "install", None)
      BY <1>5 DEF InstallJob, stored, collector, Registered
    <2>3. QED
      BY <2>1, <2>2, Comes
  <1>6. ASSUME Stop(j)
        PROVE  \E r \in Requests : Joined(r) /\ r.kind = "stop" /\ r.job = j
    <2>1. /\ "stop" \in Kinds /\ "exec" \in Steps /\ Suits("exec", "stop")
          /\ "exec" \notin {"list", "normalise", "wait"}
      BY DEF Kinds, Steps, Suits
    <2>2. /\ UNCHANGED <<doc, idx, service, state, conf, commands, stale, unguarded, unheard>>
          /\ doc[j] # None /\ Request("stop", j, "exec", None)
      BY <1>6 DEF Stop, stored, collector, Registered
    <2>3. QED
      BY <2>1, <2>2, Comes
  <1>7. ASSUME Delete(j)
        PROVE  \E r \in Requests : Joined(r) /\ r.kind = "delete" /\ r.job = j
    <2>1. /\ "delete" \in Kinds /\ "discard" \in Steps /\ Suits("discard", "delete")
          /\ "discard" \notin {"list", "normalise", "wait"}
      BY DEF Kinds, Steps, Suits
    <2>2. /\ UNCHANGED <<doc, idx, service, state, conf, commands, stale, unguarded, unheard>>
          /\ doc[j] # None /\ Request("delete", j, "discard", None)
      BY <1>7 DEF Delete, stored, collector, Registered
    <2>3. QED
      BY <2>1, <2>2, Comes
  <1>8. QED
    BY <1>1, <1>2, <1>3, <1>4, <1>5, <1>6, <1>7

\* The update of the profile joins as well.
LEMMA PutJoins ==
  ASSUME NEW t \in Tables, Put(t)
  PROVE  \E r \in Puts : Joined(r) /\ r.kind = "put"
  <1>1. PICK r \in Puts : /\ r = [kind |-> "put", pc |-> "provision", to |-> t, todo |-> {}]
                          /\ r.kind = "put" /\ r.pc = "provision"
    <2>1. [kind |-> "put", pc |-> "provision", to |-> t, todo |-> {}] \in Puts
      BY DEF Puts, Steps
    <2>2. QED
      BY <2>1
  <1>2. Fits(r) /\ ops' = Append(ops, r)
    BY <1>1 DEF Put, Fits, Suits
  <1>3. UNCHANGED <<doc, idx, service, state, conf, commands, stale, unguarded, unheard>>
    BY DEF Put, stored, collector
  <1>4. QED
    BY <1>1, <1>2, <1>3 DEF Joined

\* One record changes to another that may follow it.
LEMMA Changes ==
  ASSUME Typed, Placed, NEW o \in Ids, NEW r \in Requests \cup Puts, ops' = [ops EXCEPT ![o] = r],
         r.kind = ops[o].kind, ops[o].kind # "put" => r.job = ops[o].job,
         ops[o].pc # "done", Fits(r), ~(r.kind = "log" /\ r.pc = "store")
  PROVE  Onward /\ ops'[o] = r
  <1>1. ops \in Seq(Requests \cup Puts)
    BY DEF Typed
  <1>2. ops' \in Seq(Requests \cup Puts) /\ DOMAIN ops' = Ids
    BY <1>1 DEF Ids
  <1>3. ops'[o] = r /\ \A x \in Ids \ {o} : ops'[x] = ops[x]
    BY <1>1 DEF Ids
  <1>4. \A x \in Ids \ {o} : Fits(ops'[x])
    BY <1>3 DEF Placed
  <1>5. QED
    BY <1>2, <1>3, <1>4 DEF Onward

\* ensureDatabase: the request is about to store a document.
LEMMA EnsureGoesOn ==
  ASSUME Typed, Placed, NEW o \in Ids, Ensure(o)
  PROVE  Onward /\ ops'[o].pc = "store"
  <1>1. /\ ops[o] \in Requests /\ ops[o].kind \in {"create", "update"} /\ ops[o].want \in Docs
        /\ ops[o].pc = "ensure"
    BY OpFacts DEF Ensure, At, Placed, Fits, Suits, Requests, Puts
  <1>2. PICK t \in BOOLEAN : t = (ops[o].want.test /\ table = "bench")
    OBVIOUS
  <1>3. [ops[o].want EXCEPT !.test = t] \in Docs
    BY <1>1, <1>2 DEF Docs
  <1>4. PICK w \in Docs : w = [ops[o].want EXCEPT !.test = t]
    BY <1>3
  <1>5. [ops[o] EXCEPT !.pc = "store", !.want = w] \in Requests
    BY <1>1, <1>4 DEF Requests, Steps
  <1>6. PICK r \in Requests : /\ r = [ops[o] EXCEPT !.pc = "store", !.want = w]
                              /\ r.pc = "store" /\ r.want = w /\ r.kind = ops[o].kind
                              /\ r.job = ops[o].job
    BY <1>1, <1>5 DEF Requests
  <1>7. ops' = [ops EXCEPT ![o] = r]
    <2>1. ops' = [ops EXCEPT ![o].pc = "store", ![o].want.test = t]
      BY <1>2 DEF Ensure
    <2>2. PICK q : q = [ops[o] EXCEPT !.pc = "store"]
      OBVIOUS
    <2>3. q.want = ops[o].want /\ r = [q EXCEPT !.want = w]
      BY <1>1, <1>6, <2>2 DEF Requests
    <2>4. PICK f : f = [ops EXCEPT ![o] = q]
      OBVIOUS
    <2>5. f[o] = q /\ [f EXCEPT ![o] = r] = [ops EXCEPT ![o] = r]
      BY <2>4 DEF Ids, Typed
    <2>6. ops' = [f EXCEPT ![o].want.test = t]
      BY <2>1, <2>2, <2>4
    <2>7. ops' = [f EXCEPT ![o] = [f[o] EXCEPT !.want = [f[o].want EXCEPT !.test = t]]]
      BY <2>6
    <2>8. QED
      BY <1>4, <2>3, <2>5, <2>7
  <1>8. Fits(r)
    BY <1>1, <1>6 DEF Fits, Suits
  <1>9. QED
    BY <1>1, <1>6, <1>7, <1>8, Changes

\* disableForDatabase lists its Jobs, and is done with one of them.
LEMMA ListGoesOn ==
  ASSUME Typed, Placed, NEW o \in Ids, NEW p \in Steps, NEW js \in SUBSET Jobs,
         \/ ops' = [ops EXCEPT ![o].pc = p, ![o].todo = js]
         \/ ops' = [ops EXCEPT ![o].todo = js] /\ p = ops[o].pc,
         p \in {"list", "normalise"}, ops[o].pc \in {"list", "normalise"}
  PROVE  Onward /\ ops'[o].pc = p
  <1>1. ops[o] \in Puts /\ ops[o].kind = "put" /\ ops[o].pc # "done"
    BY OpFacts DEF Placed, Fits, Suits
  <1>2. [ops[o] EXCEPT !.pc = p, !.todo = js] \in Puts
    BY <1>1 DEF Puts
  <1>3. PICK r \in Puts : /\ r = [ops[o] EXCEPT !.pc = p, !.todo = js]
                          /\ r.pc = p /\ r.kind = "put"
    BY <1>1, <1>2 DEF Puts
  <1>4. ops' = [ops EXCEPT ![o] = r]
    <2>1. ops \in Seq(Requests \cup Puts)
      BY DEF Typed
    <2>2. CASE ops' = [ops EXCEPT ![o].pc = p, ![o].todo = js]
      BY <1>3, <2>1, <2>2 DEF Ids
    <2>3. CASE ops' = [ops EXCEPT ![o].todo = js] /\ p = ops[o].pc
      <3>1. r = [ops[o] EXCEPT !.todo = js]
        BY <1>1, <1>3, <2>3 DEF Puts
      <3>2. QED
        BY <2>1, <2>3, <3>1 DEF Ids
    <2>4. QED
      BY <2>2, <2>3
  <1>5. Fits(r)
    BY <1>3 DEF Fits, Suits
  <1>6. /\ r \in Requests \cup Puts /\ r.kind = ops[o].kind /\ r.kind # "log"
        /\ ops[o].kind # "put" => r.job = ops[o].job
    BY <1>1, <1>3
  <1>7. QED
    BY <1>1, <1>3, <1>4, <1>5, <1>6, Changes

\* A request at work goes on, or ends.
LEMMA WorkGoesOn ==
  ASSUME Typed, Placed, NEW o \in Ids
  PROVE  /\ Finish(o) => Onward /\ ops'[o].pc = "done"
         /\ StoreUpdate(o) => Onward /\ ops'[o].pc = "done"
         /\ StoreCreate(o) => Onward /\ ops'[o].pc \in {"install", "done"}
         /\ Install(o) => Onward /\ ops'[o].pc = "done"
         /\ StoreLog(o) => Onward /\ ops'[o].pc \in {"exec", "done"}
         /\ Discard(o) => Onward /\ ops'[o].pc = "done"
         /\ Commit(o) => Onward /\ (ops'[o].pc = "list" \/ UNCHANGED table)
         /\ ListTests(o) => Onward /\ ops'[o].pc = "normalise"
         /\ Normalise(o) => Onward /\ (ops'[o].pc = "normalise" \/ split')
         /\ Sync(o) => Onward
         /\ Recheck(o) => Onward
         /\ EnsureRunning(o) => Onward
         /\ Register(o) => Onward
         /\ Exec(o) => Onward /\ ops'[o].pc = "wait"
         /\ Timeout(o) => Onward
         /\ Dies(o) => Onward /\ ops'[o].pc = "done"
  <1>1. ASSUME End(o), ops[o].pc # "done" PROVE Onward /\ ops'[o].pc = "done"
    BY <1>1, Ends
  <1>2. ASSUME NEW p \in Steps \ {"store"}, Goto(o, p), ops[o].pc # "done", Suits(p, ops[o].kind)
        PROVE  Onward /\ ops'[o].pc = p
    BY <1>2, GoesOn, Moves
  <1>3. Finish(o) => Onward /\ ops'[o].pc = "done"
    BY <1>1 DEF Finish
  <1>4. StoreUpdate(o) => Onward /\ ops'[o].pc = "done"
    BY <1>1 DEF StoreUpdate, Is
  <1>5. StoreCreate(o) => Onward /\ ops'[o].pc \in {"install", "done"}
    <2>1. "install" \in Steps \ {"store"} /\ Suits("install", "create")
      BY DEF Steps, Suits
    <2>2. ASSUME StoreCreate(o) PROVE Onward /\ ops'[o].pc \in {"install", "done"}
      <3>1. ops[o].kind = "create" /\ ops[o].pc # "done" /\ (Goto(o, "install") \/ End(o))
        BY <2>2 DEF StoreCreate, Is
      <3>2. QED
        BY <1>1, <1>2, <2>1, <3>1
    <2>3. QED
      BY <2>2
  <1>6. Install(o) => Onward /\ ops'[o].pc = "done"
    BY <1>1 DEF Install, At
  <1>7. StoreLog(o) => Onward /\ ops'[o].pc \in {"exec", "done"}
    <2>1. "exec" \in Steps \ {"store"} /\ Suits("exec", "log")
      BY DEF Steps, Suits
    <2>2. ASSUME StoreLog(o) PROVE Onward /\ ops'[o].pc \in {"exec", "done"}
      <3>1. ops[o].kind = "log" /\ ops[o].pc # "done" /\ (Goto(o, "exec") \/ End(o))
        BY <2>2 DEF StoreLog, Is
      <3>2. QED
        BY <1>1, <1>2, <2>1, <3>1
    <2>3. QED
      BY <2>2
  <1>8. Discard(o) => Onward /\ ops'[o].pc = "done"
    BY <1>1 DEF Discard, At
  <1>9. Commit(o) => Onward /\ (ops'[o].pc = "list" \/ UNCHANGED table)
    <2>1. "list" \in Steps \ {"store"} /\ Suits("list", "put")
      BY DEF Steps, Suits
    <2>2. ASSUME Commit(o) PROVE Onward /\ (ops'[o].pc = "list" \/ UNCHANGED table)
      <3>1. /\ ops[o].kind = "put" /\ ops[o].pc # "done"
            /\ Goto(o, "list") \/ (End(o) /\ UNCHANGED table)
        BY <2>2 DEF Commit, At, Placed, Fits, Suits
      <3>2. Goto(o, "list") => Onward /\ ops'[o].pc = "list"
        BY <1>2, <2>1, <3>1
      <3>3. End(o) => Onward
        BY <1>1, <3>1
      <3>4. QED
        BY <3>1, <3>2, <3>3
    <2>3. QED
      BY <2>2
  <1>10. ListTests(o) => Onward /\ ops'[o].pc = "normalise"
    <2>1. ASSUME ListTests(o) PROVE Onward /\ ops'[o].pc = "normalise"
      <3>1. PICK js \in SUBSET Jobs : ops' = [ops EXCEPT ![o].pc = "normalise", ![o].todo = js]
        BY <2>1 DEF ListTests, Tests
      <3>2. ops[o].pc = "list" /\ "normalise" \in Steps
        BY <2>1 DEF ListTests, At, Steps
      <3>3. QED
        BY <3>1, <3>2, ListGoesOn
    <2>2. QED
      BY <2>1
  <1>11. Normalise(o) => Onward /\ (ops'[o].pc = "normalise" \/ split')
    <2>1. ASSUME Normalise(o) PROVE Onward /\ (ops'[o].pc = "normalise" \/ split')
      <3>1. ops[o].pc = "normalise" /\ "normalise" \in Steps /\ ops[o].todo \in SUBSET Jobs
        BY <2>1, OpFacts DEF Normalise, At, Steps, Placed, Fits, Suits
      <3>2. \/ End(o) /\ split' = TRUE
            \/ \E j \in Jobs : ops' = [ops EXCEPT ![o].todo = @ \ {j}]
        BY <2>1, <3>1 DEF Normalise
      <3>3. ASSUME NEW j \in Jobs, ops' = [ops EXCEPT ![o].todo = @ \ {j}]
            PROVE  Onward /\ ops'[o].pc = "normalise"
        <4>1. PICK js \in SUBSET Jobs : js = ops[o].todo \ {j}
          BY <3>1
        <4>2. ops' = [ops EXCEPT ![o].todo = js]
          BY <3>3, <4>1
        <4>3. QED
          BY <3>1, <4>2, ListGoesOn
      <3>4. QED
        BY <1>1, <3>1, <3>2, <3>3
    <2>2. QED
      BY <2>1
  <1>12. Sync(o) => Onward
    BY <1>1 DEF Sync, At
  <1>13. Recheck(o) => Onward
    <2>1. "service" \in Steps \ {"store"} /\ Suits("service", "start")
      BY DEF Steps, Suits
    <2>2. ASSUME Recheck(o) PROVE Onward
      <3>1. ops[o].kind = "start" /\ ops[o].pc # "done" /\ (Goto(o, "service") \/ End(o))
        BY <2>2 DEF Recheck, At, Placed, Fits, Suits
      <3>2. QED
        BY <1>1, <1>2, <2>1, <3>1
    <2>3. QED
      BY <2>2
  <1>14. EnsureRunning(o) => Onward
    <2>1. "exec" \in Steps \ {"store"} /\ Suits("exec", "start")
      BY DEF Steps, Suits
    <2>2. ASSUME EnsureRunning(o) PROVE Onward
      <3>1. ops[o].kind = "start" /\ ops[o].pc # "done" /\ Goto(o, "exec")
        BY <2>2 DEF EnsureRunning, At, Placed, Fits, Suits
      <3>2. QED
        BY <1>2, <2>1, <3>1
    <2>3. QED
      BY <2>2
  <1>15. Register(o) => Onward
    BY Rests DEF Register
  <1>16. Exec(o) => Onward /\ ops'[o].pc = "wait"
    <2>1. "wait" \in Steps \ {"store"} /\ \A k \in {"start", "stop", "log"} : Suits("wait", k)
      BY DEF Steps, Suits
    <2>2. ASSUME Exec(o) PROVE Onward /\ ops'[o].pc = "wait"
      <3>1. ops[o].kind \in {"start", "stop", "log"} /\ ops[o].pc # "done" /\ Goto(o, "wait")
        BY <2>2 DEF Exec, At, Placed, Fits, Suits
      <3>2. QED
        BY <1>2, <2>1, <3>1
    <2>3. QED
      BY <2>2
  <1>17. Timeout(o) => Onward
    BY <1>1 DEF Timeout, At
  <1>18. Dies(o) => Onward /\ ops'[o].pc = "done"
    BY <1>1 DEF Dies
  <1>19. QED
    BY <1>3, <1>4, <1>5, <1>6, <1>7, <1>8, <1>9, <1>10, <1>11, <1>12, <1>13, <1>14, <1>15,
       <1>16, <1>17, <1>18

-----------------------------------------------------------------------------
(* What the collector does                                                 *)

\* The fields of a command.
LEMMA CommandFacts ==
  ASSUME Typed, Commanded, NEW c \in commands
  PROVE  /\ c.act \in {"start", "stop", "refresh"} /\ c.job \in Jobs /\ c.op \in Ids
         /\ c.act = Act(c.op) /\ ops[c.op].kind \in {"start", "stop", "log"}
         /\ c.job = ops[c.op].job
         /\ c.act = "start" => ops[c.op].kind = "start"
         /\ c.act = "refresh" <=> ops[c.op].kind = "log"
  <1>1. c \in Commands
    BY DEF Typed, TypedCollector
  <1>2. /\ c.op \in Ids /\ c.act = Act(c.op) /\ c.job = ops[c.op].job
        /\ ops[c.op].kind \in {"start", "stop", "log"}
    BY DEF Commanded
  <1>3. QED
    BY <1>1, <1>2 DEF Commands, Act

\* A command that is answered sends its request on.
LEMMA Answers ==
  ASSUME Typed, Placed, Commanded, NEW c \in commands, NEW ok, Reply(c, ok)
  PROVE  /\ Onward /\ commands' \subseteq commands
         /\ \A o \in Ids : o # c.op => ops'[o] = ops[o]
         /\ ops' = ops \/ (At(c.op, "wait") /\ ops'[c.op].pc = "confirm")
         /\ c.act # "refresh" => UNCHANGED unheard
         /\ c.act = "refresh" /\ At(c.op, "wait") =>
              unheard' = IF ok THEN unheard \ {c.job} ELSE unheard \cup {c.job}
         /\ ~At(c.op, "wait") => UNCHANGED unheard
  <1>1. c.op \in Ids /\ ops[c.op].kind \in {"start", "stop", "log"}
    BY CommandFacts
  <1>2. /\ commands' \subseteq commands
        /\ c.act # "refresh" => UNCHANGED unheard
        /\ c.act = "refresh" /\ At(c.op, "wait") =>
             unheard' = IF ok THEN unheard \ {c.job} ELSE unheard \cup {c.job}
        /\ ~At(c.op, "wait") => UNCHANGED unheard
    BY DEF Reply
  <1>3. /\ Onward /\ \A o \in Ids : o # c.op => ops'[o] = ops[o]
        /\ ops' = ops \/ (At(c.op, "wait") /\ ops'[c.op].pc = "confirm")
    <2>1. CASE At(c.op, "wait")
      <3>1. Goto(c.op, "confirm")
        BY <2>1 DEF Reply, Goto
      <3>2. /\ "confirm" \in Steps \ {"store"} /\ Suits("confirm", ops[c.op].kind)
            /\ ops[c.op].pc # "done"
        BY <1>1, <2>1 DEF Steps, Suits, At
      <3>3. QED
        BY <1>1, <2>1, <3>1, <3>2, GoesOn, Moves
    <2>2. CASE ~At(c.op, "wait")
      <3>1. ops' = ops
        BY <2>2 DEF Reply
      <3>2. QED
        BY <3>1, Rests
    <2>3. QED
      BY <2>1, <2>2
  <1>4. QED
    BY <1>2, <1>3

\* What a command does: it starts its Job, finds nothing to start, stops its Job
\* or has the collector read its log level again.
LEMMA Serves ==
  ASSUME Typed, Placed, Commanded, NEW c \in commands, Serve(c)
  PROVE  /\ service = "running" /\ Onward /\ commands' \subseteq commands
         /\ UNCHANGED <<doc, idx, cut, table, secret, split, service>>
         /\ \A o \in Ids : o # c.op => ops'[o] = ops[o]
         /\ ops' = ops \/ (At(c.op, "wait") /\ ops'[c.op].pc = "confirm")
         /\ \/ /\ c.act = "start" /\ Loads(c.job) /\ Started({c.job}, c.op)
               /\ active' = active \cup {c.job} /\ UNCHANGED unheard
            \/ c.act = "start" /\ UNCHANGED <<active, state, conf, stale, unguarded, unheard>>
            \/ /\ c.act = "stop" /\ active' = active \ {c.job}
               /\ state' = state \/ state' = [state EXCEPT ![c.job] = "stopping"]
               /\ UNCHANGED <<conf, stale, unguarded, unheard>>
            \/ /\ c.act = "refresh" /\ Reply(c, Loads(c.job))
               /\ conf' = IF Loads(c.job) THEN [conf EXCEPT ![c.job].log = doc[c.job].log] ELSE conf
               /\ UNCHANGED <<active, state, stale, unguarded>>
  <1>1. c.act \in {"start", "stop", "refresh"} /\ service = "running"
    BY CommandFacts DEF Serve
  <1>2. UNCHANGED <<doc, idx, cut, table, secret, split, service>>
    BY DEF Serve, stored, profile
  <1>3. CASE c.act = "start"
    <2>1. CASE Loads(c.job) /\ ~InTable(c.job)
      <3>1. /\ Started({c.job}, c.op) /\ active' = active \cup {c.job} /\ Reply(c, TRUE)
        BY <1>3, <2>1 DEF Serve
      <3>2. QED
        BY <1>1, <1>2, <1>3, <2>1, <3>1, Answers
    <2>2. CASE ~(Loads(c.job) /\ ~InTable(c.job))
      <3>1. Reply(c, Loads(c.job)) /\ UNCHANGED <<active, state, conf, stale, unguarded>>
        BY <1>3, <2>2 DEF Serve
      <3>2. QED
        BY <1>1, <1>2, <1>3, <3>1, Answers
    <2>3. QED
      BY <2>1, <2>2
  <1>4. CASE c.act = "stop"
    <2>1. active' = active \ {c.job} /\ UNCHANGED <<conf, stale, unguarded>>
      BY <1>4 DEF Serve
    <2>2. CASE state[c.job] \in {"starting", "running"}
      <3>1. state' = [state EXCEPT ![c.job] = "stopping"] /\ UNCHANGED <<commands, ops, unheard>>
        BY <1>4, <2>2 DEF Serve
      <3>2. QED
        BY <1>1, <1>2, <1>4, <2>1, <3>1, Rests
    <2>3. CASE state[c.job] \notin {"starting", "running"}
      <3>1. Reply(c, TRUE) /\ UNCHANGED state
        BY <1>4, <2>3 DEF Serve
      <3>2. QED
        BY <1>1, <1>2, <1>4, <2>1, <3>1, Answers
    <2>4. QED
      BY <2>2, <2>3
  <1>5. CASE c.act = "refresh"
    <2>1. /\ Reply(c, Loads(c.job)) /\ UNCHANGED <<active, state, stale, unguarded>>
          /\ conf' = IF Loads(c.job) THEN [conf EXCEPT ![c.job].log = doc[c.job].log] ELSE conf
      BY <1>5 DEF Serve
    <2>2. QED
      BY <1>1, <1>2, <1>5, <2>1, Answers
  <1>6. QED
    BY <1>1, <1>3, <1>4, <1>5

\* The clients of a collector that dies lose their connection.
LEMMA CollectorDiesGoesOn ==
  ASSUME Typed, Placed, CollectorDies
  PROVE  /\ Onward
         /\ \A o \in Ids : ops'[o] = ops[o] \/ (At(o, "wait") /\ ops'[o].pc = "confirm")
  <1>1. ops' = [o \in Ids |-> IF At(o, "wait") THEN [ops[o] EXCEPT !.pc = "confirm"] ELSE ops[o]]
    BY DEF CollectorDies
  <1>2. ASSUME NEW o \in Ids, At(o, "wait")
        PROVE  /\ [ops[o] EXCEPT !.pc = "confirm"] \in Requests
               /\ [ops[o] EXCEPT !.pc = "confirm"].pc = "confirm"
               /\ [ops[o] EXCEPT !.pc = "confirm"].kind = ops[o].kind
               /\ [ops[o] EXCEPT !.pc = "confirm"].job = ops[o].job
               /\ Fits([ops[o] EXCEPT !.pc = "confirm"])
    <2>1. ops[o].kind \in {"start", "stop", "log"} /\ Fits(ops[o])
      BY <1>2 DEF Placed, Fits, Suits, At
    <2>2. ops[o] \in Requests
      BY <2>1, OpFacts DEF Puts
    <2>3. PICK r : /\ r = [ops[o] EXCEPT !.pc = "confirm"] /\ r \in Requests /\ r.pc = "confirm"
                   /\ r.kind = ops[o].kind /\ r.job = ops[o].job /\ r.want = ops[o].want
      <3>1. [ops[o] EXCEPT !.pc = "confirm"] \in Requests
        BY <2>2 DEF Requests, Steps
      <3>2. QED
        BY <2>2, <3>1 DEF Requests
    <2>4. QED
      BY <2>1, <2>3 DEF Fits, Suits
  <1>3. ASSUME NEW o \in Ids
        PROVE  /\ ops'[o] \in Requests \cup Puts /\ Fits(ops'[o]) /\ ops'[o].kind = ops[o].kind
               /\ ops[o].kind # "put" => ops'[o].job = ops[o].job
               /\ ops'[o] = ops[o] \/ (At(o, "wait") /\ ops'[o].pc = "confirm")
    <2>1. CASE At(o, "wait")
      BY <1>1, <1>2, <2>1
    <2>2. CASE ~At(o, "wait")
      BY <1>1, <2>2, OpFacts DEF Placed
    <2>3. QED
      BY <2>1, <2>2
  <1>4. ops' \in Seq(Requests \cup Puts) /\ DOMAIN ops' = Ids
    <2>1. PICK n \in Nat : Ids = 1 .. n
      BY DEF Typed, Ids
    <2>2. ops' \in [1 .. n -> Requests \cup Puts]
      BY <1>1, <1>3, <2>1
    <2>3. \A S : \A f \in [1 .. n -> S] : f \in Seq(S) /\ DOMAIN f = 1 .. n
      OBVIOUS
    <2>4. QED
      BY <2>1, <2>2, <2>3
  <1>5. QED
    BY <1>3, <1>4 DEF Onward, At

-----------------------------------------------------------------------------
(* What a step does to the documents                                       *)

\* The steps, by what they do: requests come, write documents, or go on without,
\* and the collector works.
Arrives(j) ==
  \/ \E test, same \in BOOLEAN : Update(j, test, same)
  \/ \E l \in Levels : UpdateLog(j, l)
  \/ Start(j) \/ InstallJob(j) \/ Stop(j) \/ Delete(j)
Stores(o) ==
  \/ StoreUpdate(o) \/ StoreCreate(o) \/ Install(o) \/ StoreLog(o) \/ Discard(o)
  \/ Normalise(o) \/ Recheck(o)
Proceeds(o) ==
  \/ Finish(o) \/ Ensure(o) \/ Commit(o) \/ ListTests(o) \/ Sync(o) \/ EnsureRunning(o)
  \/ Register(o) \/ Exec(o) \/ Timeout(o) \/ Dies(o)
Collects ==
  \/ \E j \in Jobs : Progress(j)
  \/ \E c \in commands : Serve(c)
  \/ CollectorDies \/ Publish \/ Boot

\* There are no other steps.
LEMMA Cases ==
  Next => \/ \E j \in Jobs : Arrives(j) \/ \E test \in BOOLEAN : Create(j, test)
          \/ \E t \in Tables : Put(t)
          \/ \E o \in Ids : Stores(o) \/ Proceeds(o)
          \/ Collects
  BY DEF Next, Arrives, Stores, Proceeds, Collects

\* The steps that write no document.
LEMMA DocFrame ==
  /\ \A j \in Jobs : Arrives(j) => UNCHANGED stored
  /\ \A t \in Tables : Put(t) => UNCHANGED stored
  /\ \A o \in Ids : Proceeds(o) => UNCHANGED stored
  /\ Collects => UNCHANGED stored
  <1>1. \A j \in Jobs : Arrives(j) => UNCHANGED stored
    BY DEF Arrives, Update, UpdateLog, Start, InstallJob, Stop, Delete
  <1>2. \A t \in Tables : Put(t) => UNCHANGED stored
    BY DEF Put
  <1>3. \A o \in Ids : Proceeds(o) => UNCHANGED stored
    BY DEF Proceeds, Finish, Ensure, Commit, ListTests, Sync, EnsureRunning, Register, Exec,
           Timeout, Dies
  <1>4. Collects => UNCHANGED stored
    BY DEF Collects, Progress, Serve, CollectorDies, Publish, Boot
  <1>5. QED
    BY <1>1, <1>2, <1>3, <1>4

\* A save, complete or broken off.
LEMMA Saves ==
  ASSUME Typed, NEW j \in Jobs, NEW d \in Docs, Save(j, d)
  PROVE  /\ doc' \in [Jobs -> Docs \cup {None}] /\ idx' \in [Jobs -> Docs \cup {None}]
         /\ doc'[j] = d /\ doc'[j] # None
         /\ \A x \in Jobs \ {j} : doc'[x] = doc[x]
         /\ \A x \in Jobs : idx[x] # None => idx'[x] # None
         /\ Indexed => Indexed'
  <1>1. doc \in [Jobs -> Docs \cup {None}] /\ idx \in [Jobs -> Docs \cup {None}]
    BY DEF Typed, TypedFiles
  <1>2. doc' = [doc EXCEPT ![j] = d] /\ d # None
    BY DocFacts DEF Save
  <1>3. \/ idx' = [idx EXCEPT ![j] = d] /\ cut' = cut \ {j}
        \/ idx' = idx /\ cut' = cut \cup {j}
    BY DEF Save
  <1>4. /\ doc' \in [Jobs -> Docs \cup {None}] /\ doc'[j] = d
        /\ \A x \in Jobs \ {j} : doc'[x] = doc[x]
    BY <1>1, <1>2
  <1>5. CASE idx' = [idx EXCEPT ![j] = d] /\ cut' = cut \ {j}
    BY <1>1, <1>2, <1>4, <1>5 DEF Indexed
  <1>6. CASE idx' = idx /\ cut' = cut \cup {j}
    BY <1>1, <1>2, <1>4, <1>6 DEF Indexed
  <1>7. QED
    BY <1>3, <1>5, <1>6

\* A document that is removed, with its index or without.
LEMMA Clears ==
  ASSUME Typed, NEW j \in Jobs, doc' = [doc EXCEPT ![j] = None],
         \/ idx' = [idx EXCEPT ![j] = None] /\ cut' \in {cut, cut \ {j}}
         \/ cut' = cut \cup {j} /\ UNCHANGED idx
  PROVE  /\ doc' \in [Jobs -> Docs \cup {None}] /\ idx' \in [Jobs -> Docs \cup {None}]
         /\ doc'[j] = None
         /\ \A x \in Jobs \ {j} : doc'[x] = doc[x] /\ idx'[x] = idx[x]
         /\ Indexed => Indexed'
  <1>1. doc \in [Jobs -> Docs \cup {None}] /\ idx \in [Jobs -> Docs \cup {None}]
    BY DEF Typed, TypedFiles
  <1>2. /\ doc' \in [Jobs -> Docs \cup {None}] /\ doc'[j] = None
        /\ \A x \in Jobs \ {j} : doc'[x] = doc[x]
    BY <1>1
  <1>3. CASE idx' = [idx EXCEPT ![j] = None] /\ cut' \in {cut, cut \ {j}}
    BY <1>1, <1>2, <1>3 DEF Indexed
  <1>4. CASE cut' = cut \cup {j} /\ UNCHANGED idx
    BY <1>1, <1>2, <1>4 DEF Indexed
  <1>5. QED
    BY <1>3, <1>4

\* What may become of the document of a Job: it keeps its configuration and its
\* level; a request at work on it stores a level, or another document; a create
\* clears leftovers; a request at work on it removes it and ends.
Indices(j) == idx[j] # None => idx'[j] # None
Kept(j) == /\ doc[j] = None <=> doc'[j] = None
           /\ doc'[j].cfg = doc[j].cfg /\ doc'[j].log = doc[j].log /\ Indices(j)
Levelled(j) == /\ \E o \in Holders(j) : /\ ops[o].kind = "log" /\ ops[o].pc = "store"
                                        /\ ops'[o].pc # "store" /\ doc'[j] = ops[o].want
               /\ doc'[j] # None /\ Indices(j)
Rewritten(j) == /\ \E o \in Holders(j) : ops[o].kind \in {"create", "update"}
                /\ doc'[j] # None /\ Indices(j)
Cleared(j) == doc'[j] = None /\ ~Registered(j) /\ Holders(j) = {}
Dropped(j) == /\ \E o \in Holders(j) : ops[o].kind \in {"create", "delete"} /\ ops'[o].pc = "done"
              /\ doc'[j] = None /\ ~Runs(j)
DocStep(j) == Kept(j) \/ Levelled(j) \/ Rewritten(j) \/ Cleared(j) \/ Dropped(j)

FilesStep == /\ doc' \in [Jobs -> Docs \cup {None}] /\ idx' \in [Jobs -> Docs \cup {None}]
             /\ Indexed => Indexed'
             /\ \A j \in Jobs : DocStep(j)

\* A step that writes no document.
LEMMA FilesRest ==
  ASSUME Typed, UNCHANGED stored
  PROVE  FilesStep
  <1>1. doc' = doc /\ idx' = idx /\ cut' = cut
    BY DEF stored
  <1>2. \A j \in Jobs : DocStep(j)
    BY <1>1 DEF DocStep, Kept, Indices
  <1>3. QED
    BY <1>1, <1>2 DEF FilesStep, Typed, TypedFiles, Indexed

\* A save touches one Job.
LEMMA SaveStep ==
  ASSUME Typed, NEW j \in Jobs, NEW d \in Docs, Save(j, d),
         Indices(j) /\ doc'[j] = d /\ doc'[j] # None => DocStep(j)
  PROVE  FilesStep
  <1>1. /\ doc' \in [Jobs -> Docs \cup {None}] /\ idx' \in [Jobs -> Docs \cup {None}]
        /\ doc'[j] = d /\ doc'[j] # None
        /\ \A x \in Jobs \ {j} : doc'[x] = doc[x]
        /\ \A x \in Jobs : idx[x] # None => idx'[x] # None
        /\ Indexed => Indexed'
    BY Saves
  <1>2. \A x \in Jobs \ {j} : DocStep(x)
    BY <1>1 DEF DocStep, Kept, Indices
  <1>3. DocStep(j)
    BY <1>1 DEF Indices
  <1>4. QED
    BY <1>1, <1>2, <1>3 DEF FilesStep

\* So does a removal.
LEMMA ClearStep ==
  ASSUME Typed, NEW j \in Jobs, doc' = [doc EXCEPT ![j] = None],
         \/ idx' = [idx EXCEPT ![j] = None] /\ cut' \in {cut, cut \ {j}}
         \/ cut' = cut \cup {j} /\ UNCHANGED idx,
         doc'[j] = None => DocStep(j)
  PROVE  FilesStep
  <1>1. /\ doc' \in [Jobs -> Docs \cup {None}] /\ idx' \in [Jobs -> Docs \cup {None}]
        /\ doc'[j] = None
        /\ \A x \in Jobs \ {j} : doc'[x] = doc[x] /\ idx'[x] = idx[x]
        /\ Indexed => Indexed'
    BY Clears
  <1>2. \A x \in Jobs \ {j} : DocStep(x)
    BY <1>1 DEF DocStep, Kept, Indices
  <1>3. QED
    BY <1>1, <1>2 DEF FilesStep

\* A TEST flag that is cleared.
LEMMA ClearsTest ==
  ASSUME Typed, NEW j \in Jobs, doc[j] # None,
         Save(j, [doc[j] EXCEPT !.rev = @ + 1, !.test = FALSE])
  PROVE  FilesStep
  <1>1. doc[j] \in Docs
    BY DocFacts
  <1>2. PICK d \in Docs : /\ d = [doc[j] EXCEPT !.rev = @ + 1, !.test = FALSE]
                          /\ d.cfg = doc[j].cfg /\ d.log = doc[j].log
    <2>1. \A x \in Docs : /\ [x EXCEPT !.rev = @ + 1, !.test = FALSE] \in Docs
                          /\ [x EXCEPT !.rev = @ + 1, !.test = FALSE].cfg = x.cfg
                          /\ [x EXCEPT !.rev = @ + 1, !.test = FALSE].log = x.log
      BY DocChanges DEF Levels
    <2>2. QED
      BY <1>1, <2>1
  <1>3. Save(j, d)
    BY <1>2
  <1>4. Indices(j) /\ doc'[j] = d /\ doc'[j] # None => DocStep(j)
    BY <1>2 DEF DocStep, Kept
  <1>5. QED
    BY <1>3, <1>4, SaveStep

\* A request at work on a Job is one of its holders.
LEMMA HoldsFacts ==
  ASSUME Typed, NEW o \in Ids, ops[o].kind # "put", ops[o].pc # "done"
  PROVE  ops[o].job \in Jobs /\ o \in Holders(ops[o].job)
  BY OpFacts DEF Holders

\* Every step writes documents in this way only.
LEMMA FilesStoring ==
  ASSUME Typed, Placed, There, NEW o \in Ids, Stores(o)
  PROVE  FilesStep
  <1>1. CASE StoreUpdate(o)
    <2>1. /\ ops[o].kind = "update" /\ ops[o].pc = "store" /\ Save(ops[o].job, ops[o].want)
          /\ ops[o].want \in Docs
      BY <1>1 DEF StoreUpdate, Is, Placed, Fits
    <2>2. PICK j \in Jobs, d \in Docs : j = ops[o].job /\ d = ops[o].want /\ o \in Holders(j)
      BY <2>1, HoldsFacts
    <2>3. Indices(j) /\ doc'[j] = d /\ doc'[j] # None => DocStep(j)
      BY <2>1, <2>2 DEF DocStep, Rewritten
    <2>4. QED
      BY <2>1, <2>2, <2>3, SaveStep
  <1>2. CASE StoreCreate(o)
    <2>1. /\ ops[o].kind = "create" /\ ops[o].pc = "store" /\ Save(ops[o].job, ops[o].want)
          /\ ops[o].want \in Docs
      BY <1>2 DEF StoreCreate, Is, Placed, Fits
    <2>2. PICK j \in Jobs, d \in Docs : j = ops[o].job /\ d = ops[o].want /\ o \in Holders(j)
      BY <2>1, HoldsFacts
    <2>3. Indices(j) /\ doc'[j] = d /\ doc'[j] # None => DocStep(j)
      BY <2>1, <2>2 DEF DocStep, Rewritten
    <2>4. QED
      BY <2>1, <2>2, <2>3, SaveStep
  <1>3. CASE Install(o)
    <2>1. CASE UNCHANGED stored
      BY <2>1, FilesRest
    <2>2. CASE service = "absent" /\ ops[o].kind = "create"
               /\ doc' = [doc EXCEPT ![ops[o].job] = None]
               /\ idx' = [idx EXCEPT ![ops[o].job] = None] /\ UNCHANGED cut
      <3>1. ops[o].pc # "done" /\ ops'[o].pc = "done"
        BY <1>3, WorkGoesOn DEF Install, At
      <3>2. PICK j \in Jobs : j = ops[o].job /\ o \in Holders(j)
        BY <2>2, <3>1, HoldsFacts
      <3>3. doc'[j] = None => DocStep(j)
        BY <2>2, <3>1, <3>2 DEF DocStep, Dropped, Runs
      <3>4. doc' = [doc EXCEPT ![j] = None] /\ idx' = [idx EXCEPT ![j] = None] /\ cut' \in {cut, cut \ {j}}
        BY <2>2, <3>2
      <3>5. QED
        BY <3>3, <3>4, ClearStep
    <2>3. QED
      BY <1>3, <2>1, <2>2 DEF Install
  <1>4. CASE StoreLog(o)
    <2>1. /\ ops[o].kind = "log" /\ ops[o].pc = "store" /\ Save(ops[o].job, ops[o].want)
          /\ ops[o].want \in Docs
      BY <1>4 DEF StoreLog, Is, Placed, Fits
    <2>2. PICK j \in Jobs, d \in Docs : j = ops[o].job /\ d = ops[o].want /\ o \in Holders(j)
      BY <2>1, HoldsFacts
    <2>3. ops'[o].pc # "store"
      BY <1>4, WorkGoesOn
    <2>4. Indices(j) /\ doc'[j] = d /\ doc'[j] # None => DocStep(j)
      BY <2>1, <2>2, <2>3 DEF DocStep, Levelled
    <2>5. QED
      BY <2>1, <2>2, <2>4, SaveStep
  <1>5. CASE Discard(o)
    <2>1. ops[o].kind = "delete" /\ ops[o].pc # "done" /\ ops'[o].pc = "done"
      BY <1>5, WorkGoesOn DEF Discard, At, Placed, Fits, Suits
    <2>2. PICK j \in Jobs : j = ops[o].job /\ o \in Holders(j)
      BY <2>1, HoldsFacts
    <2>3. CASE Busy(j)
      <3>1. UNCHANGED stored
        BY <1>5, <2>2, <2>3 DEF Discard
      <3>2. QED
        BY <3>1, FilesRest
    <2>4. CASE ~Busy(j)
      <3>1. /\ doc' = [doc EXCEPT ![j] = None]
            /\ \/ idx' = [idx EXCEPT ![j] = None] /\ cut' \in {cut, cut \ {j}}
               \/ cut' = cut \cup {j} /\ UNCHANGED idx
        BY <1>5, <2>2, <2>4 DEF Discard
      <3>2. ~Runs(j)
        BY <2>4 DEF Runs, Busy, Shown
      <3>3. doc'[j] = None => DocStep(j)
        BY <2>1, <2>2, <3>2 DEF DocStep, Dropped
      <3>4. QED
        BY <3>1, <3>3, ClearStep
    <2>5. QED
      BY <2>3, <2>4
  <1>6. CASE Normalise(o)
    <2>1. ops[o].todo \in SUBSET Jobs
      BY <1>6, OpFacts DEF Normalise, At, Placed, Fits, Suits
    <2>2. \/ UNCHANGED stored
          \/ \E j \in Jobs : doc[j] # None /\ Save(j, [doc[j] EXCEPT !.rev = @ + 1, !.test = FALSE])
      BY <1>6, <2>1 DEF Normalise
    <2>3. QED
      BY <2>2, FilesRest, ClearsTest
  <1>7. CASE Recheck(o)
    <2>1. ops[o].kind = "start" /\ ops[o].pc # "done"
      BY <1>7 DEF Recheck, At, Placed, Fits, Suits
    <2>2. PICK j \in Jobs : j = ops[o].job /\ o \in Holders(j) /\ doc[j] # None
      BY <2>1, HoldsFacts DEF There
    <2>3. UNCHANGED stored \/ Save(j, [doc[j] EXCEPT !.rev = @ + 1, !.test = FALSE])
      BY <1>7, <2>2 DEF Recheck
    <2>4. QED
      BY <2>2, <2>3, FilesRest, ClearsTest
  <1>8. QED
    BY <1>1, <1>2, <1>3, <1>4, <1>5, <1>6, <1>7 DEF Stores

\* A create clears what an interrupted create or delete has left.
LEMMA FilesCreating ==
  ASSUME Typed, NEW j \in Jobs, NEW test \in BOOLEAN, Create(j, test)
  PROVE  FilesStep
  <1>1. ~Registered(j) /\ Holders(j) = {}
    BY DEF Create, Request, Lock
  <1>2. doc'[j] = None => DocStep(j)
    BY <1>1 DEF DocStep, Cleared
  <1>3. /\ doc' = [doc EXCEPT ![j] = None] /\ idx' = [idx EXCEPT ![j] = None]
        /\ cut' \in {cut, cut \ {j}}
    BY DEF Create
  <1>4. QED
    BY <1>2, <1>3, ClearStep

\* Whatever happens, documents change in this way only.
LEMMA Files ==
  ASSUME Typed, Placed, There, Next
  PROVE  FilesStep
  BY Cases, DocFrame, FilesRest, FilesStoring, FilesCreating

-----------------------------------------------------------------------------
(* What a step does to the requests, and types                             *)

\* Requests come or go on.
LEMMA RequestsStep ==
  ASSUME Typed, Placed, Commanded, Next
  PROVE  \/ Onward
         \/ \E r \in Requests \cup Puts : Joined(r)
  <1>1. ASSUME NEW j \in Jobs, Arrives(j) \/ \E test \in BOOLEAN : Create(j, test)
        PROVE  \E r \in Requests \cup Puts : Joined(r)
    BY <1>1, ArrivalJoins DEF Arrives
  <1>2. ASSUME NEW t \in Tables, Put(t)
        PROVE  \E r \in Requests \cup Puts : Joined(r)
    BY <1>2, PutJoins
  <1>3. ASSUME NEW o \in Ids, Stores(o) \/ Proceeds(o)
        PROVE  Onward
    BY <1>3, WorkGoesOn, EnsureGoesOn DEF Stores, Proceeds
  <1>4. ASSUME Collects
        PROVE  Onward
    <2>1. CASE \E j \in Jobs : Progress(j)
      BY <2>1, Rests DEF Progress
    <2>2. CASE \E c \in commands : Serve(c)
      BY <2>2, Serves
    <2>3. CASE CollectorDies
      BY <2>3, CollectorDiesGoesOn
    <2>4. CASE Publish
      BY <2>4, Rests DEF Publish
    <2>5. CASE Boot
      BY <2>5, Rests DEF Boot
    <2>6. QED
      BY <1>4, <2>1, <2>2, <2>3, <2>4, <2>5 DEF Collects
  <1>5. QED
    BY <1>1, <1>2, <1>3, <1>4, Cases

\* The records stay well formed, and fit their steps.
LEMMA PlacedStep ==
  ASSUME Typed, Placed, Commanded, Next
  PROVE  ops' \in Seq(Requests \cup Puts) /\ Placed'
  <1>1. CASE Onward
    <2>1. ops' \in Seq(Requests \cup Puts) /\ DOMAIN ops' = Ids
      BY <1>1 DEF Onward
    <2>2. \A o \in Ids : Fits(ops'[o])
      BY <1>1 DEF Onward
    <2>3. QED
      BY <2>1, <2>2 DEF Placed, Fits, Suits, Ids
  <1>2. CASE \E r \in Requests \cup Puts : Joined(r)
    <2>1. PICK r \in Requests \cup Puts : Joined(r)
      BY <1>2
    <2>2. /\ DOMAIN ops' = Ids \cup {Len(ops) + 1} /\ ops'[Len(ops) + 1] = r
          /\ \A o \in Ids : ops'[o] = ops[o]
          /\ ops' \in Seq(Requests \cup Puts)
      BY <2>1, JoinedFacts
    <2>3. Fits(r) /\ \A o \in Ids : Fits(ops[o])
      BY <2>1 DEF Joined, Placed
    <2>4. \A o \in DOMAIN ops' : Fits(ops'[o])
      BY <2>2, <2>3
    <2>5. QED
      BY <2>2, <2>4 DEF Placed, Fits, Suits, Ids
  <1>3. QED
    BY <1>1, <1>2, RequestsStep

\* The files keep their types.
LEMMA TypedFilesStep ==
  ASSUME Typed, Placed, There, Next
  PROVE  TypedFiles'
  <1>1. doc' \in [Jobs -> Docs \cup {None}] /\ idx' \in [Jobs -> Docs \cup {None}]
    BY Files DEF FilesStep
  <1>2. table \in Tables /\ secret \in Tables /\ split \in BOOLEAN
    BY DEF Typed, TypedFiles
  <1>3. table' \in Tables /\ secret' \in Tables /\ split' \in BOOLEAN
    <2>1. ASSUME NEW j \in Jobs, Arrives(j) \/ \E test \in BOOLEAN : Create(j, test)
          PROVE  table' \in Tables /\ secret' \in Tables /\ split' \in BOOLEAN
      BY <1>2, <2>1 DEF Arrives, Create, Update, UpdateLog, Start, InstallJob, Stop, Delete, profile
    <2>2. ASSUME NEW t \in Tables, Put(t)
          PROVE  table' \in Tables /\ secret' \in Tables /\ split' \in BOOLEAN
      BY <1>2, <2>2 DEF Put, profile
    <2>3. ASSUME NEW o \in Ids, Stores(o)
          PROVE  table' \in Tables /\ secret' \in Tables /\ split' \in BOOLEAN
      BY <1>2, <2>3 DEF Stores, StoreUpdate, StoreCreate, Install, StoreLog, Discard, Normalise,
                        Recheck, profile
    <2>4. ASSUME NEW o \in Ids, Proceeds(o)
          PROVE  table' \in Tables /\ secret' \in Tables /\ split' \in BOOLEAN
      <3>1. CASE Commit(o)
        <4>1. ops[o].to \in Tables
          BY <3>1, OpFacts DEF Commit, At, Placed, Fits, Suits
        <4>2. QED
          BY <1>2, <3>1, <4>1 DEF Commit
      <3>2. CASE Dies(o)
        BY <1>2, <3>2 DEF Dies
      <3>3. CASE Sync(o)
        BY <1>2, <3>3 DEF Sync
      <3>4. CASE \/ Finish(o) \/ Ensure(o) \/ ListTests(o) \/ EnsureRunning(o)
                 \/ Register(o) \/ Exec(o) \/ Timeout(o)
        BY <1>2, <3>4 DEF Finish, Ensure, ListTests, EnsureRunning, Register, Exec, Timeout, profile
      <3>5. QED
        BY <2>4, <3>1, <3>2, <3>3, <3>4 DEF Proceeds
    <2>5. ASSUME Collects
          PROVE  table' \in Tables /\ secret' \in Tables /\ split' \in BOOLEAN
      BY <1>2, <2>5 DEF Collects, Progress, Serve, CollectorDies, Publish, Boot, profile
    <2>6. QED
      BY <2>1, <2>2, <2>3, <2>4, <2>5, Cases
  <1>4. QED
    BY <1>1, <1>3 DEF TypedFiles

\* What a Job is started with is well typed.
LEMMA LoadedFits ==
  ASSUME Typed, NEW j \in Jobs, Loads(j)
  PROVE  Loaded(j) \in Confs /\ Loaded(j).cfg = doc[j].cfg /\ Loaded(j).log = doc[j].log
         /\ Loaded(j).table = secret
  <1>1. doc[j] \in Docs /\ secret \in Tables
    BY DocFacts DEF Loads, Registered, Typed, TypedFiles
  <1>2. PICK t \in BOOLEAN : t = (doc[j].test /\ secret = "bench")
    OBVIOUS
  <1>3. Loaded(j) = [cfg |-> doc[j].cfg, log |-> doc[j].log, table |-> secret, test |-> t]
    BY <1>2 DEF Loaded
  <1>4. doc[j].cfg \in Nat /\ doc[j].log \in Levels
    BY <1>1 DEF Docs
  <1>5. QED
    BY <1>1, <1>3, <1>4 DEF Confs

-----------------------------------------------------------------------------
(* What a step does to the Jobs that run                                   *)

\* A Job that runs after a step has run before, with the same configuration for the
\* same table, or is started with what is stored: for request o, or by a collector
\* that boots.
Continued(j) ==
  /\ Runs(j) /\ conf'[j].cfg = conf[j].cfg /\ conf'[j].table = conf[j].table
  /\ j \in stale' <=> j \in stale
  /\ j \in unguarded' <=> j \in unguarded
Launched(j, o) ==
  /\ Loads(j) /\ conf'[j] = Loaded(j)
  /\ split => j \in stale'
  /\ Others(j, o) => j \in unguarded'
  /\ o = 0 \/ (o \in Ids /\ ops[o].kind = "start")
  /\ UNCHANGED <<doc, idx, table, secret, split>> /\ Onward
Ran(j) == service' = "running" /\ state'[j] \in {"starting", "running"}
RunStep == \A j \in Jobs : Ran(j) => Continued(j) \/ \E o \in Ids \cup {0} : Launched(j, o)

\* The Jobs run on when the collector does nothing.
LEMMA RunsOn ==
  ASSUME Typed, UNCHANGED <<state, conf, stale, unguarded>>, service' = "running" => service = "running"
  PROVE  RunStep
  BY DEF RunStep, Ran, Continued, Runs

\* The steps of requests start nothing.
LEMMA RunFrame ==
  ASSUME Typed
  PROVE  /\ \A j \in Jobs : Arrives(j) => RunStep /\ UNCHANGED collector
         /\ \A j \in Jobs : \A test \in BOOLEAN :
              Create(j, test) => RunStep /\ UNCHANGED <<service, active, state, conf, commands>>
         /\ \A t \in Tables : Put(t) => RunStep /\ UNCHANGED collector
         /\ \A o \in Ids : Stores(o) =>
              /\ RunStep /\ UNCHANGED <<active, state, conf, commands>>
              /\ service' \in {service, "stopped"}
         /\ \A o \in Ids : Proceeds(o) =>
              /\ RunStep /\ UNCHANGED <<active, state, conf>>
              /\ service' \in {service, "stopped"}
              /\ UNCHANGED commands \/ Exec(o)
  <1>1. \A j \in Jobs : Arrives(j) => UNCHANGED collector
    BY DEF Arrives, Update, UpdateLog, Start, InstallJob, Stop, Delete
  <1>2. \A j \in Jobs : \A test \in BOOLEAN : Create(j, test) => UNCHANGED collector
    BY DEF Create
  <1>3. \A t \in Tables : Put(t) => UNCHANGED collector
    BY DEF Put
  <1>4. \A o \in Ids : Stores(o) => /\ UNCHANGED <<active, state, conf, commands, stale, unguarded>>
                                    /\ service' \in {service, "stopped"}
    BY DEF Stores, StoreUpdate, StoreCreate, Install, StoreLog, Discard, Normalise, Recheck, collector
  <1>5. \A o \in Ids : Proceeds(o) => /\ UNCHANGED <<active, state, conf, stale, unguarded>>
                                      /\ service' \in {service, "stopped"}
                                      /\ UNCHANGED commands \/ Exec(o)
    BY DEF Proceeds, Finish, Ensure, Commit, ListTests, Sync, EnsureRunning, Register, Exec,
           Timeout, Dies, collector
  <1>6. QED
    BY <1>1, <1>2, <1>3, <1>4, <1>5, RunsOn DEF collector

\* Of the collector's steps, commands and a boot start Jobs.
LEMMA RunCollects ==
  ASSUME Typed, Placed, Commanded, Collects
  PROVE  RunStep
  <1>1. ASSUME NEW j \in Jobs, Progress(j)
        PROVE  RunStep
    BY <1>1 DEF Progress, RunStep, Ran, Continued, Runs, Typed, TypedCollector
  <1>2. ASSUME NEW c \in commands, Serve(c)
        PROVE  RunStep
    <2>1. CASE c.act = "start" /\ Loads(c.job) /\ Started({c.job}, c.op)
      <3>1. /\ c.op \in Ids /\ ops[c.op].kind = "start" /\ Onward /\ c.job \in Jobs
            /\ UNCHANGED <<doc, idx, table, secret, split, service>> /\ service = "running"
        BY <1>2, <2>1, CommandFacts, Serves
      <3>2. \A j \in Jobs \ {c.job} : Ran(j) => Continued(j)
        BY <2>1, <3>1 DEF Started, Ran, Continued, Runs
      <3>3. Launched(c.job, c.op)
        BY <2>1, <3>1 DEF Started, Launched
      <3>4. QED
        BY <3>1, <3>2, <3>3 DEF RunStep
    <2>2. CASE c.act = "start" /\ UNCHANGED <<active, state, conf, stale, unguarded, unheard>>
      BY <1>2, <2>2, Serves, RunsOn
    <2>3. CASE /\ c.act = "stop" /\ UNCHANGED <<conf, stale, unguarded>>
               /\ state' = state \/ state' = [state EXCEPT ![c.job] = "stopping"]
      <3>1. service = "running" /\ UNCHANGED service /\ state \in [Jobs -> States]
        BY <1>2, Serves DEF Typed, TypedCollector
      <3>2. QED
        BY <2>3, <3>1 DEF RunStep, Ran, Continued, Runs
    <2>4. CASE /\ c.act = "refresh" /\ UNCHANGED <<active, state, stale, unguarded>>
               /\ conf' = IF Loads(c.job) THEN [conf EXCEPT ![c.job].log = doc[c.job].log] ELSE conf
      <3>1. service = "running" /\ UNCHANGED service /\ conf \in [Jobs -> Confs]
        BY <1>2, Serves DEF Typed, TypedCollector
      <3>2. \A j \in Jobs : conf'[j].cfg = conf[j].cfg /\ conf'[j].table = conf[j].table
        BY <2>4, <3>1 DEF Confs
      <3>3. QED
        BY <2>4, <3>1, <3>2 DEF RunStep, Ran, Continued, Runs
    <2>5. QED
      BY <1>2, <2>1, <2>2, <2>3, <2>4, Serves
  <1>3. CASE CollectorDies
    BY <1>3 DEF CollectorDies, RunStep, Ran
  <1>4. CASE Publish
    BY <1>4, RunsOn DEF Publish, collector
  <1>5. CASE Boot
    <2>1. PICK js \in SUBSET active :
            /\ js = {j \in active : Loads(j)}
            /\ state' = [j \in Jobs |-> IF j \in js THEN "starting" ELSE "none"]
            /\ conf' = [j \in Jobs |-> IF j \in js THEN Loaded(j) ELSE conf[j]]
            /\ stale' = IF split THEN js ELSE {}
            /\ unguarded' = {j \in js : Others(j, 0)}
      BY <1>5 DEF Boot
    <2>2. UNCHANGED <<doc, idx, table, secret, split>> /\ Onward
      BY <1>5, Rests DEF Boot, stored, profile
    <2>3. ASSUME NEW j \in Jobs, Ran(j)
          PROVE  Launched(j, 0)
      <3>1. j \in js
        BY <2>1, <2>3 DEF Ran
      <3>2. QED
        BY <2>1, <2>2, <3>1 DEF Launched
    <2>4. QED
      BY <2>3 DEF RunStep
  <1>6. QED
    BY <1>1, <1>2, <1>3, <1>4, <1>5 DEF Collects

\* Whatever happens, Jobs run on or are started with what is stored.
LEMMA Running ==
  ASSUME Typed, Placed, Commanded, Next
  PROVE  RunStep
  BY Cases, RunFrame, RunCollects

\* The collector's side keeps its types.
LEMMA TypedCollectorStep ==
  ASSUME Typed, Placed, Commanded, Next
  PROVE  TypedCollector'
  <1>1. /\ service \in {"absent", "stopped", "running"} /\ active \in SUBSET Jobs
        /\ state \in [Jobs -> States] /\ conf \in [Jobs -> Confs] /\ commands \in SUBSET Commands
    BY DEF Typed, TypedCollector
  <1>2. ASSUME UNCHANGED <<active, state, conf, commands>>, service' \in {service, "stopped"}
        PROVE  TypedCollector'
    BY <1>1, <1>2 DEF TypedCollector
  <1>3. ASSUME NEW j \in Jobs, Arrives(j) \/ \E test \in BOOLEAN : Create(j, test)
        PROVE  TypedCollector'
    BY <1>2, <1>3, RunFrame DEF collector
  <1>4. ASSUME NEW t \in Tables, Put(t)
        PROVE  TypedCollector'
    BY <1>2, <1>4, RunFrame DEF collector
  <1>5. ASSUME NEW o \in Ids, Stores(o) \/ Proceeds(o)
        PROVE  TypedCollector'
    <2>1. CASE Exec(o)
      <3>1. ops[o].kind \in {"start", "stop", "log"}
        BY <2>1 DEF Exec, At, Placed, Fits, Suits
      <3>2. o \in Nat /\ ops[o].job \in Jobs /\ Act(o) \in {"start", "stop", "refresh"}
        BY <3>1, OpFacts DEF Act
      <3>3. [act |-> Act(o), job |-> ops[o].job, op |-> o] \in Commands
        BY <3>2 DEF Commands
      <3>4. QED
        BY <1>1, <2>1, <3>3 DEF Exec, TypedCollector
    <2>2. CASE ~Exec(o)
      BY <1>2, <1>5, <2>2, RunFrame
    <2>3. QED
      BY <2>1, <2>2
  <1>6. CASE Collects
    <2>1. ASSUME NEW j \in Jobs, Progress(j)
          PROVE  TypedCollector'
      BY <1>1, <2>1 DEF Progress, TypedCollector, States
    <2>2. ASSUME NEW c \in commands, Serve(c)
          PROVE  TypedCollector'
      <3>1. c.job \in Jobs /\ service' = service /\ commands' \in SUBSET Commands
        BY <1>1, <2>2, CommandFacts, Serves
      <3>2. CASE Loads(c.job) /\ Started({c.job}, c.op) /\ active' = active \cup {c.job}
        <4>1. Loaded(c.job) \in Confs
          BY <3>1, <3>2, LoadedFits
        <4>2. state' \in [Jobs -> States] /\ conf' \in [Jobs -> Confs]
          BY <1>1, <3>1, <3>2, <4>1 DEF Started, States
        <4>3. QED
          BY <1>1, <3>1, <3>2, <4>2 DEF TypedCollector
      <3>3. CASE UNCHANGED <<active, state, conf>>
        BY <1>1, <3>1, <3>3 DEF TypedCollector
      <3>4. CASE /\ active' = active \ {c.job} /\ UNCHANGED conf
                 /\ state' = state \/ state' = [state EXCEPT ![c.job] = "stopping"]
        BY <1>1, <3>1, <3>4 DEF TypedCollector, States
      <3>5. CASE /\ UNCHANGED <<active, state>>
                 /\ conf' = IF Loads(c.job) THEN [conf EXCEPT ![c.job].log = doc[c.job].log] ELSE conf
        <4>1. CASE Loads(c.job)
          <5>1. doc[c.job] \in Docs
            BY <3>1, <4>1, DocFacts DEF Loads, Registered
          <5>2. doc[c.job].log \in Levels /\ conf' = [conf EXCEPT ![c.job].log = doc[c.job].log]
            BY <3>5, <4>1, <5>1 DEF Docs
          <5>3. conf' \in [Jobs -> Confs]
            BY <1>1, <3>1, <5>2 DEF Confs
          <5>4. QED
            BY <1>1, <3>1, <3>5, <5>3 DEF TypedCollector
        <4>2. CASE ~Loads(c.job)
          BY <1>1, <3>1, <3>5, <4>2 DEF TypedCollector
        <4>3. QED
          BY <4>1, <4>2
      <3>6. QED
        BY <2>2, <3>2, <3>3, <3>4, <3>5, Serves
    <2>3. CASE CollectorDies
      BY <1>1, <2>3 DEF CollectorDies, TypedCollector
    <2>4. CASE Publish
      BY <1>2, <2>4 DEF Publish, collector
    <2>5. CASE Boot
      <3>1. PICK js \in SUBSET active :
              /\ js = {j \in active : Loads(j)} /\ active' = js
              /\ state' = [j \in Jobs |-> IF j \in js THEN "starting" ELSE "none"]
              /\ conf' = [j \in Jobs |-> IF j \in js THEN Loaded(j) ELSE conf[j]]
        BY <2>5 DEF Boot
      <3>2. \A j \in js : Loaded(j) \in Confs
        BY <1>1, <3>1, LoadedFits
      <3>3. state' \in [Jobs -> States] /\ conf' \in [Jobs -> Confs] /\ active' \in SUBSET Jobs
        BY <1>1, <3>1, <3>2 DEF States
      <3>4. service' = "running" /\ UNCHANGED commands
        BY <2>5 DEF Boot
      <3>5. QED
        BY <1>1, <3>3, <3>4 DEF TypedCollector
    <2>6. QED
      BY <1>6, <2>1, <2>2, <2>3, <2>4, <2>5 DEF Collects
  <1>7. QED
    BY <1>3, <1>4, <1>5, <1>6, Cases

\* Every command is of a request, and says what the request wants.
LEMMA CommandedStep ==
  ASSUME Typed, Placed, Commanded, Next
  PROVE  Commanded'
  <1>1. ASSUME Onward, commands' \subseteq commands
        PROVE  Commanded'
    BY <1>1, CommandFacts DEF Commanded, Onward, Act, Ids
  <1>2. ASSUME NEW r \in Requests \cup Puts, Joined(r)
        PROVE  Commanded'
    <2>1. /\ DOMAIN ops' = Ids \cup {Len(ops) + 1} /\ \A o \in Ids : ops'[o] = ops[o]
          /\ commands' = commands
      BY <1>2, JoinedFacts DEF Joined
    <2>2. QED
      BY <2>1, CommandFacts DEF Commanded, Act, Ids
  <1>3. ASSUME NEW o \in Ids, Exec(o)
        PROVE  Commanded'
    <2>1. Onward /\ ops[o].kind \in {"start", "stop", "log"}
      BY <1>3, WorkGoesOn DEF Exec, At, Placed, Fits, Suits
    <2>2. PICK d : /\ d.act = Act(o) /\ d.job = ops[o].job /\ d.op = o
                   /\ commands' = commands \cup {d}
      BY <1>3 DEF Exec
    <2>3. QED
      BY <2>1, <2>2, CommandFacts DEF Commanded, Onward, Act, Ids
  <1>4. ASSUME NEW j \in Jobs, Arrives(j) \/ \E test \in BOOLEAN : Create(j, test)
        PROVE  Commanded'
    BY <1>2, <1>4, ArrivalJoins DEF Arrives
  <1>5. ASSUME NEW t \in Tables, Put(t)
        PROVE  Commanded'
    BY <1>2, <1>5, PutJoins
  <1>6. ASSUME NEW o \in Ids, Stores(o) \/ Proceeds(o)
        PROVE  Commanded'
    <2>1. Onward
      BY <1>6, WorkGoesOn, EnsureGoesOn DEF Stores, Proceeds
    <2>2. Exec(o) \/ UNCHANGED commands
      BY <1>6, RunFrame
    <2>3. QED
      BY <1>1, <1>3, <2>1, <2>2
  <1>7. CASE Collects
    <2>1. Onward /\ commands' \subseteq commands
      <3>1. CASE \E j \in Jobs : Progress(j)
        BY <3>1, Rests DEF Progress
      <3>2. CASE \E c \in commands : Serve(c)
        BY <3>2, Serves
      <3>3. CASE CollectorDies
        BY <3>3, CollectorDiesGoesOn DEF CollectorDies
      <3>4. CASE Publish
        BY <3>4, Rests DEF Publish, collector
      <3>5. CASE Boot
        BY <3>5, Rests DEF Boot
      <3>6. QED
        BY <1>7, <3>1, <3>2, <3>3, <3>4, <3>5 DEF Collects
    <2>2. QED
      BY <1>1, <2>1
  <1>8. QED
    BY <1>4, <1>5, <1>6, <1>7, Cases

-----------------------------------------------------------------------------
(* The lock of a Job, and what it protects                                 *)

\* A request that comes is the only one at work on its Job.
LEMMA JoinedHolders ==
  ASSUME Typed, NEW r \in Requests \cup Puts, Joined(r), NEW j \in Jobs
  PROVE  /\ \A o \in Ids : o \in Holders(j)' <=> o \in Holders(j)
         /\ Holders(j)' \subseteq Holders(j) \cup {Len(ops) + 1}
         /\ Len(ops) + 1 \in Holders(j)' => r.kind # "put" /\ r.job = j /\ Holders(j) = {}
  <1>1. /\ Len(ops) + 1 \notin Ids /\ DOMAIN ops' = Ids \cup {Len(ops) + 1}
        /\ ops'[Len(ops) + 1] = r /\ \A o \in Ids : ops'[o] = ops[o]
    BY JoinedFacts
  <1>2. r.kind # "put" => Holders(r.job) = {}
    BY DEF Joined
  <1>3. QED
    BY <1>1, <1>2 DEF Holders, Ids

\* At most one request is at work on a Job.
LEMMA AloneStep ==
  ASSUME Typed, Placed, Commanded, Alone, Next
  PROVE  Alone'
  <1>1. CASE Onward
    BY <1>1, OnwardHolders DEF Alone, Onward, Holders, Ids
  <1>2. ASSUME NEW r \in Requests \cup Puts, Joined(r)
        PROVE  Alone'
    <2>1. \A j \in Jobs : \A o, p \in Holders(j)' : o = p
      BY <1>2, JoinedHolders DEF Alone, Holders
    <2>2. QED
      BY <2>1 DEF Alone
  <1>3. QED
    BY <1>1, <1>2, RequestsStep

\* The document under a request at work is there until that request removes it.
LEMMA ThereStep ==
  ASSUME Typed, Placed, Commanded, Alone, There, Next
  PROVE  There'
  <1>1. \A j \in Jobs : DocStep(j)
    BY Files DEF FilesStep
  <1>2. ASSUME NEW j \in Jobs, NEW o \in Ids, o \in Holders(j), ops[o].kind # "create",
               ops'[o].pc # "done"
        PROVE  doc'[j] # None
    <2>1. doc[j] # None
      BY <1>2 DEF There
    <2>2. ~Cleared(j) /\ ~Dropped(j)
      BY <1>2 DEF Cleared, Dropped, Alone, Holders
    <2>3. QED
      BY <1>1, <2>1, <2>2 DEF DocStep, Kept, Levelled, Rewritten
  <1>3. CASE Onward
    <2>1. ASSUME NEW j \in Jobs, NEW o \in Ids, o \in Holders(j)', ops'[o].kind # "create"
          PROVE  doc'[j] # None
      <3>1. o \in Holders(j) /\ ops[o].kind # "create" /\ ops'[o].pc # "done"
        BY <1>3, <2>1, OnwardHolders DEF Onward, Holders
      <3>2. QED
        BY <1>2, <3>1
    <2>2. QED
      BY <1>3, <2>1 DEF There, Onward, Ids
  <1>4. ASSUME NEW r \in Requests \cup Puts, Joined(r)
        PROVE  There'
    <2>1. /\ DOMAIN ops' = Ids \cup {Len(ops) + 1} /\ ops'[Len(ops) + 1] = r
          /\ \A o \in Ids : ops'[o] = ops[o]
      BY <1>4, JoinedFacts
    <2>2. ASSUME NEW j \in Jobs, NEW o \in Ids, o \in Holders(j)', ops'[o].kind # "create"
          PROVE  doc'[j] # None
      <3>1. o \in Holders(j)
        BY <1>4, <2>2, JoinedHolders
      <3>2. ops[o].kind # "create" /\ ops'[o].pc # "done"
        BY <2>1, <2>2, <3>1 DEF Holders
      <3>3. QED
        BY <1>2, <3>1, <3>2
    <2>3. ASSUME NEW j \in Jobs, Len(ops) + 1 \in Holders(j)', r.kind # "create"
          PROVE  doc'[j] # None
      BY <1>4, <2>3, JoinedHolders DEF Joined
    <2>4. QED
      BY <2>1, <2>2, <2>3 DEF There, Ids
  <1>5. QED
    BY <1>3, <1>4, RequestsStep

\* What a running Job was started with stays stored.
LEMMA StoredStep ==
  ASSUME Typed, Placed, Commanded, Alone, There, Stored, Replaced, Relogged, Next
  PROVE  Stored'
  <1>1. ASSUME NEW j \in Jobs, Ran(j), j \notin unguarded'
        PROVE  doc'[j] # None /\ idx'[j] # None /\ conf'[j].cfg = doc'[j].cfg
    <2>1. CASE \E o \in Ids \cup {0} : Launched(j, o)
      <3>1. Loads(j) /\ conf'[j] = Loaded(j) /\ UNCHANGED <<doc, idx>>
        BY <2>1 DEF Launched
      <3>2. QED
        BY <3>1, LoadedFits DEF Loads, Registered
    <2>2. CASE Continued(j)
      <3>1. Runs(j) /\ j \notin unguarded /\ conf'[j].cfg = conf[j].cfg
        BY <1>1, <2>2 DEF Continued
      <3>2. doc[j] # None /\ idx[j] # None /\ conf[j].cfg = doc[j].cfg
        BY <3>1 DEF Stored, Registered
      <3>3. ~Rewritten(j) /\ ~Cleared(j) /\ ~Dropped(j)
        BY <3>1, <3>2 DEF Rewritten, Cleared, Dropped, Replaced, Registered, Holders
      <3>4. CASE Kept(j)
        BY <3>1, <3>2, <3>4 DEF Kept, Indices
      <3>5. CASE Levelled(j)
        BY <3>1, <3>2, <3>5 DEF Levelled, Indices, Relogged, Is, Holders
      <3>6. QED
        BY <3>3, <3>4, <3>5, Files DEF FilesStep, DocStep
    <2>3. QED
      BY <1>1, <2>1, <2>2, Running DEF RunStep
  <1>2. QED
    BY <1>1 DEF Stored, Runs, Ran, Registered

\* A Job whose document is to be replaced is not started unnoticed.
LEMMA ReplacedStep ==
  ASSUME Typed, Placed, Commanded, Stored, Replaced, Next
  PROVE  Replaced'
  <1>1. ASSUME NEW j \in Jobs, NEW o \in Ids, o \in Holders(j), ops[o].kind \in {"create", "update"}, Ran(j)
        PROVE  j \in unguarded'
    <2>1. CASE Continued(j)
      BY <1>1, <2>1 DEF Continued, Replaced
    <2>2. ASSUME NEW p \in Ids \cup {0}, Launched(j, p)
          PROVE  j \in unguarded'
      <3>1. p # o
        BY <1>1, <2>2, OpFacts DEF Launched
      <3>2. QED
        BY <1>1, <2>2, <3>1 DEF Launched, Others
    <2>3. QED
      BY <1>1, <2>1, <2>2, Running DEF RunStep
  <1>2. CASE Onward
    <2>1. \A j \in Jobs : \A o \in Ids : o \in Holders(j)' => o \in Holders(j)
      BY <1>2, OnwardHolders
    <2>2. QED
      BY <1>1, <1>2, <2>1 DEF Replaced, Onward, Ids, Runs, Ran
  <1>3. ASSUME NEW r \in Requests \cup Puts, Joined(r)
        PROVE  Replaced'
    <2>1. /\ DOMAIN ops' = Ids \cup {Len(ops) + 1} /\ ops'[Len(ops) + 1] = r
          /\ \A o \in Ids : ops'[o] = ops[o]
      BY <1>3, JoinedFacts
    <2>2. \A j \in Jobs : \A o \in Ids : o \in Holders(j)' => o \in Holders(j)
      BY <1>3, JoinedHolders
    <2>3. ASSUME NEW j \in Jobs, Len(ops) + 1 \in Holders(j)', r.kind \in {"create", "update"}, Ran(j)
          PROVE  j \in unguarded'
      <3>1. r.job = j /\ Runs(j) /\ unguarded' = unguarded
        BY <1>3, <2>3, JoinedHolders DEF Joined, Ran, Runs
      <3>2. ~Registered(j)
        BY <1>3, <2>3, <3>1 DEF Joined, Busy, Shown, Runs
      <3>3. QED
        BY <3>1, <3>2 DEF Stored
    <2>4. QED
      BY <1>1, <2>1, <2>2, <2>3 DEF Replaced, Ids, Runs, Ran
  <1>4. QED
    BY <1>2, <1>3, RequestsStep

\* What a change of the log level is about to store is the document with that level.
LEMMA ReloggedStep ==
  ASSUME Typed, Placed, Commanded, Alone, There, Relogged, Next
  PROVE  Relogged'
  <1>1. ASSUME NEW o \in Ids, Is(o, "log", "store"), ops'[o].pc = "store", ops'[o].want = ops[o].want
        PROVE  ops'[o].want.cfg = doc'[ops[o].job].cfg
    <2>1. PICK j \in Jobs : j = ops[o].job /\ o \in Holders(j)
      BY <1>1, HoldsFacts DEF Is
    <2>2. ops[o].want.cfg = doc[j].cfg /\ ops[o].kind = "log" /\ ops[o].pc = "store"
      BY <1>1, <2>1 DEF Relogged, Is
    <2>3. \A p \in Holders(j) : p = o
      BY <2>1 DEF Alone, Holders
    <2>4. ~Levelled(j) /\ ~Rewritten(j) /\ ~Cleared(j) /\ ~Dropped(j)
      BY <1>1, <2>1, <2>2, <2>3 DEF Levelled, Rewritten, Cleared, Dropped
    <2>5. Kept(j)
      BY <2>4, Files DEF FilesStep, DocStep
    <2>6. QED
      BY <1>1, <2>1, <2>2, <2>5 DEF Kept
  <1>2. CASE Onward
    <2>1. \A o \in Ids : ops'[o].kind = "log" /\ ops'[o].pc = "store"
                           => /\ Is(o, "log", "store") /\ ops'[o].want = ops[o].want
                              /\ ops'[o].job = ops[o].job
      BY <1>2 DEF Onward, Is
    <2>2. QED
      BY <1>1, <1>2, <2>1 DEF Relogged, Is, Onward, Ids
  <1>3. ASSUME NEW r \in Requests \cup Puts, Joined(r)
        PROVE  Relogged'
    <2>1. /\ DOMAIN ops' = Ids \cup {Len(ops) + 1} /\ ops'[Len(ops) + 1] = r
          /\ \A o \in Ids : ops'[o] = ops[o]
      BY <1>3, JoinedFacts
    <2>2. r.kind = "log" => r.want.cfg = doc'[r.job].cfg
      BY <1>3 DEF Joined
    <2>3. QED
      BY <1>1, <2>1, <2>2 DEF Relogged, Is, Ids
  <1>4. QED
    BY <1>2, <1>3, RequestsStep

-----------------------------------------------------------------------------
(* The profile                                                             *)

\* A request at work leaves the others where they are.
LEMMA OthersRest ==
  ASSUME Typed, NEW o \in Ids, Stores(o) \/ Proceeds(o)
  PROVE  \A x \in Ids \ {o} : ops'[x] = ops[x]
  <1>1. ops \in Seq(Requests \cup Puts)
    BY DEF Typed
  <1>2. CASE Stores(o)
    BY <1>1, <1>2 DEF Stores, StoreUpdate, StoreCreate, Install, StoreLog, Discard, Normalise,
                      Recheck, End, Goto, Ids
  <1>3. CASE Proceeds(o)
    BY <1>1, <1>3 DEF Proceeds, Finish, Ensure, Commit, ListTests, Sync, EnsureRunning, Register,
                      Exec, Timeout, Dies, End, Goto, Ids
  <1>4. QED
    BY <1>2, <1>3

\* The collector's copy differs from the profile only while a save is under way or
\* has broken off.
LEMMA PublishedStep ==
  ASSUME Typed, Placed, Commanded, Published, Next
  PROVE  Published'
  <1> DEFINE Saving(x) == x \in DOMAIN ops' /\ ops'[x].pc \in {"list", "normalise"}
  <1>1. ASSUME \/ split'
               \/ secret' = table'
               \/ \E x \in Ids : Saving(x)
        PROVE  Published'
    BY <1>1 DEF Published, Publishing, Ids
  <1>2. ASSUME UNCHANGED <<table, secret, split>>, \A x \in Ids : Publishing(x) => Saving(x)
        PROVE  Published'
    BY <1>1, <1>2 DEF Published
  <1>3. ASSUME NEW r \in Requests \cup Puts, Joined(r), NEW x \in Ids, Publishing(x)
        PROVE  Saving(x)
    BY <1>3, JoinedFacts DEF Publishing
  <1>4. ASSUME NEW j \in Jobs, Arrives(j) \/ \E test \in BOOLEAN : Create(j, test)
        PROVE  Published'
    <2>1. \E r \in Requests \cup Puts : Joined(r)
      BY <1>4, ArrivalJoins DEF Arrives
    <2>2. UNCHANGED <<table, secret, split>> \/ secret' = table'
      BY <1>4 DEF Arrives, Create, Update, UpdateLog, Start, InstallJob, Stop, Delete, profile
    <2>3. QED
      BY <1>1, <1>2, <1>3, <2>1, <2>2
  <1>5. ASSUME NEW t \in Tables, Put(t)
        PROVE  Published'
    <2>1. UNCHANGED <<table, secret, split>>
      BY <1>5 DEF Put, profile
    <2>2. QED
      BY <1>2, <1>3, <1>5, <2>1, PutJoins
  <1>6. ASSUME NEW o \in Ids, Stores(o) \/ Proceeds(o)
        PROVE  Published'
    <2>1. Onward
      BY <1>6, WorkGoesOn, EnsureGoesOn DEF Stores, Proceeds
    <2>2. \A x \in Ids \ {o} : Publishing(x) => Saving(x)
      BY <1>6, <2>1, OthersRest DEF Onward, Publishing
    <2>3. ASSUME UNCHANGED <<table, secret, split>>, ~Publishing(o)
          PROVE  Published'
      BY <1>2, <2>2, <2>3
    <2>4. CASE StoreUpdate(o) \/ StoreLog(o) \/ Install(o) \/ Discard(o) \/ Recheck(o)
      <3>1. UNCHANGED <<table, secret, split>> /\ ~Publishing(o)
        BY <2>4 DEF StoreUpdate, StoreLog, Install, Discard, Recheck, profile, Publishing, Is, At
      <3>2. QED
        BY <2>3, <3>1
    <2>5. CASE StoreCreate(o)
      <3>1. (UNCHANGED <<table, secret, split>> /\ ~Publishing(o)) \/ secret' = table'
        BY <2>5 DEF StoreCreate, profile, Publishing, Is
      <3>2. QED
        BY <1>1, <2>3, <3>1
    <2>6. CASE Normalise(o) \/ ListTests(o)
      <3>1. o \in DOMAIN ops' /\ (ops'[o].pc = "normalise" \/ split')
        BY <2>1, <2>6, WorkGoesOn DEF Onward
      <3>2. QED
        BY <1>1, <3>1
    <2>7. CASE Commit(o)
      <3>1. o \in DOMAIN ops' /\ (ops'[o].pc = "list" \/ UNCHANGED table)
        BY <2>1, <2>7, WorkGoesOn DEF Onward
      <3>2. UNCHANGED <<secret, split>> /\ ~Publishing(o)
        BY <2>7 DEF Commit, At, Publishing
      <3>3. QED
        BY <1>1, <2>3, <3>1, <3>2
    <2>8. CASE Sync(o)
      BY <1>1, <2>8 DEF Sync
    <2>9. CASE Dies(o)
      <3>1. UNCHANGED <<table, secret>> /\ split' = (split \/ Publishing(o))
        BY <2>9 DEF Dies, Publishing
      <3>2. CASE Publishing(o)
        BY <1>1, <3>1, <3>2
      <3>3. CASE ~Publishing(o)
        <4>1. split \in BOOLEAN
          BY DEF Typed, TypedFiles
        <4>2. QED
          BY <2>3, <3>1, <3>3, <4>1
      <3>4. QED
        BY <3>2, <3>3
    <2>10. CASE Finish(o) \/ Ensure(o) \/ EnsureRunning(o) \/ Exec(o) \/ Timeout(o)
      <3>1. UNCHANGED <<table, secret, split>> /\ ~Publishing(o)
        BY <2>10 DEF Finish, Ensure, EnsureRunning, Exec, Timeout, profile, Publishing, At
      <3>2. QED
        BY <2>3, <3>1
    <2>11. CASE Register(o)
      <3>1. UNCHANGED <<table, secret, split>> /\ ~Publishing(o)
        BY <2>11 DEF Register, profile, Publishing, At
      <3>2. QED
        BY <2>3, <3>1
    <2>12. QED
      BY <1>6, <2>4, <2>5, <2>6, <2>7, <2>8, <2>9, <2>10, <2>11 DEF Stores, Proceeds
  <1>7. CASE Collects
    <2>1. CASE Publish
      BY <1>1, <2>1 DEF Publish
    <2>2. CASE ~Publish
      <3>1. UNCHANGED <<table, secret, split>>
        BY <1>7, <2>2 DEF Collects, Progress, Serve, CollectorDies, Boot, profile
      <3>2. Onward /\ \A x \in Ids : ops'[x] = ops[x] \/ ops[x].pc = "wait"
        <4>1. CASE \E j \in Jobs : Progress(j)
          BY <4>1, Rests DEF Progress
        <4>2. CASE \E c \in commands : Serve(c)
          BY <4>2, Serves DEF At
        <4>3. CASE CollectorDies
          BY <4>3, CollectorDiesGoesOn DEF At
        <4>4. CASE Boot
          BY <4>4, Rests DEF Boot
        <4>5. QED
          BY <1>7, <2>2, <4>1, <4>2, <4>3, <4>4 DEF Collects
      <3>3. \A x \in Ids : Publishing(x) => Saving(x)
        BY <3>2 DEF Onward, Publishing
      <3>4. QED
        BY <1>2, <3>1, <3>3
    <2>3. QED
      BY <2>1, <2>2
  <1>8. QED
    BY <1>4, <1>5, <1>6, <1>7, Cases

\* The table of the profile changes only while no Job runs.
LEMMA TableStep ==
  ASSUME Typed, Next
  PROVE  UNCHANGED table \/ \A j \in Jobs : ~Runs(j) /\ ~Ran(j)
  <1>1. ASSUME NEW o \in Ids, Commit(o)
        PROVE  UNCHANGED table \/ \A j \in Jobs : ~Runs(j) /\ ~Ran(j)
    BY <1>1 DEF Commit, Blockers, Runs, Ran, collector
  <1>2. ASSUME NEW j \in Jobs, Arrives(j) \/ \E test \in BOOLEAN : Create(j, test)
        PROVE  UNCHANGED table
    BY <1>2 DEF Arrives, Create, Update, UpdateLog, Start, InstallJob, Stop, Delete, profile
  <1>3. ASSUME NEW t \in Tables, Put(t)
        PROVE  UNCHANGED table
    BY <1>3 DEF Put, profile
  <1>4. ASSUME NEW o \in Ids, Stores(o)
        PROVE  UNCHANGED table
    BY <1>4 DEF Stores, StoreUpdate, StoreCreate, Install, StoreLog, Discard, Normalise, Recheck,
                profile
  <1>5. ASSUME NEW o \in Ids, Proceeds(o), ~Commit(o)
        PROVE  UNCHANGED table
    BY <1>5 DEF Proceeds, Finish, Ensure, ListTests, Sync, EnsureRunning, Register, Exec, Timeout,
                Dies, profile
  <1>6. CASE Collects
    BY <1>6 DEF Collects, Progress, Serve, CollectorDies, Publish, Boot, profile
  <1>7. QED
    BY <1>1, <1>2, <1>3, <1>4, <1>5, <1>6, Cases

\* A Job that runs writes to the table of the profile.
LEMMA InForceStep ==
  ASSUME Typed, Placed, Commanded, Published, ProfileInForce, Next
  PROVE  ProfileInForce'
  <1>1. ASSUME NEW j \in Jobs, Ran(j), j \notin stale', j \notin unguarded'
        PROVE  conf'[j].table = table'
    <2>1. UNCHANGED table
      BY <1>1, TableStep
    <2>2. CASE Continued(j)
      BY <1>1, <2>1, <2>2 DEF Continued, ProfileInForce
    <2>3. ASSUME NEW o \in Ids \cup {0}, Launched(j, o)
          PROVE  conf'[j].table = table
      <3>1. ~split /\ ~Others(j, o) /\ Loads(j) /\ conf'[j] = Loaded(j)
        BY <1>1, <2>3 DEF Launched
      <3>2. ~(\E x \in Ids : Publishing(x))
        <4>1. ASSUME NEW x \in Ids, Publishing(x)
              PROVE  FALSE
          <5>1. ops[x].kind = "put" /\ ops[x].pc # "done"
            BY <4>1 DEF Publishing, Placed, Fits, Suits
          <5>2. x \in ProfileHolders /\ x # o
            BY <2>3, <5>1, OpFacts DEF ProfileHolders, Launched
          <5>3. QED
            BY <3>1, <5>2 DEF Others
        <4>2. QED
          BY <4>1
      <3>3. secret = table
        BY <3>1, <3>2 DEF Published
      <3>4. QED
        BY <3>1, <3>3, LoadedFits
    <2>4. QED
      BY <1>1, <2>1, <2>2, <2>3, Running DEF RunStep
  <1>2. QED
    BY <1>1 DEF ProfileInForce, Runs, Ran

-----------------------------------------------------------------------------
(* The log level                                                           *)

\* The collector learns the level of a Job, or knows no less of it: who was to tell
\* it still is, or is known to have failed.
Tells(j) == \E o \in DOMAIN ops' :
              ops'[o].kind = "log" /\ ops'[o].pc \in {"exec", "wait"} /\ ops'[o].job = j
Keeps(j) ==
  /\ conf'[j].log = conf[j].log
  /\ j \in unheard => j \in unheard'
  /\ \A o \in Ids : Telling(o, j) => Tells(j) \/ j \in unheard'
  /\ Levelled(j) => Kept(j) \/ Tells(j) \/ j \in unheard'
TellStep(j) == conf'[j].log = doc'[j].log \/ Keeps(j)

\* A request of another kind tells the collector nothing.
LEMMA KeepsQuiet ==
  ASSUME Typed, NEW o \in Ids, Onward, UNCHANGED <<conf, unheard>>, ops[o].kind # "log",
         \A x \in Ids \ {o} : ops'[x] = ops[x], NEW j \in Jobs
  PROVE  Keeps(j)
  <1>1. \A x \in Ids : x \in DOMAIN ops'
    BY DEF Onward
  <1>2. ASSUME NEW x \in Ids, Telling(x, j)
        PROVE  Tells(j)
    <2>1. x # o
      BY <1>2 DEF Telling
    <2>2. QED
      BY <1>1, <1>2, <2>1 DEF Telling, Tells
  <1>3. ~Levelled(j)
    BY DEF Levelled, Holders
  <1>4. QED
    BY <1>2, <1>3 DEF Keeps

\* What does a request at work.
LEMMA TellStoring ==
  ASSUME Typed, Placed, NEW o \in Ids, Stores(o), NEW j \in Jobs, Runs(j)
  PROVE  Keeps(j)
  <1>1. Onward /\ \A x \in Ids \ {o} : ops'[x] = ops[x]
    BY WorkGoesOn, OthersRest DEF Stores
  <1>2. UNCHANGED conf
    BY RunFrame
  <1>3. CASE StoreLog(o)
    <2>1. /\ ops[o].kind = "log" /\ ops[o].pc = "store"
          /\ unheard \subseteq unheard'
      BY <1>3 DEF StoreLog, Is
    <2>2. \A x \in Ids : x \in DOMAIN ops' /\ ops'[x].kind = ops[x].kind
      BY <1>1 DEF Onward
    <2>3. ASSUME NEW x \in Ids, Telling(x, j)
          PROVE  Tells(j)
      <3>1. x # o
        BY <2>1, <2>3 DEF Telling
      <3>2. QED
        BY <1>1, <2>2, <2>3, <3>1 DEF Telling, Tells
    <2>4. ASSUME Levelled(j)
          PROVE  Tells(j) \/ j \in unheard'
      <3>1. PICK h \in Holders(j) : /\ ops[h].kind = "log" /\ ops[h].pc = "store"
                                    /\ ops'[h].pc # "store"
        BY <2>4 DEF Levelled
      <3>2. h = o /\ ops[o].job = j
        BY <1>1, <3>1 DEF Holders
      <3>3. Busy(j)
        BY DEF Busy, Shown, Runs
      <3>4. CASE Broken(j) \/ Shown(j) # "running"
        BY <1>3, <3>2, <3>3, <3>4 DEF StoreLog
      <3>5. CASE ~(Broken(j) \/ Shown(j) # "running")
        <4>1. Goto(o, "exec")
          BY <1>3, <3>2, <3>5 DEF StoreLog
        <4>2. "exec" \in Steps /\ ops[o].kind # "put"
          BY <2>1 DEF Steps
        <4>3. ops'[o].pc = "exec" /\ ops'[o].kind = "log" /\ ops'[o].job = j
          BY <2>1, <3>2, <4>1, <4>2, Moves
        <4>4. QED
          BY <2>2, <4>3 DEF Tells
      <3>6. QED
        BY <3>4, <3>5
    <2>5. QED
      BY <1>2, <2>1, <2>3, <2>4 DEF Keeps
  <1>4. CASE ~StoreLog(o)
    <2>1. ops[o].kind # "log" /\ UNCHANGED unheard
      BY <1>4 DEF Stores, StoreUpdate, StoreCreate, Install, Discard, Normalise, Recheck, Is, At,
                  Placed, Fits, Suits
    <2>2. QED
      BY <1>1, <1>2, <2>1, KeepsQuiet
  <1>5. QED
    BY <1>3, <1>4

\* What does a request that goes on or ends.
LEMMA TellProceeding ==
  ASSUME Typed, Placed, NEW o \in Ids, Proceeds(o), NEW j \in Jobs
  PROVE  Keeps(j)
  <1>1. Onward /\ \A x \in Ids \ {o} : ops'[x] = ops[x]
    BY WorkGoesOn, EnsureGoesOn, OthersRest DEF Proceeds
  <1>2. UNCHANGED conf /\ UNCHANGED stored
    BY RunFrame, DocFrame
  <1>3. Kept(j)
    BY <1>2 DEF Kept, Indices, stored
  <1>4. unheard \subseteq unheard'
    BY DEF Proceeds, Finish, Ensure, Commit, ListTests, Sync, EnsureRunning, Register, Exec,
           Timeout, Dies
  <1>5. \A x \in Ids : x \in DOMAIN ops' /\ ops'[x].kind = ops[x].kind
    BY <1>1 DEF Onward
  <1>6. ASSUME NEW x \in Ids \ {o}, Telling(x, j)
        PROVE  Tells(j)
    BY <1>1, <1>5, <1>6 DEF Telling, Tells
  <1>7. ASSUME Telling(o, j)
        PROVE  Tells(j) \/ j \in unheard'
    <2>1. ops[o].kind = "log" /\ ops[o].pc \in {"exec", "wait"} /\ ops[o].job = j
      BY <1>7 DEF Telling
    <2>2. CASE Finish(o)
      BY <2>1, <2>2 DEF Finish, Is
    <2>3. CASE Timeout(o)
      BY <2>1, <2>3 DEF Timeout
    <2>4. CASE Dies(o)
      BY <2>1, <2>4 DEF Dies
    <2>5. CASE Exec(o)
      <3>1. ops'[o].pc = "wait" /\ ops'[o].kind = "log" /\ ops'[o].job = j
        BY <1>1, <2>1, <2>5, WorkGoesOn DEF Onward
      <3>2. QED
        BY <1>5, <3>1 DEF Tells
    <2>6. ~Ensure(o) /\ ~Commit(o) /\ ~ListTests(o) /\ ~Sync(o) /\ ~EnsureRunning(o) /\ ~Register(o)
      BY <2>1 DEF Ensure, Commit, ListTests, Sync, EnsureRunning, Register, At
    <2>7. QED
      BY <2>2, <2>3, <2>4, <2>5, <2>6 DEF Proceeds
  <1>8. QED
    BY <1>2, <1>3, <1>4, <1>6, <1>7 DEF Keeps

\* What the collector does about the level of a Job that runs.
LEMMA TellCollects ==
  ASSUME Typed, Placed, Commanded, Collects, NEW j \in Jobs, Runs(j), Ran(j)
  PROVE  TellStep(j)
  <1>1. UNCHANGED stored
    BY DocFrame
  <1>2. Kept(j)
    BY <1>1 DEF Kept, Indices, stored
  <1>3. ASSUME UNCHANGED <<conf, unheard, ops>>
        PROVE  Keeps(j)
    BY <1>2, <1>3 DEF Keeps, Telling, Tells, Ids
  <1>4. CASE \E x \in Jobs : Progress(x)
    BY <1>3, <1>4 DEF Progress, TellStep
  <1>5. CASE Publish
    BY <1>3, <1>5 DEF Publish, TellStep, collector
  <1>6. ~Boot /\ ~CollectorDies
    BY DEF Boot, CollectorDies, Runs, Ran
  <1>7. ASSUME NEW c \in commands, Serve(c)
        PROVE  TellStep(j)
    <2>1. /\ c.op \in Ids /\ c.job = ops[c.op].job /\ c.job \in Jobs
          /\ c.act = "refresh" <=> ops[c.op].kind = "log"
      BY CommandFacts
    <2>2. Onward /\ \A o \in Ids \ {c.op} : ops'[o] = ops[o]
      BY <1>7, Serves
    <2>3. CASE c.act = "start" /\ Loads(c.job) /\ Started({c.job}, c.op) /\ UNCHANGED unheard
      <3>1. CASE j = c.job
        <4>1. conf'[j].log = doc[j].log
          BY <2>3, <3>1, LoadedFits DEF Started
        <4>2. QED
          BY <1>1, <4>1 DEF TellStep, stored
      <3>2. CASE j # c.job
        <4>1. conf'[j] = conf[j]
          BY <2>3, <3>2 DEF Started
        <4>2. \A x \in Ids : Telling(x, j) => x # c.op /\ x \in DOMAIN ops'
          BY <2>1, <2>2, <2>3 DEF Telling, Onward
        <4>3. \A x \in Ids : Telling(x, j) => Tells(j)
          BY <2>2, <4>2 DEF Telling, Tells
        <4>4. QED
          BY <1>2, <2>3, <4>1, <4>3 DEF TellStep, Keeps
      <3>3. QED
        BY <3>1, <3>2
    <2>4. CASE c.act # "refresh" /\ UNCHANGED <<conf, unheard>>
      BY <2>1, <2>2, <2>4, KeepsQuiet DEF TellStep
    <2>5. CASE /\ c.act = "refresh" /\ Reply(c, Loads(c.job))
               /\ conf' = IF Loads(c.job) THEN [conf EXCEPT ![c.job].log = doc[c.job].log] ELSE conf
      <3>1. conf \in [Jobs -> Confs]
        BY DEF Typed, TypedCollector
      <3>2. CASE j = c.job /\ Loads(c.job)
        <4>1. conf'[j].log = doc[j].log
          BY <2>1, <2>5, <3>1, <3>2 DEF Confs
        <4>2. QED
          BY <1>1, <4>1 DEF TellStep, stored
      <3>3. CASE j = c.job /\ ~Loads(c.job)
        <4>1. conf' = conf
          BY <2>5, <3>3
        <4>2. CASE At(c.op, "wait")
          <5>1. j \in unheard'
            BY <2>5, <3>3, <4>2, Answers
          <5>2. QED
            BY <4>1, <5>1 DEF TellStep, Keeps
        <4>3. CASE ~At(c.op, "wait")
          <5>1. ops' = ops /\ unheard' = unheard
            BY <2>5, <4>3, Answers
          <5>2. QED
            BY <1>3, <4>1, <5>1 DEF TellStep
        <4>4. QED
          BY <4>2, <4>3
      <3>4. CASE j # c.job
        <4>1. conf'[j] = conf[j]
          BY <2>1, <2>5, <3>1, <3>4
        <4>2. j \in unheard => j \in unheard'
          BY <2>5, <3>4 DEF Reply
        <4>3. \A x \in Ids : Telling(x, j) => x # c.op /\ x \in DOMAIN ops'
          BY <2>1, <2>2, <3>4 DEF Telling, Onward
        <4>4. \A x \in Ids : Telling(x, j) => Tells(j)
          BY <2>2, <4>3 DEF Telling, Tells
        <4>5. QED
          BY <1>2, <4>1, <4>2, <4>4 DEF TellStep, Keeps
      <3>5. QED
        BY <3>2, <3>3, <3>4
    <2>6. QED
      BY <1>7, <2>3, <2>4, <2>5, Serves
  <1>8. QED
    BY <1>4, <1>5, <1>6, <1>7 DEF Collects

\* A request that comes tells nothing yet.
LEMMA TellJoining ==
  ASSUME Typed, NEW r \in Requests \cup Puts, Joined(r), NEW j \in Jobs
  PROVE  Keeps(j)
  <1>1. /\ DOMAIN ops' = Ids \cup {Len(ops) + 1} /\ \A o \in Ids : ops'[o] = ops[o]
        /\ UNCHANGED <<conf, unheard>>
    BY JoinedFacts DEF Joined
  <1>2. \A x \in Ids : Telling(x, j) => Tells(j)
    BY <1>1 DEF Telling, Tells
  <1>3. ~Levelled(j)
    BY <1>1 DEF Levelled, Holders
  <1>4. QED
    BY <1>1, <1>2, <1>3 DEF Keeps

\* A Job that runs logs at the level that is stored, as far as the collector was told.
LEMMA HeardStep ==
  ASSUME Typed, Placed, Commanded, Alone, There, Stored, Replaced, Heard, Next
  PROVE  Heard'
  <1>1. ASSUME NEW j \in Jobs, Runs(j), Ran(j)
        PROVE  TellStep(j)
    <2>1. ASSUME NEW x \in Jobs, Arrives(x) \/ \E test \in BOOLEAN : Create(x, test)
          PROVE  TellStep(j)
      BY <2>1, ArrivalJoins, TellJoining DEF Arrives, TellStep
    <2>2. ASSUME NEW t \in Tables, Put(t)
          PROVE  TellStep(j)
      BY <2>2, PutJoins, TellJoining DEF TellStep
    <2>3. ASSUME NEW o \in Ids, Stores(o) \/ Proceeds(o)
          PROVE  TellStep(j)
      BY <1>1, <2>3, TellStoring, TellProceeding DEF TellStep
    <2>4. CASE Collects
      BY <1>1, <2>4, TellCollects
    <2>5. QED
      BY <2>1, <2>2, <2>3, <2>4, Cases
  <1>2. ASSUME NEW j \in Jobs, Ran(j), j \notin unheard', j \notin unguarded', ~Tells(j)
        PROVE  conf'[j].log = doc'[j].log
    <2>1. CASE \E o \in Ids \cup {0} : Launched(j, o)
      <3>1. Loads(j) /\ conf'[j] = Loaded(j) /\ doc' = doc
        BY <2>1 DEF Launched
      <3>2. QED
        BY <3>1, LoadedFits
    <2>2. CASE Continued(j)
      <3>1. Runs(j) /\ j \notin unguarded
        BY <1>2, <2>2 DEF Continued
      <3>2. ASSUME Keeps(j)
            PROVE  conf'[j].log = doc'[j].log
        <4>1. /\ conf'[j].log = conf[j].log /\ j \notin unheard
              /\ ~(\E o \in Ids : Telling(o, j)) /\ (Levelled(j) => Kept(j))
          BY <1>2, <3>2 DEF Keeps
        <4>2. conf[j].log = doc[j].log
          BY <3>1, <4>1 DEF Heard
        <4>3. ~Rewritten(j) /\ ~Cleared(j) /\ ~Dropped(j)
          BY <3>1 DEF Rewritten, Cleared, Dropped, Replaced, Stored, Holders
        <4>4. Kept(j)
          BY <4>1, <4>3, Files DEF FilesStep, DocStep
        <4>5. QED
          BY <4>1, <4>2, <4>4 DEF Kept
      <3>3. QED
        BY <1>1, <1>2, <3>1, <3>2 DEF TellStep
    <2>3. QED
      BY <1>2, <2>1, <2>2, Running DEF RunStep
  <1>3. QED
    BY <1>2 DEF Heard, Runs, Ran, Tells, Telling, Ids

-----------------------------------------------------------------------------
(* The theorems                                                            *)

\* Before any request the documents and their indexes are there, nothing runs and
\* the collector has the profile.
LEMMA InvInit == Init => IInv
  <1> SUFFICES ASSUME Init PROVE IInv
    OBVIOUS
  <1>1. TypedFiles
    <2>1. [rev |-> 1, cfg |-> 0, log |-> "info", test |-> FALSE] \in Docs
      BY DEF Docs, Levels
    <2>2. doc \in [Jobs -> Docs \cup {None}] /\ idx = doc
      BY <2>1 DEF Init
    <2>3. QED
      BY <2>2 DEF Init, TypedFiles
  <1>2. TypedCollector
    <2>1. [cfg |-> 0, log |-> "info", table |-> table, test |-> FALSE] \in Confs
      BY DEF Confs, Levels, Init
    <2>2. QED
      BY <2>1 DEF Init, TypedCollector, States
  <1>3. ops = << >> /\ Ids = {} /\ ops \in Seq(Requests \cup Puts)
    BY DEF Init, Ids
  <1>4. Typed
    BY <1>1, <1>2, <1>3 DEF Typed
  <1>5. Placed /\ Alone /\ There /\ Replaced /\ Relogged
    BY <1>3 DEF Placed, Alone, There, Replaced, Relogged
  <1>6. Commanded /\ Published /\ Indexed
    BY DEF Init, Commanded, Published, Indexed
  <1>7. Stored /\ ProfileInForce /\ Heard
    BY DEF Init, Stored, ProfileInForce, Heard, Runs
  <1>8. QED
    BY <1>4, <1>5, <1>6, <1>7 DEF IInv

\* Every step keeps the invariant.
LEMMA InvStep == IInv /\ [Next]_vars => IInv'
  <1>1. ASSUME IInv, Next
        PROVE  IInv'
    <2>1. /\ Typed /\ Placed /\ Commanded /\ Alone /\ There /\ Indexed /\ Stored /\ Replaced
          /\ Relogged /\ Published /\ ProfileInForce /\ Heard
      BY <1>1 DEF IInv
    <2>2. Typed' /\ Placed'
      BY <1>1, <2>1, TypedFilesStep, TypedCollectorStep, PlacedStep DEF Typed
    <2>3. Commanded' /\ Alone' /\ There'
      BY <1>1, <2>1, CommandedStep, AloneStep, ThereStep
    <2>4. Indexed'
      BY <1>1, <2>1, Files DEF FilesStep
    <2>5. Stored' /\ Replaced' /\ Relogged'
      BY <1>1, <2>1, StoredStep, ReplacedStep, ReloggedStep
    <2>6. Published' /\ ProfileInForce' /\ Heard'
      BY <1>1, <2>1, PublishedStep, InForceStep, HeardStep
    <2>7. QED
      BY <2>2, <2>3, <2>4, <2>5, <2>6 DEF IInv
  <1>2. ASSUME IInv, UNCHANGED vars
        PROVE  IInv'
    <2>1. /\ Typed' /\ Placed' /\ Commanded' /\ Alone' /\ There' /\ Indexed'
      BY <1>2 DEF IInv, vars, Typed, TypedFiles, TypedCollector, Placed, Fits, Suits, Commanded, Act,
                  Alone, There, Indexed, Holders, Ids
    <2>2. /\ Stored' /\ Replaced' /\ Relogged' /\ Published' /\ ProfileInForce' /\ Heard'
      BY <1>2 DEF IInv, vars, Stored, Replaced, Relogged, Published, Publishing, ProfileInForce,
                  Heard, Telling, Runs, Registered, Holders, Ids, Is
    <2>3. QED
      BY <2>1, <2>2 DEF IInv
  <1>3. QED
    BY <1>1, <1>2

(***************************************************************************)
(* The inductive invariant holds in every reachable state.                 *)
(***************************************************************************)
THEOREM Inductive == Spec => []IInv
  BY InvInit, InvStep, PTL DEF Spec

(***************************************************************************)
(* A Job that runs, runs what is stored: the table of the stored profile,  *)
(* the configuration of the stored document and its log level, and its     *)
(* index tells what the document says (manager.js, db-api.js, main.go).    *)
(***************************************************************************)
THEOREM InForce ==
  Spec => []/\ ProfileInForce /\ RunsWhatIsStored
            /\ LogLevelInForce /\ IndexTellsDocument
  <1>1. IInv => ProfileInForce
    BY DEF IInv
  <1>2. IInv => RunsWhatIsStored
    BY DEF IInv, Stored, RunsWhatIsStored, Registered
  <1>3. IInv => LogLevelInForce
    BY DEF IInv, Heard, Telling, LogLevelInForce, Holders
  <1>4. IInv => IndexTellsDocument
    BY DEF IInv, Indexed, IndexTellsDocument
  <1>5. QED
    BY <1>1, <1>2, <1>3, <1>4, Inductive, PTL

(***************************************************************************)
(* One request at a time is at work on a Job.                              *)
(***************************************************************************)
THEOREM OneAtATime == Spec => []Alone
  <1>1. IInv => Alone
    BY DEF IInv
  <1>2. QED
    BY <1>1, Inductive, PTL

(***************************************************************************)
(* A Job stays registered, whoever dies when, until a request deletes it   *)
(* or the installation of its service fails (manager.js).                  *)
(***************************************************************************)
THEOREM NamesStay == Spec => NameNeverLost
  <1>1. IInv /\ Next => NameKept
    <2>1. ASSUME IInv, Next, NEW j \in Jobs, Registered(j), doc'[j] = None \/ idx'[j] = None
          PROVE  \E o \in Holders(j) : ops[o].kind \in {"delete", "create"}
      <3>1. DocStep(j)
        BY <2>1, Files DEF IInv, FilesStep
      <3>2. ~Kept(j) /\ ~Levelled(j) /\ ~Rewritten(j) /\ ~Cleared(j)
        BY <2>1 DEF Kept, Levelled, Rewritten, Cleared, Indices, Registered
      <3>3. QED
        BY <3>1, <3>2 DEF DocStep, Dropped
    <2>2. QED
      BY <2>1 DEF NameKept, Registered
  <1>2. IInv /\ [Next]_vars => [NameKept]_vars
    BY <1>1
  <1>3. QED
    BY <1>2, Inductive, PTL DEF Spec, NameNeverLost
=============================================================================
