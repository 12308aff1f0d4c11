------------------------------ MODULE MCBackend ------------------------------
(* The server side away from the operation lock and the Job mutations: the    *)
(* LS control plane, the generic collector, the server profiles, the Methods  *)
(* an Interface offers, the contract Profiles and the viewer's API.  They     *)
(* meet only in files whose every writer a module has already, so a behaviour *)
(* is one of `part', picked at the start; each uses the first variables of    *)
(* the list.                                                                  *)
EXTENDS Integers, Sequences, FiniteSets

CONSTANTS CollectorJobs,   \* the Jobs a generic collector may be started with
          WireTypes, OperatorParameters, InputValues   \* of MethodCalls

VARIABLES part, v1, v2, v3, v4, v5, v6, v7, v8, v9, v10, v11, v12, v13, v14, v15, v16

From9  == <<v9, v10, v11, v12, v13, v14, v15, v16>>
From10 == <<v10, v11, v12, v13, v14, v15, v16>>
From8  == <<v8, v9, v10, v11, v12, v13, v14, v15, v16>>
From5  == <<v5, v6, v7, v8, v9, v10, v11, v12, v13, v14, v15, v16>>
vars   == <<part, v1, v2, v3, v4, v5, v6, v7, v8, v9, v10, v11, v12, v13, v14, v15, v16>>

Unused10 == /\ v10 = 0 /\ v11 = 0 /\ v12 = 0 /\ v13 = 0 /\ v14 = 0 /\ v15 = 0 /\ v16 = 0
Unused9  == v9 = 0 /\ Unused10
Unused8  == v8 = 0 /\ Unused9
Unused5  == v5 = 0 /\ v6 = 0 /\ v7 = 0 /\ Unused8
-----------------------------------------------------------------------------
\* One Job; three requests to it or to the profile, one death.
LS == INSTANCE LsControl WITH
  Jobs <- {1}, MaxOps <- 3, MaxDeaths <- 1,
  doc <- v1, idx <- v2, table <- v3, secret <- v4, service <- v5, active <- v6, state <- v7,
  conf <- v8, commands <- v9, ops <- v10, deaths <- v11, cut <- v12, split <- v13,
  stale <- v14, unguarded <- v15, unheard <- v16

\* One call of every kind, and two calls that store several Tags.
GC == INSTANCE GenericCollector WITH
  Jobs <- CollectorJobs, MaxCycles <- 2, MaxBuffered <- 4,
  job <- v1, stream <- v2, bus <- v3, cycle <- v4, at <- v5, buffer <- v6, counts <- v7,
  failed <- v8, table <- v9, results <- v10, last <- v11, failures <- v12, stopped <- v13,
  summary <- v14, told <- v15, unsure <- v16
ASSUME CollectorAssumption == GC!ConstantsFit

\* Two servers, two Jobs and a table that is there from the start.
SV == INSTANCE Servers WITH
  Names <- {"localhost", "plant"}, Jobs <- {"a", "b"}, Tables <- {"DEFAULT_DBUS", "OWN"},
  Given <- [OWN |-> [numeric |-> {"V", "N"}, whole |-> {"N"}, strings |-> {"S"}]],
  Mappings <- {[value |-> "V", string |-> ""], [value |-> "N", string |-> "S"]},
  Processes <- {"p", "q"}, MaxRequests <- 3,
  servers <- v1, default <- v2, tables <- v3, jobs <- v4, lock <- v5, request <- v6, served <- v7
ASSUME ServersAssumption == SV!ConstantsFit

MC == INSTANCE MethodCalls WITH
  Signatures <- WireTypes, Manuals <- OperatorParameters, Values <- InputValues,
  MaxDepth <- 3, MaxSteps <- 5,
  iface <- v1, job <- v2, sent <- v3, steps <- v4

\* Two requests at a time on one Profile, one Job that may use it.
PR == INSTANCE Profiles WITH
  Processes <- {"p", "q"}, Ids <- {"plc"}, Methods <- {"read", "write"}, Jobs <- {"old"},
  Versions <- {[core |-> <<8, 5, 8>>, pre |-> << >>]}, MaxRequests <- 2,
  product <- v1, profiles <- v2, docs <- v3, running <- v4, fence <- v5, jobLock <- v6,
  req <- v7, runtime <- v8, made <- v9

\* No requests: the server that serves the Profile is upgraded.
Pre(word) == [core |-> <<8, 5, 8>>, pre |-> word]
UP == INSTANCE Profiles WITH
  Processes <- {}, Ids <- {"plc"}, Methods <- {"read"}, Jobs <- {}, MaxRequests <- 0,
  Versions <- {Pre(<< >>), Pre(<<<<"number", 2>>>>), Pre(<<<<"number", 10>>>>), Pre(<<<<"word", 1>>>>),
               Pre(<<<<"word", 1>>, <<"number", 1>>>>), [core |-> <<8, 10, 0>>, pre |-> << >>]},
  product <- v1, profiles <- v2, docs <- v3, running <- v4, fence <- v5, jobLock <- v6,
  req <- v7, runtime <- v8, made <- v9
ASSUME ProfilesAssumption == PR!ConstantsFit /\ UP!ConstantsFit

\* A Job whose table is spelt in two ways, and a server with or without one.
ViewedJob(table, selections) == [server |-> "s", table |-> table, value |-> "VALUE", text |-> "",
                                 selections |-> selections, whole |-> TRUE]
TagTable(hierarchy) == [type |-> "tag", keys |-> 1, numbers |-> {"VALUE"}, strings |-> {}, hierarchy |-> hierarchy]
VA == INSTANCE ViewerApi WITH
  Products <- {"ls", "generic"},
  Documents <- {ViewedJob("T1", <<<<1, 2>>, <<1>>>>), ViewedJob("t2", <<<<1>>>>)},
  Servers <- {[table |-> "T1", value |-> "VALUE", text |-> ""], [table |-> "", value |-> "", text |-> ""]},
  Normal <- [x \in {"T1", "t2", "T2", "VALUE", "", "bad name"} |->
                IF x = "t2" THEN "T2" ELSE IF x = "bad name" THEN "" ELSE x],
  Catalogs <- {[T1 |-> TagTable(h), T2 |-> TagTable("none"), VALUE |-> TagTable("none")] : h \in {"none", "asset"}},
  NameLists <- {<<2, 1, 2>>}, Sizes <- {1}, Windows <- {[lo |-> 1, hi |-> 2]}, Limits <- {0, 1, 2},
  MaxAt <- 2, MaxEdits <- 1,
  product <- v1, shapes <- v2, job <- v3, server <- v4, stored <- v5, walk <- v6, listing <- v7, edits <- v8
ASSUME ViewerAssumption == VA!ConstantsFit
-----------------------------------------------------------------------------
Init ==
  \/ part = "control"   /\ LS!Init
  \/ part = "collector" /\ GC!Init
  \/ part = "servers"   /\ SV!Init /\ Unused8
  \/ part = "methods"   /\ MC!Init /\ Unused5
  \/ part = "profiles"  /\ PR!Init /\ Unused10
  \/ part = "upgrade"   /\ UP!Init /\ Unused10
  \/ part = "viewer"    /\ VA!Init /\ Unused9

Next ==
  /\ UNCHANGED part
  /\ \/ part = "control"   /\ LS!Next
     \/ part = "collector" /\ GC!Next
     \/ part = "servers"   /\ SV!Next /\ UNCHANGED From8
     \/ part = "methods"   /\ MC!Next /\ UNCHANGED From5
     \/ part = "profiles"  /\ PR!Next /\ UNCHANGED From10
     \/ part = "upgrade"   /\ UP!Next /\ UNCHANGED From10
     \/ part = "viewer"    /\ VA!Next /\ UNCHANGED From9

Spec == Init /\ [][Next]_vars
-----------------------------------------------------------------------------
(* The Jobs of the generic collector: a call of one output for every type it  *)
(* may have and every way to store it, and pairs of calls with several Tags.  *)
Tag(n, b, m, f) == [name |-> n, bias |-> b, mult |-> m, first |-> f]
Selection(src, json, type, elem, mode, tags) ==
  [src |-> src, json |-> json, type |-> type, elem |-> elem, mode |-> mode, tags |-> tags]
\* The values of GenericCollector, written out: a constant of an instance does
\* not name the operators of that instance.
Number(n) == [k |-> "num", n |-> n]
Text      == [k |-> "str"]
Bool      == [k |-> "bool"]
List(vs)  == [k |-> "list", of |-> vs]
Json(v)   == [k |-> "json", of |-> v]
Numbers == {Number(1), Number(2)}
Anything(type) ==
  IF type = "double" THEN Numbers
  ELSE IF type = "string" THEN {Text, Json(Number(1)), Json(List(<<Number(1), Number(2)>>))}
  ELSE IF type = "boolean" THEN {Bool}
  ELSE {Number(1), Text, List(<<Number(1), Bool>>)}
CallOf(bus, types, selections, tags) ==
  [bus |-> bus, types |-> types, sels |-> selections, tags |-> tags,
   answers |-> [i \in DOMAIN types |-> Anything(types[i])]]
SomeTags == {Tag("a", 0, 2, "bias"), Tag("a", 1, 4, "bias"), Tag("a", 1, 2, "mult"),
             Tag("a", 1, 4, "mult"), Tag("a", 2, 1, "mult")}
TwoTags == <<Tag("a", 0, 2, "bias"), Tag("b", 0, 2, "bias")>>
SingleCalls ==
  {CallOf("x", <<ty>>, <<Selection(1, j, t, e, "none", <<g>>)>>, << >>) :
      ty \in {"double", "string", "boolean", "array"}, j \in BOOLEAN,
      t \in {"none", "numeric", "string", "json", "array"}, e \in {"numeric", "json"}, g \in SomeTags}
  \cup {CallOf("x", <<"double">>, <<Selection(1, FALSE, "none", "none", "single", <<Tag("a", 2, 1, "bias")>>)>>, << >>)}
  \cup {CallOf("y", <<ty>>, <<Selection(1, FALSE, "none", "none", m, TwoTags)>>, << >>) :
            ty \in {"double", "array"}, m \in {"single", "each"}}
  \cup {CallOf("x", types, << >>, <<Tag("a", 0, 2, "bias"), Tag("b", 2, 2, "bias")>>) :
            types \in {<<"double", "string">>, <<"double", "double">>, <<"double">>, <<"array">>}}
PairCalls ==
  {CallOf("x", <<"double">>, <<Selection(1, FALSE, "none", "none", "none", <<Tag("a", 2, 2, "bias")>>)>>, << >>),
   CallOf("y", <<"string", "double">>,
          <<Selection(1, TRUE, "array", "numeric", "none", <<Tag("b", 0, 2, "bias"), Tag("c", 0, 2, "bias")>>),
            Selection(2, FALSE, "numeric", "none", "none", <<Tag("d", 0, 2, "bias")>>)>>, << >>)}
MCCollectorJobs ==
  {[policy |-> p, strings |-> s, calls |-> cs] : p \in {"perMethod", "afterAllMethods"}, s \in BOOLEAN,
     cs \in {<<c>> : c \in SingleCalls} \cup (PairCalls \X PairCalls)}

(* What a device announces, what an operator writes down, what a client sends. *)
MCWireTypes ==
  {<<"y">>, <<"x">>, <<"s">>, <<"v">>, <<"a", "y">>, <<"a", "{", "s", "v", "}">>, <<"(", "y", "a", "s", ")">>,
   <<"(", ")">>, <<"a">>, <<"y", "y">>, <<"a", "{", "v", "s", "}">>,
   <<"a", "{", "s", "a", "{", "s", "s", "}", "}">>, <<"(", "(", "s", ")", "b", ")">>}
Parameter(type, required, least, pattern) ==
  [type |-> type, required |-> required, least |-> least, pattern |-> pattern]
Missing == <<"none">>
MCOperatorParameters ==
  {Parameter(<<"byte">>, TRUE, <<"number", 2>>, "any"), Parameter(<<"byte">>, FALSE, Missing, "digits"),
   Parameter(<<"int64">>, TRUE, <<"number", -1>>, "any"), Parameter(<<"string">>, TRUE, Missing, "digits"),
   Parameter(<<"string">>, FALSE, <<"number", 3>>, "any"), Parameter(<<"double">>, TRUE, Missing, "any"),
   Parameter(<<"array", <<"string">>>>, TRUE, Missing, "digits"),
   Parameter(<<"dict-entry", "string", <<"byte">>>>, TRUE, Missing, "any"),
   Parameter(<<"struct", << >>>>, TRUE, Missing, "any"), Parameter(<<"unix-fd">>, TRUE, Missing, "any"),
   Parameter(<<"boolean">>, TRUE, Missing, "any")}
MCInputValues ==
  {<<"number", n>> : n \in {-9, -1, 0, 2, 7, 8}} \cup {<<"digits", n>> : n \in {-1, 5, 8}}
  \cup {<<"half", 2>>, <<"text">>, <<"flag", TRUE>>, <<"list", << >>>>,
         <<"list", <<<<"text">>, <<"digits", 1>>>>>>,
         <<"list", <<<<"number", 1>>, <<"list", <<<<"text">>>>>>>>>>,
         <<"pair", <<"text">>, <<"number", 1>>>>,
         <<"list", <<<<"pair", <<"text">>, <<"typed", <<"byte">>, <<"number", 3>>>>>>>>>>,
         <<"typed", <<"byte">>, <<"number", 9>>>>, <<"typed", <<"string">>, <<"text">>>>}
-----------------------------------------------------------------------------
(* LsControl.  A Job that runs, runs what is stored: the table of the stored  *)
(* profile, the stored document and its log level, and its index tells what   *)
(* the document says; whatever requests overlap, give up, die or repeat, and  *)
(* the collector restarts.                                                    *)
ControlInForce ==
  part = "control" => /\ LS!ProfileInForce /\ LS!RunsWhatIsStored
                      /\ LS!LogLevelInForce /\ LS!IndexTellsDocument

(* LsControl.  A Job stays registered, whoever dies when, until its deletion  *)
(* or the installation of its service fails.                                  *)
NameNeverLost == [][part = "control" => LS!NameKept]_vars

(* GenericCollector.  What a cycle reports is what it left in the table, a    *)
(* stopped collector's log tells of every failed cycle, no value of a Job     *)
(* falls between the columns its document was said to need.                   *)
CycleTellsTruth ==
  part = "collector" => /\ GC!ResultTellsRows /\ GC!FailuresTold
                        /\ GC!NothingDropped /\ GC!WholeNumbersStayWhole

(* Servers.  The table a saved Job writes into has its columns, a server's    *)
(* profile keeps columns of its table and a removed server stays removed,     *)
(* although settings, servers and Jobs are read and written by processes that *)
(* share no lock over all three.                                              *)
TablesFit ==
  [][part = "servers" => SV!MappingFits' /\ SV!ProfileFits' /\ SV!NotResurrected]_vars

(* MethodCalls.  The type a signature was saved as writes that signature, and *)
(* an input that was accepted is sent as it was saved by every later cycle    *)
(* although the Interface may be edited in between.                           *)
CallsStayCallable == part = "methods" => MC!SignatureKept /\ MC!StoredCanBeCalled

(* Profiles.  While a readable Job names a Method its Profile keeps it, two   *)
(* requests on one Profile do not undo one another, and an upgrade of the     *)
(* server leaves a usable Profile usable.                                     *)
ProfilesKept ==
  [][/\ part = "profiles" => PR!ReferencedStays' /\ PR!EditCounts
     /\ part = "upgrade" => UP!StaysCompatible]_vars

(* ViewerApi.  The pages of a walk come from the table that was asked for and *)
(* together hold every row that was there, and a list says that it is limited *)
(* when it is; the Job, its server's profile and the rows change meanwhile.   *)
ViewerTellsTruth == part = "viewer" => VA!WalkIsWhole /\ VA!OneSource /\ VA!LimitedTellsTruth

(* interfaces/references.js.  A Job that the validator accepted is read as a  *)
(* reference of its Interface, not as an invalid document (MethodCalls).      *)
StoredIsReadable == part = "methods" => MC!StoredIsReadable

(* The server that the settings name is registered: it cannot be removed      *)
(* before another one is the default (Servers).                               *)
DefaultRegistered == part = "servers" => SV!DefaultRegistered
=============================================================================
