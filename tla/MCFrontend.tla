------------------------------ MODULE MCFrontend ------------------------------
(* The pages: the data viewer with its chart, the two documents of the app,   *)
(* the details of a Job, the logs with their panel, and the forms of a Job.   *)
(* Each keeps its state to itself and talks to the server alone, so a         *)
(* behaviour is one of `part', picked at the start; each uses the first       *)
(* variables of the list.                                                     *)
EXTENDS Integers, Sequences

CONSTANTS FirstJobs   \* the Jobs there may be when the output form is opened

VARIABLES part, v1, v2, v3, v4, v5, v6, v7, v8, v9, v10, v11, v12, v13, v14, v15

From14 == <<v14, v15>>
From11 == <<v11, v12, v13, From14>>
From10 == <<v10, From11>>
From8  == <<v8, v9, From10>>
From7  == <<v7, From8>>
From6  == <<v6, From7>>
vars   == <<part, v1, v2, v3, v4, v5, v6, v7, v8, v9, v10, v11, v12, v13, v14, v15>>

Unused14 == v14 = 0 /\ v15 = 0
Unused11 == v11 = 0 /\ v12 = 0 /\ v13 = 0 /\ Unused14
Unused10 == v10 = 0 /\ Unused11
Unused8  == v8 = 0 /\ v9 = 0 /\ Unused10
Unused7  == v7 = 0 /\ Unused8
Unused6  == v6 = 0 /\ Unused7
-----------------------------------------------------------------------------
\* Five rows of two Tags, two pages or three, three operations of the user.
TagRow(time, tag) == [t |-> time, tag |-> tag]
DV == INSTANCE DataViewer WITH
  Tags <- {1, 2},
  Table <- {TagRow(2, 1), TagRow(3, 1), TagRow(3, 2), TagRow(4, 2), TagRow(5, 2)},
  Tick <- 1, Span <- 2, Clocks <- 4..5, PerTag <- {1, 2}, MaxPage <- 3, MaxOps <- 3,
  view <- v1, pinned <- v2, result <- v3, loading <- v4, endLoading <- v5, calls <- v6,
  split <- v7, clock <- v8, ops <- v9, exact <- v10

ASSUME GridAssumption == DV!ConstantsFit /\ DV!WholeMilliseconds

\* Two windows on an axis of nine instants, three gestures.
CZ == INSTANCE ChartZoom WITH
  Navs <- {[from |-> 0, to |-> 7], [from |-> 3, to |-> 6]}, Last <- 8, MaxSteps <- 3,
  nav <- v1, view <- v2, drag <- v3, by <- v4, strayed <- v5, steps <- v6

\* Two Jobs, of which none or the later one in the list is there at first; one
\* save, two inputs of the user.
SF == INSTANCE Surfaces WITH
  Jobs <- {1, 2}, Starts <- {{}, {2}}, MaxSaves <- 1, MaxInputs <- 2,
  stored <- v1, jobs <- v2, selected <- v3, asked <- v4, lease <- v5, deferred <- v6, wire <- v7,
  route <- v8, saves <- v9, over <- v10, op <- v11, inputs <- v12, choice <- v13, behind <- v14,
  crossed <- v15
ASSUME DocumentsAssumption == SF!ConstantsFit

\* Two Jobs, three inputs of the operator, one change by others.
JP == INSTANCE JobPage WITH
  Jobs <- {1, 2}, MaxInputs <- 3, MaxChanges <- 1,
  index <- v1, runtime <- v2, up <- v3, name <- v4, data <- v5, asked <- v6, logLevel <- v7,
  waiting <- v8, active <- v9, late <- v10, inputs <- v11, changes <- v12, chosen <- v13,
  applied <- v14, strayed <- v15
ASSUME JobPageAssumption == JP!ConstantsFit

\* Two Jobs of which one has the other's name and a date.
Dated == "line_20250101_101010"
LG == INSTANCE Logs WITH
  Jobs <- {"line", Dated}, Shares <- {<<"line", Dated>>}, Later <- {},
  Stem <- [k \in {"line", Dated} |-> "line"], MaxLines <- 1, MaxFiles <- 1,
  MaxRead <- 4, TailLines <- 3, PanelLines <- 2, MaxWrites <- 2, MaxFaults <- 1, MaxGens <- 2,
  MaxClears <- 1, MaxReads <- 2,
  dir <- v1, size <- v2, last <- v3, faults <- v4, panel <- v5, reqs <- v6, cleared <- v7,
  page <- v8, reads <- v9
ASSUME LogsAssumption == LG!ConstantsFit

\* Viewports from one too small for anything to one with room for all.
PF == INSTANCE PanelFrame WITH
  Views <- {2, 4, 6, 8, 12, 14}, Margin <- 2, SafeMin <- 4, PanelMin <- 6, Default <- 8, Mouse <- -1..15,
  view <- v1, open <- v2, size <- v3, pos <- v4, grip <- v5
ASSUME PanelAssumption == PF!ConstantsFit

\* Calls of one or two addresses of every kind, two Calls, five edits.
Address(type, start) == [type |-> type, start |-> start]
LC == INSTANCE LsCalls WITH
  Addresses <- {Address("X", 0), Address("B", 0), Address("D", 0), Address("L", 1)},
  Limit <- [X |-> 2, B |-> 2, W |-> 2, D |-> 1, L |-> 1], Reals <- {"D", "L"},
  TypedNames <- {<<"typed", 1>>, <<"D", 0>>}, MaxCalls <- 2, MaxOps <- 5,
  calls <- v1, selected <- v2, file <- v3, stored <- v4, steps <- v5

\* Files of up to two rows with every kind of cell.
CellsWritten == {<< >>, <<"a">>, <<"q">>, <<",", "a">>, <<"cr", "lf">>, <<"a", "q", "q">>}
RowsOf(lengths) == UNION {[1..n -> CellsWritten] : n \in lengths}
TC == INSTANCE TagCsv WITH
  Cells <- CellsWritten,
  Lines <- {<< >>} \cup {<<r>> : r \in RowsOf({1, 2})} \cup (RowsOf({1}) \X RowsOf({1, 2})),
  source <- v1, text <- v2, index <- v3, cell <- v4, quoted <- v5, closed <- v6, row <- v7,
  rows <- v8, outcome <- v9

\* A PLC of a faster and one of a slower task, a name that is not one.
JF == INSTANCE JobForm WITH
  Destinations <- {"ls", "hi", "bad"}, Standard <- "ls", Malformed <- {"bad"},
  Cycle <- [ls |-> 2, hi |-> 3, bad |-> 1], MaxInterval <- 7, Intervals <- {1, 4, 7},
  Tags <- {"own", "shared"}, Shared <- {"shared"}, MaxOps <- 5, MaxOthers <- 1,
  stored <- v1, form <- v2, draft <- v3, confirming <- v4, asked <- v5, policy <- v6, tables <- v7,
  approval <- v8, saving <- v9, shown <- v10, fitted <- v11, ops <- v12, others <- v13

\* Outputs of every type, mappings of the present and of both older formats.
OF == INSTANCE OutputForm WITH
  Interfaces <- {[m |-> <<"double", "array">>], [m |-> <<"string">>, o |-> <<"struct">>]},
  Jobs <- FirstJobs, TagNames <- {"TAG", "P"}, MaxTags <- 3, MaxOps <- 7,
  interface <- v1, stored <- v2, details <- v3, form <- v4, dialog <- v5, touched <- v6, ops <- v7

Mapping(src, json, type, elem, mode, tags) ==
  [src |-> src, json |-> json, type |-> type, elem |-> elem, mode |-> mode, tags |-> tags]
Rows(prefix, n) == [i \in 1..n |-> <<prefix, i>>]
JobOf(mappings) == [method |-> "m", sels |-> mappings]
MCFirstJobs ==
  {JobOf(<<Mapping(1, FALSE, "none", "none", "none", Rows("A", 1)),
           Mapping(2, FALSE, "array", "numeric", "none", Rows("B", 2))>>),
   JobOf(<<Mapping(1, TRUE, "numeric", "none", "none", Rows("A", 1))>>),
   JobOf(<<Mapping(2, FALSE, "none", "none", "each", Rows("A", 2))>>),
   JobOf(<<Mapping(1, FALSE, "none", "none", "single", Rows("A", 1))>>)}
-----------------------------------------------------------------------------
Init ==
  \/ part = "grid"     /\ DV!Init /\ Unused11
  \/ part = "chart"    /\ CZ!Init /\ Unused7
  \/ part = "surfaces" /\ SF!Init
  \/ part = "detail"   /\ JP!Init
  \/ part = "logs"     /\ LG!Init /\ Unused10
  \/ part = "panel"    /\ PF!Init /\ Unused6
  \/ part = "calls"    /\ LC!Init /\ Unused6
  \/ part = "csv"      /\ TC!Init /\ Unused10
  \/ part = "job"      /\ JF!Init /\ Unused14
  \/ part = "outputs"  /\ OF!Init /\ Unused8

Next ==
  /\ UNCHANGED part
  /\ \/ part = "grid"     /\ DV!Next /\ UNCHANGED From11
     \/ part = "chart"    /\ CZ!Next /\ UNCHANGED From7
     \/ part = "surfaces" /\ SF!Next
     \/ part = "detail"   /\ JP!Next
     \/ part = "logs"     /\ LG!Next /\ UNCHANGED From10
     \/ part = "panel"    /\ PF!Next /\ UNCHANGED From6
     \/ part = "calls"    /\ LC!Next /\ UNCHANGED From6
     \/ part = "csv"      /\ TC!Next /\ UNCHANGED From10
     \/ part = "job"      /\ JF!Next /\ UNCHANGED From14
     \/ part = "outputs"  /\ OF!Next /\ UNCHANGED From8

\* The server answers a request of the page or fails; on the Live Logs panel,
\* the timer fires, a request is served and its answer is heard.
Fairness ==
  /\ WF_vars(/\ \/ part = "grid" /\ DV!Answer /\ UNCHANGED From11
                \/ part = "job" /\ JF!Answer /\ UNCHANGED From14
                \/ part = "detail" /\ JP!Answer
                \/ part = "logs" /\ LG!Tick /\ UNCHANGED From10
             /\ UNCHANGED part)
  /\ WF_vars(part = "logs" /\ LG!Serving /\ UNCHANGED <<part, From10>>)
  /\ WF_vars(part = "logs" /\ LG!Hearing /\ UNCHANGED <<part, From10>>)

Spec == Init /\ [][Next]_vars /\ Fairness
-----------------------------------------------------------------------------
(* DataViewer.  Once loaded, the grid shows rows that answer the inputs of    *)
(* the moment, inside the window its caption names; page p is the p-th slice  *)
(* of it, and a range anchored on the data begins with the newest row.        *)
GridTellsTruth == part = "grid" => DV!ShownInStep /\ DV!PageIsThatPage /\ DV!NewestRowShown

(* DataViewer.  Rows that land in a split chart are those of the window it    *)
(* shows, although every chart's request can be overtaken.                    *)
SplitRowsInStep == [][part = "grid" => DV!SplitRowsStep]_vars

(* ChartZoom.  The chart shows a part of the data it has, and a gesture does  *)
(* what its name says: in never widens, out never narrows, pan keeps.         *)
ChartKeepsItsWord ==
  [][part = "chart" => CZ!ViewInNavigator' /\ CZ!KeepsItsWord]_vars

(* Surfaces.  When all messages, saves and lists have settled, the Job chosen *)
(* last is the one highlighted and shown, and both documents list the Jobs    *)
(* the server has.                                                            *)
(* JobPage.  The detail page shows the Job of its route with that Job's level, *)
(* and settles on no revision from before a level that was applied on it.     *)
DocumentsSettle ==
  /\ part = "surfaces" => SF!LastChoiceShown /\ SF!ListSettles
  /\ part = "detail" => JP!ShowsItsJob /\ JP!AppliedIsShown

(* Logs.  What Clear hid stays hidden, a Job's panel holds lines of that Job  *)
(* only, and its page those of one file of its list, which is the Job's own   *)
(* or the active file of a Job with that name and a date; while files turn    *)
(* over and answers come late.                                                *)
LinesAreTheirs == part = "logs" => LG!ClearedStayHidden /\ LG!LinesFromItsFiles

(* Logs.  A panel left open and running shows, in the end, the newest lines   *)
(* of its Job: no failed poll and no file that turned over stops it.          *)
PanelCatchesUp == []<>(part = "logs" => LG!CaughtUp)

(* PanelFrame.  However it is dragged, stretched and the viewport resized, an *)
(* open panel lies inside the margins and can be closed.                      *)
PanelReachable == part = "panel" => PF!PanelReachable

(* LsCalls.  What the form lets through the LS rules accept, a typed name     *)
(* stays with its Tag, and a save stores what the rows showed.                *)
CallsStoredAsShown ==
  [][part = "calls" => /\ LC!FormSatisfiesProduct' /\ LC!TypedNamesStay'
                       /\ LC!StoresWhatIsShown]_vars

(* TagCsv.  The rows that are read are those that were written, whatever      *)
(* cells were quoted and lines ended by.                                      *)
ReadAsWritten == part = "csv" => TC!ReadAsWritten

(* JobForm.  An interval applied on the PLC's answer is one the server takes, *)
(* and a Job whose Tags another Job uses is stored only after the warning was *)
(* shown for what is stored.                                                  *)
SavedWasShown == [][part = "job" => JF!IntervalAccepted' /\ JF!SavesWhatWasShown]_vars

(* DataViewer, JobForm, JobPage.  A page does not wait for ever: the grid      *)
(* stops loading, also when its request was given up for another, a dialog of *)
(* valid names gets its Apply button, by the policy of the PLC or its failure, *)
(* and the Log level that is being applied stops being so unless it is aborted. *)
Waiting ==
  \/ part = "grid" /\ v4   \* loading
  \/ part = "job" /\ JF!Undecided
  \/ part = "detail" /\ JP!Applying
WaitingEnds == Waiting ~> ~Waiting

(* OutputForm.  The collector can decode every Job that is stored, and a Job  *)
(* that is opened and saved untouched is stored as it was.                    *)
OutputsStoredAsShown == [][part = "outputs" => OF!StoredFits' /\ OF!SavesItAsItWas]_vars
=============================================================================
