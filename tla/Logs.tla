---------------------------------- MODULE Logs ----------------------------------
(* The logs of the Jobs: each collector writes its Job's active file, turns  *)
(* it over when it is full and removes the oldest of the turned ones; the    *)
(* reader lists and reads the files of one Job; the Live Logs panel polls    *)
(* the active file and the Logs page shows a selected one.  A line is its    *)
(* number in the Job's log, every line takes the same place in a file.       *)
EXTENDS Integers, Sequences, FiniteSets, SequencesExt

CONSTANTS Jobs,       \* Jobs with a log
          Shares,     \* <<j, k>>: the name of k is that of j, "_" and more
          Later,      \* those of Shares whose files come, by name, after the dates
          Stem,       \* what the name of a Job has before a date at its end
          MaxLines,   \* lines an active file takes
          MaxFiles,   \* turned files that are kept
          MaxRead,    \* lines of the largest file that is read
          TailLines,  \* lines a tail has
          PanelLines, \* lines the panel shows
          MaxWrites,  \* bound on the lines written for a Job
          MaxFaults,  \* bound on what fails: disk, network, restarts
          MaxGens,    \* bound on openings, closings, pauses of the panel
          MaxClears,  \* bound on the use of Clear
          MaxReads    \* bound on the reads of the page that are under way

VARIABLES dir,     \* the log files
          size,    \* for each Job, how long its collector takes the active file to be
          last,    \* the last line written
          faults,
          panel, reqs,          \* the Live Logs panel and its requests
          cleared,              \* ghost: the lines seen when Clear was pressed last
          page, reads           \* the Logs page and its reads

(* A file is found by its name: a Job's active file has the name of the Job,  *)
(* one that is turned over "_" and the date of it as well.  The name of a Job *)
(* may end so itself: Stem is what it has before, "none" when that cannot be  *)
(* a Job's name, or all of a name without a date.                             *)
ConstantsFit ==
    /\ {TailLines, PanelLines} \subseteq Nat
    /\ "none" \notin Jobs /\ DOMAIN Stem = Jobs
    /\ \A k \in Jobs : Stem[k] \in {k, "none"} \cup {j \in Jobs : <<j, k>> \in Shares}
vars == <<dir, size, last, faults, panel, reqs, cleared, page, reads>>
files == <<dir, size, last>>
live  == <<panel, reqs, cleared>>
paged == <<page, reads>>

\* A file: the Job whose name it bears, when it was turned over (0: it is the
\* active one), and its lines <<job, n>>.
Active(d, j) == {f \in d : f.of = j /\ f.at = 0}
NoFile == [of |-> "none", at |-> 0, lines |-> << >>]
TheFile(S) == IF S = {} THEN NoFile ELSE CHOOSE f \in S : TRUE
-----------------------------------------------------------------------------
(* Writing.                                                                 *)

\* What a turn-over counts as the Job's: by the start of the name.
Matching(d, j) == {f \in d : (f.of = j /\ f.at > 0) \/ <<j, f.of>> \in Shares}

\* The order of the names: those of another Job lie before or after the dates.
Place(f, j) == IF f.of = j THEN 1 ELSE IF <<j, f.of>> \in Later THEN 2 ELSE 0
Before(f, g, j) == Place(f, j) < Place(g, j) \/ (Place(f, j) = Place(g, j) /\ f.at < g.at)

\* The n oldest of the files S, taken one by one.
Oldest(S, n, j) ==
    LET taken[m \in Nat] ==
          IF m = 0 THEN {}
          ELSE LET rest == S \ taken[m - 1]
               IN taken[m - 1] \cup
                    {CHOOSE g \in rest : \A h \in rest \ {g} : Before(g, h, j) \/ ~Before(h, g, j)}
    IN taken[IF n > 0 THEN n ELSE 0]

\* Purged: the oldest beyond MaxFiles.
Purged(d, j) == d \ Oldest(Matching(d, j), Cardinality(Matching(d, j)) - MaxFiles, j)

\* rotate: the renaming may fail, and leaves the file as it is.
Rotated(d, j, ok) ==
    Purged(IF ok THEN (d \ Active(d, j)) \cup {[f EXCEPT !.at = last[j]] : f \in Active(d, j)} ELSE d, j)

\* write, append: a failed append loses the line and the count.
Write(j, moved, ok) ==
    LET d == IF size[j] > 0 /\ size[j] + 1 > MaxLines THEN Rotated(dir, j, moved) ELSE dir
        n == IF size[j] > 0 /\ size[j] + 1 > MaxLines THEN 0 ELSE size[j]
        line == <<j, last[j] + 1>>
        f == TheFile(Active(d, j))
    IN /\ last[j] < MaxWrites
       /\ (ok /\ moved) \/ faults < MaxFaults
       /\ moved \/ size[j] + 1 > MaxLines
       /\ faults' = IF ok /\ moved THEN faults ELSE faults + 1
       /\ last' = [last EXCEPT ![j] = @ + 1]
       /\ IF ok THEN /\ dir' = (d \ Active(d, j)) \cup {[of |-> j, at |-> 0, lines |-> Append(f.lines, line)]}
                     /\ size' = [size EXCEPT ![j] = n + 1]
                ELSE dir' = d /\ size' = [size EXCEPT ![j] = 0]
       /\ UNCHANGED <<live, paged>>

\* A collector starts anew: it asks how long the file is.
Restart(j) ==
    /\ faults < MaxFaults /\ faults' = faults + 1
    /\ size' = [size EXCEPT ![j] = Len(TheFile(Active(dir, j)).lines)]
    /\ UNCHANGED <<dir, last, live, paged>>
-----------------------------------------------------------------------------
(* Reading.  A refused read is NoFile.                                      *)

\* Mutant: the files whose name starts with the Job's are its files.
BelongsTo_Prefix(f, j) == f.of = j \/ <<j, f.of>> \in Shares

\* ROTATION: what a file's name has before a date at its end, or all of it.
StemOf(f) == IF f.at = 0 THEN Stem[f.of] ELSE f.of

\* fileNameForJob: the name of the active file, or one with a date after the
\* Job's name, which the active file of another Job may have.
BelongsTo(f, j) == f \in Active({f}, j) \/ StemOf(f) = j

\* list: the files of a Job, the active one first, the others by their names.
FilesOf(j) == {f \in dir : BelongsTo(f, j)}
ListedBefore(f, g, j) == f \in Active(dir, j) \/ (g \notin Active(dir, j) /\ Before(f, g, j))
Key(f) == [of |-> f.of, at |-> f.at]
\* all, for the page that is of no Job: the files by the name before the date,
\* without those where that is no name of a Job.
Summary == [j \in {StemOf(f) : f \in dir} \ {"none"} |-> {Key(f) : f \in {g \in dir : StemOf(g) = j}}]

\* read, for the file of that name: it may be gone, or too large.
ReadFile(key, j) ==
    LET f == TheFile({g \in dir : Key(g) = key /\ BelongsTo(g, j)})
    IN IF Len(f.lines) > MaxRead THEN NoFile ELSE f

LastOf(s, n) == SubSeq(s, IF Len(s) > n THEN Len(s) - n + 1 ELSE 1, Len(s))
\* content (its first page), contentAll and tail.
ReadAs(kind, f) == IF kind = "tail" THEN LastOf(f.lines, TailLines)
                   ELSE IF kind = "content" THEN SubSeq(f.lines, 1, IF Len(f.lines) < TailLines THEN Len(f.lines) ELSE TailLines)
                   ELSE f.lines
-----------------------------------------------------------------------------
(* The Live Logs panel of a Job.  Since all its snapshots are of the active  *)
(* file, whose name never changes, a snapshot is its lines and their total.  *)

NoTail == [lines |-> << >>, total |-> 0, file |-> FALSE]
Closed == [job |-> "none", paused |-> FALSE, known |-> FALSE, gen |-> 0, timer |-> FALSE,
           seen |-> NoTail, clear |-> NoTail, clears |-> 0, shown |-> << >>, connected |-> FALSE]

\* visibleTail: of the snapshot, the lines after those that were cleared,
\* unless the file has fewer than then.
VisibleTail(snap, clear) ==
    LET first == snap.total - Len(snap.lines)
        from == IF clear.total > first THEN clear.total - first ELSE 0
        valid == clear.file /\ snap.total >= clear.total
    IN LastOf(IF valid THEN SubSeq(snap.lines, from + 1, Len(snap.lines)) ELSE snap.lines, PanelLines)

\* poll: lists the files until the active one is known, then reads its end.
Poll(p) == [gen |-> p.gen, job |-> p.job, kind |-> IF p.known THEN "tail" ELSE "list", done |-> FALSE, ok |-> FALSE, snap |-> NoTail]

\* startGeneration, invalidateCurrent: what is on its way is aborted.
Started(p) == [p EXCEPT !.gen = @ + 1, !.timer = FALSE]

\* The page on which no log is selected.
NoPage == [job |-> "none", files |-> {}, file |-> Key(NoFile), view |-> "content", content |-> << >>, summary |-> {}]

OpenPanel(j) ==
    /\ panel.job # j /\ panel.gen < MaxGens
    /\ panel' = Started([Closed EXCEPT !.job = j, !.gen = panel.gen])
    /\ reqs' = {Poll(panel')}
    /\ cleared' = {}
    /\ page' = NoPage /\ reads' = {}
    /\ UNCHANGED <<files, faults>>

ClosePanel ==
    /\ panel.job # "none"
    /\ panel' = [Closed EXCEPT !.gen = panel.gen + 1]
    /\ reqs' = {} /\ cleared' = {}
    /\ UNCHANGED <<files, faults, paged>>

\* togglePause: what is aborted may have been answered already.
Pause ==
    /\ panel.job # "none" /\ ~panel.paused
    /\ panel' = [Started(panel) EXCEPT !.paused = TRUE]
    /\ reqs' = {r \in reqs : r.done}
    /\ UNCHANGED <<files, faults, cleared, paged>>
Resume ==
    /\ panel.job # "none" /\ panel.paused /\ panel.gen < MaxGens
    /\ panel' = [Started(panel) EXCEPT !.paused = FALSE]
    /\ reqs' = reqs \cup {Poll(panel')}
    /\ UNCHANGED <<files, faults, cleared, paged>>

\* clear: from the snapshot that came last, shown or not.
Clear ==
    /\ panel.job # "none" /\ panel.clears < MaxClears
    /\ panel' = [panel EXCEPT !.clear = panel.seen, !.clears = @ + 1, !.shown = << >>]
    /\ cleared' = IF panel.seen.file THEN ToSet(panel.seen.lines) ELSE {}
    /\ UNCHANGED <<files, faults, reqs, paged>>

\* A request is served, or fails, some time before its answer is heard.
Serve(r, ok) ==
    LET f == ReadFile([of |-> r.job, at |-> 0], r.job)
        there == Active(dir, r.job) # {}
    IN /\ ~r.done
       /\ ok \/ faults < MaxFaults
       /\ faults' = IF ok THEN faults ELSE faults + 1
       /\ reqs' = (reqs \ {r}) \cup
            {IF r.kind = "list" THEN [r EXCEPT !.done = TRUE, !.ok = ok, !.snap.file = there]
             ELSE [r EXCEPT !.done = TRUE, !.ok = ok /\ f # NoFile,
                            !.snap = [lines |-> ReadAs("tail", f), total |-> Len(f.lines), file |-> TRUE]]}
       /\ UNCHANGED <<files, panel, cleared, paged>>

\* canApply: an answer to an aborted or paused run is ignored.
CanApply(r) == r.gen = panel.gen /\ panel.job # "none" /\ ~panel.paused

Ignored(r) ==
    /\ r.done /\ ~CanApply(r)
    /\ reqs' = reqs \ {r}
    /\ UNCHANGED <<files, faults, panel, cleared, paged>>

\* Mutant: a panel that finds no file yet does not ask again.
Listed_Once(p, r) == IF r.snap.file THEN [p EXCEPT !.known = TRUE] ELSE [p EXCEPT !.connected = TRUE]

Listed(p, r) == IF r.snap.file THEN [p EXCEPT !.known = TRUE] ELSE [p EXCEPT !.connected = TRUE, !.timer = TRUE]

Answered(r) ==
    LET found == [panel EXCEPT !.connected = TRUE, !.seen = r.snap, !.timer = TRUE,
                               !.shown = VisibleTail(r.snap, panel.clear)]
    IN /\ r.done /\ CanApply(r)
       /\ panel' = IF ~r.ok THEN [panel EXCEPT !.known = FALSE, !.connected = FALSE, !.timer = TRUE]
                   ELSE IF r.kind = "list" THEN Listed(panel, r) ELSE found
       /\ reqs' = (reqs \ {r}) \cup IF r.ok /\ r.kind = "list" /\ r.snap.file THEN {Poll(panel')} ELSE {}
       /\ UNCHANGED <<files, faults, cleared, paged>>

\* scheduleNext: the timer fires.
Tick ==
    /\ panel.timer
    /\ panel' = [panel EXCEPT !.timer = FALSE]
    /\ reqs' = reqs \cup {Poll(panel')}
    /\ UNCHANGED <<files, faults, cleared, paged>>
-----------------------------------------------------------------------------
(* The Logs page of a Job, another page than that of the panel: its reads    *)
(* are not kept apart.                                                       *)

Read(key, kind) == [file |-> key, kind |-> kind, job |-> page'.job]

\* The list is loaded; its first file is selected and read.
OpenPage(j) ==
    /\ page.job # j /\ panel.job = "none"
    /\ \/ FilesOf(j) = {} /\ page' = [NoPage EXCEPT !.job = j] /\ reads' = {}
       \/ \E f \in FilesOf(j) :
            /\ \A g \in FilesOf(j) \ {f} : ~ListedBefore(g, f, j)
            /\ page' = [NoPage EXCEPT !.job = j, !.files = {Key(g) : g \in FilesOf(j)}, !.file = Key(f)]
            /\ reads' = {Read(Key(f), "content")}
    /\ UNCHANGED <<files, faults, live>>
OpenAll ==
    /\ page.job # "none"
    /\ page' = [NoPage EXCEPT !.summary = DOMAIN Summary] /\ reads' = {}
    /\ UNCHANGED <<files, faults, live>>

\* selectFile, changeView
SelectFile(key) ==
    /\ key \in page.files \ {page.file} /\ Cardinality(reads) < MaxReads
    /\ page' = [page EXCEPT !.file = key, !.view = "content", !.content = << >>]
    /\ reads' = reads \cup {Read(key, "content")}
    /\ UNCHANGED <<files, faults, live>>
ChangeView(kind) ==
    /\ page.file # Key(NoFile) /\ kind # page.view /\ Cardinality(reads) < MaxReads
    /\ page' = [page EXCEPT !.view = kind]
    /\ reads' = reads \cup {Read(page.file, kind)}
    /\ UNCHANGED <<files, faults, live>>

\* read: what it finds is shown, a failure leaves what is there.
HearRead(r) ==
    LET f == ReadFile(r.file, r.job) IN
    /\ reads' = reads \ {r}
    /\ page' = IF f = NoFile THEN page ELSE [page EXCEPT !.content = ReadAs(r.kind, f)]
    /\ UNCHANGED <<files, faults, live>>
-----------------------------------------------------------------------------
Init ==
    /\ dir = {} /\ size = [j \in Jobs |-> 0] /\ last = [j \in Jobs |-> 0] /\ faults = 0
    /\ panel = Closed /\ reqs = {} /\ cleared = {}
    /\ page = NoPage /\ reads = {}

Next ==
    \/ \E j \in Jobs, moved, ok \in BOOLEAN : Write(j, moved, ok)
    \/ \E j \in Jobs : Restart(j) \/ OpenPanel(j) \/ OpenPage(j)
    \/ ClosePanel \/ Pause \/ Resume \/ Clear \/ Tick \/ OpenAll
    \/ \E r \in reqs : Ignored(r) \/ Answered(r) \/ \E ok \in BOOLEAN : Serve(r, ok)
    \/ \E k \in page.files : SelectFile(k)
    \/ \E v \in {"content", "contentAll", "tail"} : ChangeView(v)
    \/ \E r \in reads : HearRead(r)

\* The server answers, the panel hears it, and its timer fires.
Serving == \E r \in reqs : CanApply(r) /\ Serve(r, TRUE)
Hearing == \E r \in reqs : Answered(r)
Spec == Init /\ [][Next]_vars /\ WF_vars(Tick) /\ WF_vars(Serving) /\ WF_vars(Hearing)
-----------------------------------------------------------------------------
(* Lines that were on the panel's snapshot when Clear was pressed are not    *)
(* shown again, whatever is written, turned over or answered late.           *)
ClearedStayHidden == \A i \in DOMAIN panel.shown : panel.shown[i] \notin cleared

(* Whatever files are on disk, the panel shows lines of its Job only.  The   *)
(* page shows lines of one file that it lists: one of its Job, or the active  *)
(* file of a Job whose name is that of its Job and a date, which the reader   *)
(* cannot tell from a file of its Job that was turned over (reader.js:26).    *)
LinesFromItsFiles ==
    /\ \A i \in DOMAIN panel.shown : panel.shown[i][1] = panel.job
    /\ page.content # << >> =>
         \E key \in page.files :
            /\ key.of = page.job \/ (key.at = 0 /\ Stem[key.of] = page.job)
            /\ \A i \in DOMAIN page.content : page.content[i][1] = key.of

(* Refusal of the reader (reader.js:27): "not a log file of the selected      *)
(* Job".  So the page of a Job lists no file of another one.                  *)
ListsItsOwn == \A key \in page.files : key.of = page.job

(* A panel left open and running shows, in the end, the newest line of its   *)
(* Job's active file: a failed poll, a file that is not there yet or one     *)
(* that is turned over does not stop it.                                     *)
CaughtUp ==
    \/ panel.job = "none" \/ panel.paused \/ Active(dir, panel.job) = {} \/ panel.clear.file
    \/ panel.shown = LastOf(TheFile(Active(dir, panel.job)).lines, PanelLines)
PanelCatchesUp == []<>CaughtUp

(* Test of Clear: "only the lines added after the clear are shown".  So of a *)
(* snapshot every line that is newer than what was cleared is shown.         *)
NewLinesShown ==
    \A i \in DOMAIN panel.seen.lines :
        (Len(panel.seen.lines) <= PanelLines /\ \A c \in cleared : panel.seen.lines[i][2] > c[2])
            => \E k \in DOMAIN panel.shown : panel.shown[k] = panel.seen.lines[i]

(* Every Job keeps its active file and as many turned ones as the policy     *)
(* says: what one Job purges is its own.                                     *)
OthersKept ==
    [][\A j \in Jobs : last'[j] = last[j] => {f \in dir : f.of = j} = {f \in dir' : f.of = j}]_vars
=============================================================================
