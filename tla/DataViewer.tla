----------------------------- MODULE DataViewer -----------------------------
(* The Data Viewer page, its model functions and the two queries it sends to *)
(* the CGI server (db/data-viewer.js): the rows of one page and the latest   *)
(* time of the selected Tags.                                                *)
(*                                                                           *)
(* A handler is one step together with the React effects it triggers: the   *)
(* pin effect (resolves the time range), the reset of a page request carried *)
(* over from another window, and fetchRows.  A call whose request number is  *)
(* no longer current is ignored by the code when it is answered, so the      *)
(* model forgets it when the number is bumped (Without).                     *)
(*                                                                           *)
(* Times of rows are in ticks, Tick to the millisecond: the server compares  *)
(* full precision, every time the page holds is cut to milliseconds.         *)
EXTENDS Integers, FiniteSets

CONSTANTS Tags,         \* Tag names, integers so that they are ordered
          Table,        \* rows of the TAG table, records [t, tag]
          Tick,         \* ticks per millisecond
          Span,         \* length in ms of the "now-*" and "last-*" windows
          Clocks,       \* wall-clock instants in ms, an interval
          PerTag,       \* choices of Rows / tag; the smallest is the default
          MaxPage,      \* highest page number asked for
          MaxOps        \* bound on the user's operations

VARIABLES view,      \* the page's inputs: sel, range, token, page, req, bounds, back, rpt
          pinned,    \* pinnedRange: [key, from, to]
          result,    \* [st, q]: what the grid shows and the query it answers
          loading, endLoading,
          calls,     \* calls in flight whose request number is still current
          split,     \* split charts: Tag |-> [range, win, rows] of the open ones
          clock, ops,
          exact      \* ghost: the current request was made from the shown page
vars == <<view, pinned, result, loading, endLoading, calls, split, clock, ops, exact>>

NoTime == -1
None == [none |-> TRUE]
Smaller(a, b) == IF a < b THEN a ELSE b
Lowest(S) == CHOOSE x \in S : \A y \in S : x <= y
Win(f, t) == [from |-> f, to |-> t]
NoWin == Win(NoTime, NoTime)
Abs(w) == [kind |-> "abs", win |-> w]
Rel(k) == [kind |-> k, win |-> NoWin]
-----------------------------------------------------------------------------
(* The server: opcuaPage, its cursor, stat and the total. *)

Match(names, from, to) ==
    {r \in Table : r.tag \in names /\ from * Tick <= r.t /\ r.t <= to * Tick}

Precedes(back, r, s) ==
    IF r.t = s.t THEN r.tag < s.tag ELSE IF back THEN r.t > s.t ELSE r.t < s.t

\* How many rows come before one in the order of the query, and how many after.
Before(back, r, S) == Cardinality({s \in S : Precedes(back, s, r)})
After(back, r, S) == Cardinality({s \in S : Precedes(back, r, s)})

\* The rows on the cursor's side of its millisecond and Tag name.
OnSide(q, S) ==
    LET c == [t |-> q.cursor.ms * Tick, tag |-> q.cursor.tag]
    IN  {r \in S : IF q.cursor.side = "next" THEN Precedes(q.back, c, r)
                                             ELSE Precedes(q.back, r, c)}

\* LIMIT with an offset.
Numbered(back, S, size, page) ==
    {r \in S : Before(back, r, S) \in (page - 1) * size .. page * size - 1}

\* LIMIT takes rows from the cursor on: with "prev" the query runs backwards.
PageRows(q) ==
    LET S    == Match(q.names, q.from, q.to)
        side == IF q.cursor = None THEN S ELSE OnSide(q, S)
    IN  IF q.bounded THEN side
        ELSE IF q.cursor = None THEN Numbered(q.back, S, q.size, q.page)
        ELSE IF q.cursor.side = "next" THEN {r \in side : Before(q.back, r, side) < q.size}
        ELSE {r \in side : After(q.back, r, side) < q.size}

LastPage(q) ==
    LET n == Cardinality(Match(q.names, q.from, q.to))
    IN  IF n = 0 THEN 1 ELSE (n + q.size - 1) \div q.size

Latest(names) ==
    LET T == {r.t : r \in {x \in Table : x.tag \in names}}
    IN  IF T = {} THEN NoTime ELSE (CHOOSE t \in T : \A u \in T : u <= t) \div Tick
-----------------------------------------------------------------------------
(* The model's functions. *)

\* resolveTimeRangeInput: the upper end is moved to the next millisecond.
Resolve(range, names, now) ==
    LET base == IF range.kind = "now" THEN now ELSE Latest(names)
    IN  IF range.kind = "abs" THEN Win(range.win.from, range.win.to + 1)
        ELSE IF base = NoTime THEN NoWin
        ELSE Win(base - Span, base + 1)

PageSize(names, rpt) == (IF names = {} THEN 1 ELSE Cardinality(names)) * rpt

PageBounds(back, rows) ==
    IF rows = {} THEN None
    ELSE LET at(r) == [ms |-> r.t \div Tick, tag |-> r.tag]
             all   == {at(r).ms : r \in rows}
         IN  [first |-> at(CHOOSE r \in rows : \A s \in rows : ~Precedes(back, s, r)),
              last |-> at(CHOOSE r \in rows : \A s \in rows : ~Precedes(back, r, s)),
              from |-> Lowest(all), to |-> CHOOSE x \in all : \A y \in all : y <= x]

PlainPage(p) == [page |-> p, cursor |-> None, win |-> NoWin]

\* buildDataViewerRawPageRequest, reason "tags" and reason "page".
TagsRequest(v) ==
    IF v.bounds = None THEN PlainPage(v.page)
    ELSE [PlainPage(v.page) EXCEPT !.win = Win(v.bounds.from, v.bounds.to)]

MoveRequest(current, next, bounds) ==
    IF bounds = None \/ next - current \notin {-1, 1} THEN PlainPage(next)
    ELSE [PlainPage(next) EXCEPT !.cursor =
            IF next > current
            THEN [side |-> "next", ms |-> bounds.last.ms, tag |-> bounds.last.tag]
            ELSE [side |-> "prev", ms |-> bounds.first.ms, tag |-> bounds.first.tag]]

Bounded(req) == req.win # NoWin
Normalized(names) == IF names = {} THEN {Lowest(Tags)} ELSE names
HasNextPage == \/ Bounded(view.req)
               \/ result.st = "rows" /\ Cardinality(PageRows(result.q)) >= PageSize(view.sel, view.rpt)
-----------------------------------------------------------------------------
(* The effects. *)

\* A now-* window stays pinned across selection changes, a last-* window does not.
PinKey(v) == [range |-> v.range, token |-> v.token,
              anchor |-> IF v.range.kind = "last" THEN v.sel ELSE {}]

Without(kinds) == {c \in calls : c.kind \notin kinds}

\* Mutant: a new window keeps the page, its bounds and its cursor.
Applied_Kept(v) == v

\* A page request does not outlive the window it was made for.
Applied(v) ==
    IF PinKey(v) = PinKey(view) THEN v
    ELSE [v EXCEPT !.page = 1, !.req = PlainPage(1), !.bounds = None]

Query(v, pin) ==
    [names |-> v.sel, back |-> v.back, size |-> PageSize(v.sel, v.rpt),
     from |-> IF Bounded(v.req) THEN v.req.win.from ELSE pin.from,
     to |-> IF Bounded(v.req) THEN v.req.win.to ELSE pin.to,
     page |-> v.req.page, bounded |-> Bounded(v.req), cursor |-> v.req.cursor]

\* fetchRows for inputs v and window pin; others are the calls that stay.
FetchRows(v, pin, others) ==
    LET wait  == v.sel # {} /\ pin.key # PinKey(v)
        blank == v.sel = {} \/ (~wait /\ pin.from = NoTime)
    IN  /\ view' = IF blank THEN [v EXCEPT !.bounds = None] ELSE v
        /\ result' = IF blank THEN [st |-> "empty", q |-> None] ELSE result
        /\ loading' = ~blank
        /\ calls' = others \cup (IF wait \/ blank THEN {} ELSE {[kind |-> "rows", q |-> Query(v, pin)]})

\* The window of a range that needs no query is pinned before anything else
\* can happen; a last-* range asks the server first.
Render(v, repin, others) ==
    LET key == PinKey(v)
        ask == (repin \/ key # PinKey(view)) /\ v.range.kind = "last"
        now == (repin \/ key # PinKey(view)) /\ ~ask
        w   == Resolve(v.range, v.sel, clock)
        pin == IF now THEN [key |-> key, from |-> w.from, to |-> w.to] ELSE pinned
        old == IF now \/ ask THEN {c \in others : c.kind # "pin"} ELSE others
    IN  /\ pinned' = pin
        /\ FetchRows(Applied(v), pin,
                     IF ask THEN old \cup {[kind |-> "pin", key |-> key, range |-> v.range, names |-> v.sel]}
                            ELSE old)

Reset(v) == [v EXCEPT !.page = 1, !.req = PlainPage(1), !.bounds = None]
Op == ops < MaxOps /\ ops' = ops + 1
CanQuery == view.sel # {}
-----------------------------------------------------------------------------
(* Split charts have one Tag each and share one request number. *)

NoSplit == [range |-> None, win |-> None, rows |-> None]   \* the main window and rows
Cleared == [none |-> FALSE]                                \* an empty array of rows
NoWins == [g \in Tags |-> None]
SplitCall(groups, rest, ranges, wins) ==
    [kind |-> "split", groups |-> groups, rest |-> rest, ranges |-> ranges, wins |-> wins, now |-> clock]
-----------------------------------------------------------------------------
(* The user's operations on the main grid and chart. *)

\* The list of Tags arrives; without a selection the first Tag is selected.
TagsLoaded ==
    /\ view.sel = {}
    /\ Render([view EXCEPT !.sel = Normalized({}), !.req = TagsRequest(view)], FALSE,
              Without({"rows", "end"}))
    /\ exact' = TRUE
    /\ UNCHANGED <<endLoading, split, clock, ops>>

\* handleTagSelectionChange and the effects that normalise the selection and
\* drop the split charts of a deselected Tag (ids are never reused, so what
\* is still under way for such a chart has no effect).  Without its last Tag
\* the selection is empty for one render: a last-* window is resolved anew.
Toggle(tag) ==
    LET raw  == IF tag \in view.sel THEN view.sel \ {tag} ELSE view.sel \cup {tag}
        last == raw = {} /\ view.range.kind = "last"
        asked == [view EXCEPT !.sel = Normalized(raw), !.req = TagsRequest(view),
                              !.bounds = IF raw = {} THEN None ELSE @]
        v    == IF last THEN Reset(asked) ELSE asked
        gone == DOMAIN split \ v.sel
    IN  /\ Op /\ CanQuery
        /\ Render(v, last, {c \in Without({"rows", "end"}) :
                              c.kind = "split" => c.groups \cap gone = {}})
        /\ split' = [g \in DOMAIN split \cap v.sel |-> split[g]]
        /\ exact' = ~Bounded(view'.req)
        /\ UNCHANGED <<endLoading, clock>>

\* moveRawPage: the buttons wait for the rows, the page input does not.
MovePage(p) ==
    LET req == MoveRequest(view.page, p, view.bounds)
    IN  /\ Op /\ CanQuery
        /\ Render([view EXCEPT !.req = req, !.page = p], FALSE, Without({"rows"}))
        /\ exact' = (req.cursor = None \/ (exact /\ ~loading))
        /\ UNCHANGED <<endLoading, split, clock>>

\* The arrows of the main chart turn the page (the shift follows the scan).
ShiftMain(next) ==
    /\ next > view.page => HasNextPage
    /\ next \in 1..MaxPage /\ next # view.page
    /\ MovePage(next)

\* handleRowsPerTagChange and handleScanDirectionChange start again at page 1.
RowsPerTag(n) ==
    /\ Op /\ CanQuery /\ ~loading /\ ~endLoading
    /\ n # view.rpt
    /\ Render([Reset(view) EXCEPT !.rpt = n], FALSE, Without({"rows", "end"}))
    /\ exact' = TRUE
    /\ UNCHANGED <<endLoading, split, clock>>

ScanDirection(back) ==
    /\ Op /\ CanQuery
    /\ Render([Reset(view) EXCEPT !.back = back], FALSE, Without({"rows", "end"}))
    /\ exact' = TRUE
    /\ UNCHANGED <<endLoading, split, clock>>

\* handleRangeApply on the main range; the same text is pinned again.
ApplyRange(range) ==
    /\ Op
    /\ Render([Reset(view) EXCEPT !.range = range], TRUE, Without({"rows", "end"}))
    /\ exact' = TRUE
    /\ UNCHANGED <<endLoading, split, clock>>

\* handleRefreshRange: the main window, then the split charts one by one.
Refresh ==
    LET own == {g \in DOMAIN split : split[g].range # None}
    IN  /\ Op /\ ~loading /\ ~endLoading
        /\ Render([Reset(view) EXCEPT !.token = @ + 1], FALSE,
                  Without({"rows", "end"} \cup (IF CanQuery THEN {"split"} ELSE {}))
                  \cup (IF CanQuery /\ own # {} THEN {SplitCall({Lowest(own)}, own \ {Lowest(own)},
                                                          [g \in own |-> split[g].range], NoWins)}
                        ELSE {}))
        /\ exact' = TRUE
        /\ UNCHANGED <<endLoading, split, clock>>

\* handleEndPage asks for the total of the pinned window.
EndPage ==
    /\ Op /\ CanQuery /\ ~loading /\ ~endLoading /\ HasNextPage
    /\ pinned.key = PinKey(view) /\ pinned.from # NoTime
    /\ endLoading' = TRUE
    /\ calls' = Without({"end"}) \cup
          {[kind |-> "end", page |-> view.page, bounds |-> view.bounds, exact |-> exact,
            q |-> [Query(view, pinned) EXCEPT !.from = pinned.from, !.to = pinned.to]]}
    /\ UNCHANGED <<view, pinned, result, loading, split, clock, exact>>
-----------------------------------------------------------------------------
(* Answers. *)

\* Mutant: a window that could not be resolved is not stamped.
PinAnswer_OnlyFound(c, ok) ==
    LET w   == Resolve(c.range, c.names, clock)
        pin == [key |-> c.key, from |-> w.from, to |-> w.to]
    IN  /\ c.kind = "pin"
        /\ pinned' = IF ok THEN pin ELSE pinned
        /\ FetchRows(view, IF ok THEN pin ELSE pinned, Without({"pin", "rows"}))
        /\ UNCHANGED <<endLoading, split, clock, ops, exact>>

\* The pin effect: a failed or empty answer is stamped too, or fetchRows would
\* wait for ever.
PinAnswer(c, ok) ==
    LET w   == IF ok THEN Resolve(c.range, c.names, clock) ELSE NoWin
        pin == [key |-> c.key, from |-> w.from, to |-> w.to]
    IN  /\ c.kind = "pin"
        /\ pinned' = pin
        /\ FetchRows(view, pin, Without({"pin", "rows"}))
        /\ UNCHANGED <<endLoading, split, clock, ops, exact>>

RowsAnswer(c, ok) ==
    /\ c.kind = "rows"
    /\ result' = [st |-> IF ok THEN "rows" ELSE "failed", q |-> c.q]
    /\ view' = [view EXCEPT !.bounds = IF ok THEN PageBounds(c.q.back, PageRows(c.q)) ELSE None]
    /\ loading' = FALSE
    /\ calls' = calls \ {c}
    /\ UNCHANGED <<pinned, endLoading, split, clock, ops, exact>>

\* The request is built from the page and bounds of the click.
EndAnswer(c, ok) ==
    /\ c.kind = "end"
    /\ endLoading' = FALSE
    /\ IF ok
       THEN LET req == MoveRequest(c.page, LastPage(c.q), c.bounds)
            IN  /\ Render([view EXCEPT !.req = req, !.page = req.page], FALSE, Without({"end", "rows"}))
                /\ exact' = (req.cursor = None \/ c.exact)
       ELSE /\ calls' = calls \ {c}
            /\ UNCHANGED <<view, pinned, result, loading, exact>>
    /\ UNCHANGED <<split, clock, ops>>
-----------------------------------------------------------------------------
(* Split charts. *)

CreateSplit(g) ==
    /\ Op /\ g \in view.sel \ DOMAIN split
    /\ split' = [x \in DOMAIN split \cup {g} |-> IF x = g THEN NoSplit ELSE split[x]]
    /\ UNCHANGED <<view, pinned, result, loading, endLoading, calls, clock, exact>>

RemoveSplit(g) ==
    /\ Op /\ g \in DOMAIN split
    /\ split' = [x \in DOMAIN split \ {g} |-> split[x]]
    /\ calls' = Without({"split"})
    /\ UNCHANGED <<view, pinned, result, loading, endLoading, clock, exact>>

\* handleRangeApply on a split chart: resolve and query, then set both.
ApplySplit(g, range) ==
    /\ Op /\ g \in DOMAIN split /\ range # split[g].range
    /\ calls' = Without({"split"}) \cup {SplitCall({g}, {}, [x \in {g} |-> range], NoWins)}
    /\ UNCHANGED <<view, pinned, result, loading, endLoading, split, clock, exact>>

\* Mutant: the request number is not raised, so an older answer still counts.
ShiftSplit_OldCounts(g, d) ==
    LET w0 == IF split[g].win = None THEN Win(pinned.from, pinned.to) ELSE split[g].win
        w  == Win(w0.from + d, w0.to + d)
    IN  /\ Op /\ g \in DOMAIN split /\ w0.from # NoTime /\ w.from > NoTime
        /\ split' = [split EXCEPT ![g] = [@ EXCEPT !.range = Abs(w), !.win = w]]
        /\ calls' = calls \cup {SplitCall({g}, {}, NoWins, [NoWins EXCEPT ![g] = w])}
        /\ UNCHANGED <<view, pinned, result, loading, endLoading, clock, exact>>

\* handleShiftMainRange on a split chart: the window moves at once.
ShiftSplit(g, d) ==
    LET w0 == IF split[g].win = None THEN Win(pinned.from, pinned.to) ELSE split[g].win
        w  == Win(w0.from + d, w0.to + d)
    IN  /\ Op /\ g \in DOMAIN split /\ w0.from # NoTime /\ w.from > NoTime
        /\ split' = [split EXCEPT ![g] = [@ EXCEPT !.range = Abs(w), !.win = w]]
        /\ calls' = Without({"split"}) \cup {SplitCall({g}, {}, NoWins, [NoWins EXCEPT ![g] = w])}
        /\ UNCHANGED <<view, pinned, result, loading, endLoading, clock, exact>>

\* handleSetGlobalTime: the window of one chart becomes everybody's.
GlobalTime(g) ==
    LET w == IF g \in DOMAIN split /\ split[g].win # None THEN split[g].win
             ELSE Win(pinned.from, pinned.to)
    IN  /\ Op /\ CanQuery /\ DOMAIN split # {} /\ w.from # NoTime
        /\ split' = [x \in DOMAIN split |-> [range |-> Abs(w), win |-> w, rows |-> Cleared]]
        /\ Render([Reset(view) EXCEPT !.range = Abs(w)], TRUE,
                  Without({"rows", "end", "split"}) \cup {SplitCall(DOMAIN split, {}, NoWins, [x \in Tags |-> w])})
        /\ exact' = TRUE
        /\ UNCHANGED <<endLoading, clock>>

\* The answer brings the rows of the windows the call was made for: those the
\* chart already shows (wins), or its range resolved (apply, refresh).
SplitAnswer(c, ok) ==
    LET shown(g) == c.wins[g] # None
        w(g)     == IF shown(g) THEN c.wins[g] ELSE Resolve(c.ranges[g], {g}, c.now)
    IN  /\ c.kind = "split"
        /\ calls' = (calls \ {c}) \cup
              (IF ok /\ c.rest # {}
               THEN {[c EXCEPT !.groups = {Lowest(c.rest)}, !.rest = @ \ {Lowest(c.rest)}]} ELSE {})
        /\ split' = IF ~ok THEN split
                    ELSE [g \in DOMAIN split |->
                            IF g \notin c.groups \/ w(g) = NoWin THEN split[g]
                            ELSE IF shown(g) THEN [split[g] EXCEPT !.rows = w(g)]
                            ELSE [range |-> c.ranges[g], win |-> w(g), rows |-> w(g)]]
        /\ UNCHANGED <<view, pinned, result, loading, endLoading, clock, ops, exact>>
-----------------------------------------------------------------------------
\* What Jobs, rows and clocks look like.
ConstantsFit ==
    /\ Tags \subseteq Nat /\ IsFiniteSet(Tags) /\ Tags # {}
    /\ Table \subseteq [t : Nat, tag : Tags] /\ IsFiniteSet(Table)
    /\ Tick \in Nat \ {0} /\ Span \in Nat /\ MaxPage \in Nat
    /\ Clocks \subseteq Nat /\ Clocks # {} /\ PerTag \subseteq Nat \ {0} /\ PerTag # {}

Init ==
    LET v == [sel |-> {}, range |-> Rel("now"), token |-> 0, page |-> 1, req |-> PlainPage(1),
              bounds |-> None, back |-> TRUE, rpt |-> Lowest(PerTag)]
    IN  /\ view = v
        /\ clock = Lowest(Clocks)
        /\ pinned = [key |-> PinKey(v), from |-> clock - Span, to |-> clock + 1]
        /\ result = [st |-> "empty", q |-> None]
        /\ loading = FALSE /\ endLoading = FALSE
        /\ calls = {} /\ split = [g \in {} |-> NoSplit] /\ ops = 0 /\ exact = TRUE

Advance ==
    /\ clock + 1 \in Clocks
    /\ clock' = clock + 1
    /\ UNCHANGED <<view, pinned, result, loading, endLoading, calls, split, ops, exact>>

User ==
    \/ \E g \in Tags : Toggle(g) \/ CreateSplit(g) \/ RemoveSplit(g) \/ GlobalTime(g)
    \/ \E p \in 1..MaxPage : MovePage(p)
    \/ \E d \in {-1, 1} : ShiftMain(view.page + d)
    \/ \E n \in PerTag : RowsPerTag(n)
    \/ \E b \in BOOLEAN : ScanDirection(b)
    \/ \E k \in {"now", "last"} : ApplyRange(Rel(k)) \/ \E g \in Tags : ApplySplit(g, Rel(k))
    \/ \E g \in Tags, d \in {-1, 1} : ShiftSplit(g, d)
    \/ Refresh \/ EndPage

Answer ==
    \E c \in calls, ok \in BOOLEAN :
        PinAnswer(c, ok) \/ RowsAnswer(c, ok) \/ EndAnswer(c, ok) \/ SplitAnswer(c, ok)

Next == TagsLoaded \/ User \/ Answer \/ Advance

\* Every request of the page is answered or fails.
Spec == Init /\ [][Next]_vars /\ WF_vars(Answer)
-----------------------------------------------------------------------------
Settled == ~loading /\ result.st = "rows"

(* The rows on the screen answer the query of the current inputs: they are  *)
(* of the selected Tags, in the scan direction and page size chosen, and    *)
(* inside the window the caption shows (DataViewerPage.jsx:1408).           *)
ShownInStep ==
    Settled => /\ result.q.names = view.sel /\ result.q.back = view.back
               /\ result.q.size = PageSize(view.sel, view.rpt)
               /\ pinned.key = PinKey(view)
               /\ pinned.from <= result.q.from /\ result.q.to <= pinned.to

(* The page labelled p holds the p-th slice of the window, however the user *)
(* got there, unless the page was turned while the previous one was loading *)
(* or the Tags were toggled on it (exact).  A cursor is cut to milliseconds: *)
(* it finds its row again when the rows' times are whole ones.               *)
WholeMilliseconds == \A r \in Table : r.t % Tick = 0
PageIsThatPage ==
    Settled /\ exact /\ ~Bounded(view.req)
        => PageRows(result.q) = PageRows([result.q EXCEPT !.cursor = None, !.page = view.page])

(* A range anchored on the data shows the data: page 1 of a last-* window,   *)
(* newest first, begins with the newest row of the selected Tags.            *)
NewestRowShown ==
    Settled /\ view.range.kind = "last" /\ view.page = 1 /\ view.back /\ view.req = PlainPage(1)
        => \/ \A r \in Table : r.tag \notin view.sel
           \/ \E first \in PageRows(result.q) :
                /\ \A r \in PageRows(result.q) : ~Precedes(result.q.back, r, first)
                /\ \A r \in Table : r.tag \in view.sel => r.t <= first.t

(* Rows that land in a split chart are those of the window it shows.         *)
SplitRowsStep ==
    \A g \in DOMAIN split \cap DOMAIN split' :
          split'[g].rows # split[g].rows => split'[g].rows \in {None, Cleared, split'[g].win}
SplitRowsInStep == [][SplitRowsStep]_vars

(* The grid does not wait for ever.                                          *)
LoadingEnds == loading ~> ~loading
=============================================================================
