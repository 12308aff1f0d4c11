------------------------------ MODULE ChartZoom ------------------------------
(* The time window of one chart of the Data Viewer (TagEChart and the range  *)
(* functions of dataViewerModel.js): the part displayed and the navigator    *)
(* below it.  Ranges are whole milliseconds, because every new range is      *)
(* written with toISOString, which drops fractions; the pointer of a drag is *)
(* in half milliseconds.                                                     *)
EXTENDS Integers

CONSTANTS Navs,     \* the data windows a query can show, records [from, to]
          Last,     \* the last millisecond of the time axis
          MaxSteps  \* bound on the gestures

VARIABLES nav,      \* navigatorRange
          view,     \* displayRange, None before the first gesture
          drag,     \* dragStateRef: mode, start and the ranges at mousedown
          by,       \* ghost: the last gesture
          strayed,  \* ghost: the data window moved under the view or a drag
          steps
vars == <<nav, view, drag, by, strayed, steps>>

None == [none |-> TRUE]
Range(f, t) == [from |-> f, to |-> t]
Smaller(a, b) == IF a < b THEN a ELSE b
Larger(a, b) == IF a > b THEN a ELSE b
Width(r) == r.to - r.from
Within(r, s) == s.from <= r.from /\ r.to <= s.to
Current == IF view = None THEN nav ELSE view
-----------------------------------------------------------------------------
(* Ranges under computation are fractions: from and to over a common n. *)

Frac(f, t, n) == [from |-> f, to |-> t, n |-> n]

\* Mutant: a range past the right end of the data is left there.
Clamp_LeftOnly(r, w) ==
    LET up == IF r.from < w.from * r.n THEN w.from * r.n - r.from ELSE 0
    IN  Frac(r.from + up, r.to + up, r.n)

\* Shift the range back inside w, then cut what is still outside.
Clamp(r, w) ==
    LET lo == w.from * r.n  hi == w.to * r.n
        up == IF r.from < lo THEN lo - r.from ELSE 0
        dn == IF r.to + up > hi THEN r.to + up - hi ELSE 0
    IN  Frac(Larger(r.from + up - dn, lo), Smaller(r.to + up - dn, hi), r.n)

\* isSameDataViewerChartRange: equal once floored and ceiled to milliseconds.
Ceil(x, n) == -((-x) \div n)
Same(r, cur) == r.from \div r.n = cur.from /\ Ceil(r.to, r.n) = cur.to

\* A gesture hands on the range in whole milliseconds, unless it is nothing new.
Emit(r, cur, n, how) ==
    /\ r.from < r.to \/ how = "slider"
    /\ ~Same(r, cur)
    /\ view' = Range(r.from \div r.n, r.to \div r.n)
    /\ nav' = n
    /\ by' = how

Usable(cur, w) == cur.from < cur.to /\ w.from < w.to
Zoomed(cur, part) ==   \* part in tenths of the span, on each side
    Frac(10 * cur.from + part * Width(cur), 10 * cur.to - part * Width(cur), 10)
-----------------------------------------------------------------------------
Step == steps < MaxSteps /\ steps' = steps + 1
Idle == Step /\ UNCHANGED <<drag, strayed>>

\* buildDataViewerZoomControlRange: the five buttons, zoom 0.2 or 0.4.
ZoomIn(part) ==
    /\ Idle /\ Usable(Current, nav)
    /\ Emit(Clamp(Zoomed(Current, part), nav), Current, nav, "in")

ZoomOut(part) ==
    /\ Idle /\ Usable(Current, nav)
    /\ Emit(Clamp(Zoomed(Current, -part), nav), Current, nav, "out")

Focus ==
    LET c == Current
        s == Larger(Width(c), 5)    \* a fifth of the span, at least 1 ms; over 10
    IN  /\ Idle /\ Usable(c, nav)
        /\ Emit(Clamp(Frac(5 * (c.from + c.to) - s, 5 * (c.from + c.to) + s, 10), nav), c, nav, "in")

\* buildDataViewerWheelZoomRange: the anchor under the pointer stays in place.
WheelRange(zoomIn, anchor) ==
    LET c     == Current
        w     == Width(c)
        span  == Smaller(Larger((IF zoomIn THEN 82 ELSE 122) * w, 100), 100 * Width(nav))
        start == 100 * w * anchor - span * (anchor - c.from)
    IN  Clamp(Frac(start, start + span * w, 100 * w), nav)

Wheel(zoomIn, anchor) ==
    /\ Idle /\ Usable(Current, nav) /\ Current.from <= anchor /\ anchor <= Current.to
    /\ Emit(WheelRange(zoomIn, anchor), Current, nav, IF zoomIn THEN "in" ELSE "out")

\* extractDataViewerDataZoomRange: the handles at s and e eighths of the
\* navigator; the code has percentages, or the same two times as values.
SliderRange(s, e) == Frac(8 * nav.from + s * Width(nav), 8 * nav.from + e * Width(nav), 8)

\* The slider of the navigator; its handles may meet.
Slide(s, e) ==
    /\ Idle /\ s <= e
    /\ Emit(SliderRange(s, e), Current, nav, "slider")
-----------------------------------------------------------------------------
(* A drag works on the ranges of its mousedown, whatever happens meanwhile. *)

\* convertMouseEventToTimestamp: a drag begins on the plot and, where the
\* pointer leaves it, goes on at the end of the axis that it passed.
OnAxis(half) == 2 * Current.from <= half /\ half <= 2 * Current.to

MouseDown(mode, half) ==
    /\ Step /\ drag = None
    /\ OnAxis(half)
    /\ drag' = [mode |-> mode, start |-> half, view |-> Current, nav |-> nav]
    /\ UNCHANGED <<nav, view, by, strayed>>

\* buildDataViewerDragRangeUpdate, in half milliseconds.
Dragged(d, end) ==
    LET c    == Range(2 * d.view.from, 2 * d.view.to)
        span == Smaller(Width(c) + (IF end > d.start THEN end - d.start ELSE d.start - end),
                        2 * Width(d.nav))
    IN  CASE d.mode = "in"  -> Frac(Smaller(d.start, end), Larger(d.start, end), 2)
          [] d.mode = "pan" -> Frac(c.from + d.start - end, c.to + d.start - end, 2)
          [] d.mode = "out" -> Frac(d.start + end - span, d.start + end + span, 4)

\* emitDragRange
EmitDrag(end) ==
    IF /\ drag.start # end /\ Usable(drag.view, drag.nav)
       /\ drag.mode # "in" => Width(drag.view) < Width(drag.nav)
       /\ ~Same(Clamp(Dragged(drag, end), drag.nav), drag.view)
    THEN Emit(Clamp(Dragged(drag, end), drag.nav), drag.view, drag.nav,
              [in |-> "dragin", pan |-> "dragpan", out |-> "dragout"][drag.mode])
    ELSE UNCHANGED <<nav, view, by>>

\* handleDragMove
MouseMove(end) ==
    /\ Step /\ drag # None /\ OnAxis(end)
    /\ drag.mode = "pan" /\ EmitDrag(end)
    /\ UNCHANGED <<drag, strayed>>

\* handleDragEnd, applyDragRange: fewer than eight pixels are no drag.
MouseUp(end) ==
    /\ Step /\ drag # None /\ OnAxis(end)
    /\ drag' = None /\ UNCHANGED strayed
    /\ EmitDrag(end) \/ UNCHANGED <<nav, view, by>>
-----------------------------------------------------------------------------
(* The page. *)

\* Refresh and Apply, main or split: a new window, the view is dropped.
Requery(w) ==
    /\ Step /\ view' = None /\ nav' = w /\ by' = "query"
    /\ strayed' = (drag # None) /\ UNCHANGED drag

\* A last-* window follows the selection; the view is kept.
Repin(w) ==
    /\ Step /\ nav' = w /\ by' = "query"
    /\ strayed' = (strayed \/ drag # None \/ (view # None /\ ~Within(view, w)))
    /\ UNCHANGED <<view, drag>>

\* buildDataViewerShiftMainRangeUpdate: view and navigator by 30 % of the latter.
Shifted(r, d) == LET off(x) == (10 * x + 3 * d * Width(nav)) \div 10
                 IN  Range(off(r.from), off(r.to))

Shift(d) ==
    /\ Idle /\ Usable(Current, nav)
    /\ Shifted(nav, d).from >= 0 /\ Shifted(nav, d).to <= Last
    /\ nav' = Shifted(nav, d)
    /\ view' = Shifted(Current, d)
    /\ by' = "shift"

Init == /\ nav \in Navs /\ view = None /\ drag = None
        /\ by = "query" /\ strayed = FALSE /\ steps = 0

Next ==
    \/ \E part \in {2, 4} : ZoomIn(part) \/ ZoomOut(part)
    \/ Focus
    \/ \E z \in BOOLEAN, a \in 0..Last : Wheel(z, a)
    \/ \E s, e \in 0..8 : Slide(s, e)
    \/ \E m \in {"in", "pan", "out"}, h \in 0..(2 * Last) : MouseDown(m, h)
    \/ \E h \in 0..(2 * Last) : MouseMove(h) \/ MouseUp(h)
    \/ \E w \in Navs : Requery(w) \/ Repin(w)
    \/ \E d \in {-1, 1} : Shift(d)

Spec == Init /\ [][Next]_vars
-----------------------------------------------------------------------------
(* However many gestures, the chart shows a part of the data it has, unless  *)
(* the window was resolved anew under the view or under a drag.              *)
ViewInNavigator == strayed \/ Within(Current, nav)

(* A gesture does what its name says: zooming in never widens and zooming    *)
(* out never narrows the view, a shift keeps its width and a pan that of the *)
(* view it began on; only a zoom by drag over a view that changed meanwhile  *)
(* promises nothing.                                                         *)
KeepsItsWord ==
    ~strayed /\ view' # view =>
          LET was == Width(Current)
              is  == Width(view')
          IN  CASE by' = "in"      -> is <= was
                [] by' = "out"     -> is >= was
                [] by' = "shift"   -> is = was
                [] by' = "dragpan" -> is = Width(drag.view)
                [] by' = "dragin"  -> is <= was \/ drag.view # Current
                [] by' = "dragout" -> is >= was \/ drag.view # Current
                [] OTHER -> TRUE
GestureKeepsItsWord == [][KeepsItsWord]_vars
=============================================================================
