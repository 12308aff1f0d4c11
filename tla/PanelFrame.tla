------------------------------- MODULE PanelFrame -------------------------------
(* Where the Live Logs panel lies in the viewport, along one of its two      *)
(* axes, which the code treats alike: it is dragged by its header, resized   *)
(* by its edge, and put back when the viewport changes.                      *)
EXTENDS Integers, FiniteSetsExt

CONSTANTS Views,    \* extents of the viewport, even
          Margin, SafeMin, PanelMin, Default,   \* VIEWPORT_MARGIN, SAFE_MIN_.., MIN_.., DEFAULT_..
          Mouse     \* where the mouse can be

\* The least extent with a reachable Close button is no larger than the usual one.
ConstantsFit == /\ Views \subseteq Nat /\ Mouse \subseteq Int
                /\ {Margin, SafeMin, PanelMin, Default} \subseteq Nat
                /\ SafeMin <= PanelMin

VARIABLES view, open, size, pos,
          grip      \* what is held: the header with its offset, the edge with what it started from
vars == <<view, open, size, pos, grip>>

Least(a, b) == IF a < b THEN a ELSE b
Most(a, b)  == IF a < b THEN b ELSE a
Loose == [k |-> "none"]
-----------------------------------------------------------------------------
\* viewportBounds: the margin gives way in a viewport too small for it.
MarginOf(w)  == Least(Margin, Most(0, (w - SafeMin) \div 2))
Available(w) == Most(0, w - 2 * MarginOf(w))

\* minimumPanelExtent
MinExtent(available) == IF available >= PanelMin THEN PanelMin ELSE Least(SafeMin, available)

ClampSize(s, w) == Least(Most(MinExtent(Available(w)), s), Available(w))

\* Mutant: the far side is measured from the edge of the viewport.
ClampPosition_NoMargin(p, s, w) == Least(Most(MarginOf(w), p), Most(MarginOf(w), w - s))

ClampPosition(p, s, w) == Least(Most(MarginOf(w), p), Most(MarginOf(w), w - s - MarginOf(w)))
-----------------------------------------------------------------------------
Init == /\ view \in Views /\ open = FALSE /\ grip = Loose
        /\ size = ClampSize(Default, view) /\ pos = ClampPosition(view, size, view)

Open == /\ ~open /\ open' = TRUE
        /\ size' = ClampSize(size, view) /\ pos' = ClampPosition(view, size', view)
        /\ UNCHANGED <<view, grip>>
Close == open /\ grip = Loose /\ open' = FALSE /\ UNCHANGED <<view, size, pos, grip>>

\* Mutant: only the size is looked at again.
ResizeView_SizeOnly(w) ==
    /\ w # view /\ grip.k # "edge" /\ view' = w
    /\ IF open THEN size' = ClampSize(size, w) /\ pos' = pos ELSE UNCHANGED <<size, pos>>
    /\ UNCHANGED <<open, grip>>

\* onViewportResize; the viewport keeps its extent while the edge is held.
ResizeView(w) ==
    /\ w # view /\ grip.k # "edge" /\ view' = w
    /\ IF open THEN size' = ClampSize(size, w) /\ pos' = ClampPosition(pos, size', w)
               ELSE UNCHANGED <<size, pos>>
    /\ UNCHANGED <<open, grip>>

GrabHeader(m) == /\ open /\ grip = Loose /\ m \in pos..(pos + size)
                 /\ grip' = [k |-> "header", off |-> m - pos]
                 /\ UNCHANGED <<view, open, size, pos>>
GrabEdge(m) == /\ open /\ grip = Loose /\ m \in (pos + size - 1)..(pos + size)
               /\ grip' = [k |-> "edge", from |-> m, size |-> size, pos |-> pos]
               /\ UNCHANGED <<view, open, size, pos>>

Drag(m) == /\ grip.k = "header"
           /\ pos' = ClampPosition(m - grip.off, size, view)
           /\ UNCHANGED <<view, open, size, grip>>
\* Up to the viewport's margin, from where the panel started.
Stretch(m) == /\ grip.k = "edge"
              /\ LET room == Most(0, view - grip.pos - MarginOf(view))
                 IN size' = Least(Most(MinExtent(room), grip.size + m - grip.from), room)
              /\ UNCHANGED <<view, open, pos, grip>>
Release == grip # Loose /\ grip' = Loose /\ UNCHANGED <<view, open, size, pos>>

Next == \/ Open \/ Close \/ Release
        \/ \E w \in Views : ResizeView(w)
        \/ \E m \in Mouse : GrabHeader(m) \/ GrabEdge(m) \/ Drag(m) \/ Stretch(m)
Spec == Init /\ [][Next]_vars
-----------------------------------------------------------------------------
(* However it is dragged and stretched and the viewport resized, an open     *)
(* panel lies inside the viewport with its margins and is wide enough for    *)
(* its Close button to be pressed, as far as the viewport has that room.     *)
PanelReachable ==
    open => /\ pos >= MarginOf(view) /\ pos + size <= view - MarginOf(view)
            /\ size >= Least(SafeMin, Available(view))
=============================================================================
