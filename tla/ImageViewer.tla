----------------------------- MODULE ImageViewer -----------------------------
(***************************************************************************)
(* The image canvas of the preview (crates/lixun-preview-image): a picture *)
(* zoomed, turned by quarters and marked with a rectangle, inside a        *)
(* scrolled window.  The frame clock (layout, first fit), the idle queue   *)
(* (re-alignment after a zoom) and the user's events interleave.           *)
(*                                                                         *)
(* Zoom z stands for z / IvUnit.  Lengths on the widget count in parts of  *)
(* 1 / IvUnit pixel, lengths on the picture in parts of 1 / IvGrains       *)
(* pixel, fine enough for every division below to be exact.                *)
(***************************************************************************)
EXTENDS Integers, Sequences, FiniteSetsExt

CONSTANTS
    IvPictures,   \* base_w and base_h of the textures looked at
    IvView,       \* the size the scrolled window is given
    IvUnit,       \* zoom 1.0
    IvGrains,     \* parts of a pixel the picture's points count in
    IvMinZoom, IvMaxZoom, IvZoomStep,
    IvPoints,     \* places on the widget where a button is pressed
    IvDrags,      \* how far the pointer is dragged, as pairs
    IvScenes,     \* what one user does: "zoom" and "pan", or "zoom" and "mark"
    IvClick       \* a drag shorter than this is a click

ASSUME IvAssumption ==
    /\ {IvUnit, IvGrains, IvMinZoom, IvMaxZoom, IvZoomStep} \subseteq Nat \ {0}
    /\ IvMinZoom <= IvUnit /\ IvUnit <= IvMaxZoom

VARIABLES
    ivMay,      \* what this user does
    ivPic,      \* the texture's size
    ivView,     \* the size of the scrolled window: nothing before the first layout
    ivAlloc,    \* the size given to the canvas at the last layout
    ivScroll,   \* value of the horizontal adjustment
    ivZoom, ivTurns,
    ivMarquee,  \* NoRect, or corners in picture space
    ivFit,      \* the one-shot fit is still to come
    ivIdle,     \* re-alignments waiting for an idle moment
    ivDrag,     \* the primary-button gesture: pressed at, dragged by
    ivClip,     \* history: the pixels the last step copied
    ivAnchor    \* history: the point in the middle when the last lone zoom began

ivVars == <<ivMay, ivPic, ivView, ivAlloc, ivScroll, ivZoom, ivTurns, ivMarquee, ivFit,
            ivIdle, ivDrag, ivClip, ivAnchor>>

NoRect == [x |-> 0, y |-> 0, x2 |-> -1, y2 |-> -1]
NoDrag == [on |-> FALSE, from |-> <<0, 0>>, by |-> <<0, 0>>, drawn |-> FALSE]
NoClip == [cut |-> NoRect, of |-> NoRect]
NoAnchor == [doc |-> 0, kept |-> FALSE]

-----------------------------------------------------------------------------
(* The geometry of canvas.rs *)

Clamped(v, low, high) == IF v < low THEN low ELSE IF v > high THEN high ELSE v
zoomed_in(z) == Clamped(z * IvZoomStep, IvMinZoom, IvMaxZoom)
zoomed_out(z) == Clamped(z \div IvZoomStep, IvMinZoom, IvMaxZoom)

\* Extents as they lie on the screen: odd quarter turns swap them.
rotation_is_quarter == ivTurns % 2 = 1
Extent == IF rotation_is_quarter THEN <<ivPic[2], ivPic[1]>> ELSE ivPic
scaled_size == <<Extent[1] * ivZoom, Extent[2] * ivZoom>>

\* The picture is centred in whatever the scrolled window allots beyond it.
Offset == [i \in 1 .. 2 |-> Max({(ivAlloc[i] - scaled_size[i]) \div 2, 0})]

Base(i) == ivPic[i] * IvGrains

\* MUTANT: a turn to the right read back as one to the left.
widget_point_to_image_turned(p) ==
    LET r == [i \in 1 .. 2 |-> ((p[i] - Offset[i]) * IvGrains) \div ivZoom]
    IN  CASE ivTurns = 1 -> <<Base(1) - r[2], r[1]>>
          [] ivTurns = 2 -> <<Base(1) - r[1], Base(2) - r[2]>>
          [] ivTurns = 3 -> <<r[2], Base(2) - r[1]>>
          [] OTHER -> <<r[1], r[2]>>

widget_point_to_image(p) ==
    LET r == [i \in 1 .. 2 |-> ((p[i] - Offset[i]) * IvGrains) \div ivZoom]
    IN  CASE ivTurns = 1 -> <<r[2], Base(2) - r[1]>>
          [] ivTurns = 2 -> <<Base(1) - r[1], Base(2) - r[2]>>
          [] ivTurns = 3 -> <<Base(1) - r[2], r[1]>>
          [] OTHER -> <<r[1], r[2]>>

image_point_to_widget(p) ==
    LET r == CASE ivTurns = 1 -> <<Base(2) - p[2], p[1]>>
               [] ivTurns = 2 -> <<Base(1) - p[1], Base(2) - p[2]>>
               [] ivTurns = 3 -> <<p[2], Base(1) - p[1]>>
               [] OTHER -> p
    IN  <<(r[1] * ivZoom) \div IvGrains, (r[2] * ivZoom) \div IvGrains>>

widget_drag_to_image_rect(from, by) ==
    LET p == widget_point_to_image(from)
        q == widget_point_to_image(<<from[1] + by[1], from[2] + by[2]>>)
    IN  [x |-> Clamped(Min({p[1], q[1]}), 0, Base(1)), y |-> Clamped(Min({p[2], q[2]}), 0, Base(2)),
         x2 |-> Clamped(Max({p[1], q[1]}), 0, Base(1)), y2 |-> Clamped(Max({p[2], q[2]}), 0, Base(2))]

MarqueeContains(m, p) == m.x <= p[1] /\ p[1] <= m.x2 /\ m.y <= p[2] /\ p[2] <= m.y2

\* Where render() paints the marquee, and where its transform puts a point of
\* the texture: moved to the centre, turned about it, scaled.
PaintedMarquee ==
    LET p == image_point_to_widget(<<ivMarquee.x, ivMarquee.y>>)
        q == image_point_to_widget(<<ivMarquee.x2, ivMarquee.y2>>)
    IN  [x |-> Min({p[1], q[1]}) + Offset[1], y |-> Min({p[2], q[2]}) + Offset[2],
         x2 |-> Max({p[1], q[1]}) + Offset[1], y2 |-> Max({p[2], q[2]}) + Offset[2]]
PaintedPoint(p) ==
    LET d == <<2 * p[1] - Base(1), 2 * p[2] - Base(2)>>
        turned == CASE ivTurns = 1 -> <<-d[2], d[1]>>
                    [] ivTurns = 2 -> <<-d[1], -d[2]>>
                    [] ivTurns = 3 -> <<d[2], -d[1]>>
                    [] OTHER -> d
    IN  [i \in 1 .. 2 |-> Offset[i] + (scaled_size[i] * IvGrains + turned[i] * ivZoom) \div (2 * IvGrains)]

Rounded(v) == (2 * v + IvGrains) \div (2 * IvGrains)

\* MUTANT: the width is not clamped to what is left of the row.
marquee_texture_unclamped ==
    LET mx == Clamped(Rounded(ivMarquee.x), 0, ivPic[1])
        my == Clamped(Rounded(ivMarquee.y), 0, ivPic[2])
        mw == Clamped(Rounded(ivMarquee.x2 - ivMarquee.x), 0, ivPic[1])
        mh == Clamped(Rounded(ivMarquee.y2 - ivMarquee.y), 0, ivPic[2])
    IN  IF mw <= 0 \/ mh <= 0 THEN NoRect ELSE [x |-> mx, y |-> my, x2 |-> mx + mw, y2 |-> my + mh]

marquee_texture ==
    LET mx == Clamped(Rounded(ivMarquee.x), 0, ivPic[1])
        my == Clamped(Rounded(ivMarquee.y), 0, ivPic[2])
        mw == Clamped(Rounded(ivMarquee.x2 - ivMarquee.x), 0, ivPic[1] - mx)
        mh == Clamped(Rounded(ivMarquee.y2 - ivMarquee.y), 0, ivPic[2] - my)
    IN  IF ivMarquee = NoRect \/ mw <= 0 \/ mh <= 0 THEN NoRect
        ELSE [x |-> mx, y |-> my, x2 |-> mx + mw, y2 |-> my + mh]

fit_zoom(extent, view) ==
    Clamped(Min({(view[1]) \div extent[1], (view[2]) \div extent[2], IvUnit}), IvMinZoom, IvMaxZoom)

-----------------------------------------------------------------------------
(* Zooming *)

\* The point of the document in the middle of the view, as the eye sees it.
InTheMiddle == ((ivScroll + ivView[1] \div 2 - Offset[1]) * IvGrains) \div ivZoom
LaidOut == \A i \in 1 .. 2 : ivAlloc[i] = Max({ivView[i], scaled_size[i]})
ScrollEnd == ivAlloc[1] - ivView[1]

canvas_set_zoom(z) == ivZoom' = Clamped(z, IvMinZoom, IvMaxZoom)

\* MUTANT: the point is read after the zoom has been set.
canvas_zoom_centered_after(z) ==
    /\ z # ivZoom
    /\ canvas_set_zoom(z)
    /\ ivIdle' = Append(ivIdle, ((ivScroll + ivView[1] \div 2) * IvGrains) \div z)
    /\ ivAnchor' = [doc |-> InTheMiddle, kept |-> ivIdle = <<>> /\ LaidOut /\ Offset[1] = 0]

canvas_zoom_centered(z) ==
    /\ z # ivZoom
    /\ canvas_set_zoom(z)
    /\ ivIdle' = Append(ivIdle, ((ivScroll + ivView[1] \div 2) * IvGrains) \div ivZoom)
    /\ ivAnchor' = [doc |-> InTheMiddle, kept |-> ivIdle = <<>> /\ LaidOut /\ Offset[1] = 0]

Lost == ivAnchor' = [ivAnchor EXCEPT !.kept = FALSE]
Redrawn == ivDrag' = [ivDrag EXCEPT !.drawn = FALSE]

\* Buttons, pinch and Ctrl with the wheel anchor the middle; the keys do not.
Shown == ivView # <<0, 0>>
wire_zoom ==
    /\ Shown /\ "pan" \in ivMay /\ Len(ivIdle) < 2
    /\ \E z \in {zoomed_in(ivZoom), zoomed_out(ivZoom), IvUnit} : canvas_zoom_centered(z)
    /\ Redrawn
    /\ UNCHANGED <<ivMay, ivPic, ivView, ivAlloc, ivScroll, ivTurns, ivMarquee, ivFit>>
canvas_keys ==
    /\ Shown
    /\ \E z \in {zoomed_in(ivZoom), zoomed_out(ivZoom), IvUnit} : z # ivZoom /\ canvas_set_zoom(z)
    /\ Lost /\ Redrawn
    /\ UNCHANGED <<ivMay, ivPic, ivView, ivAlloc, ivScroll, ivTurns, ivMarquee, ivFit, ivIdle>>

\* The idle callback: the recorded point back to the middle, within the range
\* the adjustment has by now.
Realigned ==
    /\ ivIdle # <<>>
    /\ ivScroll' = Clamped((Head(ivIdle) * ivZoom) \div IvGrains - ivView[1] \div 2, 0, Max({ScrollEnd, 0}))
    /\ ivIdle' = Tail(ivIdle)
    /\ ivAnchor' = [ivAnchor EXCEPT !.kept = @ /\ LaidOut /\ Offset[1] = 0]
    /\ UNCHANGED <<ivMay, ivPic, ivView, ivAlloc, ivZoom, ivTurns, ivMarquee, ivFit, ivDrag>>

\* The wheel and the middle button move the adjustment.
Pan ==
    /\ Shown /\ "pan" \in ivMay
    /\ ivScroll' \in {Clamped(ivScroll + d, 0, Max({ScrollEnd, 0})) : d \in {-IvUnit, IvUnit}}
    /\ ivScroll' # ivScroll
    /\ Lost
    /\ UNCHANGED <<ivMay, ivPic, ivView, ivAlloc, ivZoom, ivTurns, ivMarquee, ivFit, ivIdle, ivDrag>>

\* A frame: the canvas is measured and allotted, the adjustment clamped.
Layout ==
    /\ ivView' = IvView
    /\ ivAlloc' = [i \in 1 .. 2 |-> Max({IvView[i], scaled_size[i]})]
    /\ ivAlloc' # ivAlloc
    /\ ivScroll' = Clamped(ivScroll, 0, ivAlloc'[1] - IvView[1])
    /\ ivAnchor' = [ivAnchor EXCEPT !.kept = @ /\ ivScroll' = ivScroll]
    /\ Redrawn
    /\ UNCHANGED <<ivMay, ivPic, ivZoom, ivTurns, ivMarquee, ivFit, ivIdle>>

\* The tick callback: once the scrolled window has a size, the picture is fit
\* to it, whatever was zoomed since.
FirstFit ==
    /\ ivFit /\ Shown
    /\ ivFit' = FALSE
    /\ canvas_set_zoom(fit_zoom(Extent, ivView))
    /\ Lost /\ Redrawn
    /\ UNCHANGED <<ivMay, ivPic, ivView, ivAlloc, ivScroll, ivTurns, ivMarquee, ivIdle>>

-----------------------------------------------------------------------------
(* Turning, marking and copying *)

rotate ==
    /\ Shown /\ "mark" \in ivMay
    /\ ivTurns' \in {(ivTurns + 1) % 4, (ivTurns + 3) % 4}
    /\ Lost /\ Redrawn
    /\ UNCHANGED <<ivMay, ivPic, ivView, ivAlloc, ivScroll, ivZoom, ivMarquee, ivFit, ivIdle>>

drag_begin ==
    /\ Shown /\ "mark" \in ivMay /\ ~ivDrag.on
    /\ \E p \in IvPoints : ivDrag' = [on |-> TRUE, from |-> p, by |-> <<0, 0>>, drawn |-> FALSE]
    /\ ivMarquee' = NoRect
    /\ UNCHANGED <<ivMay, ivPic, ivView, ivAlloc, ivScroll, ivZoom, ivTurns, ivFit, ivIdle, ivAnchor>>

drag_update ==
    /\ ivDrag.on
    /\ \E d \in IvDrags :
        /\ ivDrag' = [ivDrag EXCEPT !.by = d, !.drawn = TRUE]
        /\ ivMarquee' = widget_drag_to_image_rect(ivDrag.from, d)
    /\ UNCHANGED <<ivMay, ivPic, ivView, ivAlloc, ivScroll, ivZoom, ivTurns, ivFit, ivIdle, ivAnchor>>

\* A drag shorter than a click gives the marquee up, unless it was pressed
\* inside: inside the rectangle that very drag has drawn.
drag_end ==
    /\ ivDrag.on
    /\ ivDrag' = NoDrag
    /\ LET click == \A i \in 1 .. 2 : ivDrag.by[i] < IvClick /\ -ivDrag.by[i] < IvClick
           outside == ~MarqueeContains(ivMarquee, widget_point_to_image(ivDrag.from))
       IN  ivMarquee' = IF click /\ ivMarquee # NoRect /\ outside THEN NoRect ELSE ivMarquee
    /\ UNCHANGED <<ivMay, ivPic, ivView, ivAlloc, ivScroll, ivZoom, ivTurns, ivFit, ivIdle, ivAnchor>>

\* Ctrl+C: the marked pixels go to the clipboard and the marquee is let go.
copy_marquee ==
    /\ marquee_texture # NoRect
    /\ ivClip' = [cut |-> marquee_texture, of |-> ivMarquee]
    /\ ivMarquee' = NoRect /\ Redrawn
    /\ UNCHANGED <<ivMay, ivPic, ivView, ivAlloc, ivScroll, ivZoom, ivTurns, ivFit, ivIdle, ivAnchor>>

IvInit ==
    /\ ivMay \in IvScenes
    /\ ivPic \in IvPictures
    /\ ivView = <<0, 0>> /\ ivAlloc = <<0, 0>> /\ ivScroll = 0
    /\ ivZoom = IvUnit /\ ivTurns = 0 /\ ivMarquee = NoRect
    /\ ivFit = TRUE /\ ivIdle = <<>> /\ ivDrag = NoDrag
    /\ ivClip = NoClip /\ ivAnchor = NoAnchor

IvNext ==
    \/ /\ \/ wire_zoom \/ canvas_keys \/ Realigned \/ Pan \/ Layout \/ FirstFit
          \/ rotate \/ drag_begin \/ drag_update \/ drag_end
       /\ ivClip' = NoClip
    \/ copy_marquee

IvSpec == IvInit /\ [][IvNext]_ivVars

-----------------------------------------------------------------------------
(* Properties *)

IvTypeOK ==
    /\ ivPic \in IvPictures /\ ivTurns \in 0 .. 3 /\ ivZoom \in IvMinZoom .. IvMaxZoom
    /\ ivScroll \in Nat /\ ivFit \in BOOLEAN /\ Len(ivIdle) <= 2
    /\ ivMarquee = NoRect \/ MarqueeContains([x |-> 0, y |-> 0, x2 |-> Base(1), y2 |-> Base(2)],
                                      <<ivMarquee.x2, ivMarquee.y2>>)

\* The marquee is painted over the very pixels it stands for, at every zoom
\* and turn and wherever the picture is centred.
MarqueeOnItsPixels ==
    ivMarquee # NoRect =>
        LET p == PaintedPoint(<<ivMarquee.x, ivMarquee.y>>)
            q == PaintedPoint(<<ivMarquee.x2, ivMarquee.y2>>)
        IN  PaintedMarquee = [x |-> Min({p[1], q[1]}), y |-> Min({p[2], q[2]}),
                              x2 |-> Max({p[1], q[1]}), y2 |-> Max({p[2], q[2]})]

\* While nothing has moved under the pointer, the rectangle painted is the
\* part of the picture the pointer went over.
MarqueeUnderThePointer ==
    ivDrag.drawn =>
        LET Edge(i, v) == Clamped(v, Offset[i], Offset[i] + scaled_size[i])
            Low(i) == Edge(i, ivDrag.from[i] + Min({ivDrag.by[i], 0}))
            High(i) == Edge(i, ivDrag.from[i] + Max({ivDrag.by[i], 0}))
        IN  PaintedMarquee = [x |-> Low(1), y |-> Low(2), x2 |-> High(1), y2 |-> High(2)]

\* What is copied are pixels of the picture, those marked, give or take the
\* one pixel an edge is rounded by.
CopiesWhatIsMarked ==
    ivClip.cut # NoRect =>
        LET near(c, m) == c * IvGrains - m <= IvGrains /\ m - c * IvGrains <= IvGrains
            c == ivClip.cut
        IN  /\ 0 <= c.x /\ c.x < c.x2 /\ c.x2 <= ivPic[1]
            /\ 0 <= c.y /\ c.y < c.y2 /\ c.y2 <= ivPic[2]
            /\ near(c.x, ivClip.of.x) /\ near(c.x2, ivClip.of.x2)
            /\ near(c.y, ivClip.of.y) /\ near(c.y2, ivClip.of.y2)

\* A lone zoom whose re-alignment runs after the layout leaves in the middle
\* what was there, unless the picture ends first.
LoneZoomAnchored ==
    (ivAnchor.kept /\ ivIdle = <<>>) =>
        \/ InTheMiddle = ivAnchor.doc
        \/ ivScroll = 0 /\ InTheMiddle > ivAnchor.doc
        \/ ivScroll = ScrollEnd /\ InTheMiddle < ivAnchor.doc

\* The image canvas marks, copies and zooms what the user sees.
CanvasSound ==
    MarqueeOnItsPixels /\ MarqueeUnderThePointer /\ CopiesWhatIsMarked /\ LoneZoomAnchored

\* Refuted: lib.rs:679-683 anchors every zoom "once the new natural size has
\* been measured"; the idle callback may run before the layout, and a second
\* zoom before it reads an adjustment that is still that of the first.
ZoomAnchored ==
    (ivIdle = <<>> /\ LaidOut /\ Offset[1] = 0 /\ ivAnchor # NoAnchor) =>
        InTheMiddle = ivAnchor.doc \/ ivScroll \in {0, ScrollEnd}
==============================================================================
