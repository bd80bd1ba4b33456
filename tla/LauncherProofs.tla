---------------------------- MODULE LauncherProofs ----------------------------
(***************************************************************************)
(* Theorems about the launcher window, for any queries, any bound on the   *)
(* epochs and any mix of keys, commands, timers and replies.               *)
(*                                                                         *)
(* Its methods fall apart into those about the query (what is typed,       *)
(* asked, drawn, kept for the next show) and those about the preview,      *)
(* which touch no field of each other, so the invariant is two: LwQuery    *)
(* and LwPreview.  LwQuery says of every search and buffered chunk of the  *)
(* current epoch that it is for the text in the entry, which is why        *)
(* whatever arrives may be drawn.                                          *)
(*                                                                         *)
(* Theorems about its rows follow, for any hits, answers and number of     *)
(* rows.  The parts move one at a time, so the invariant is one for each:  *)
(* the registry is the inverse of the documents of the rows (RwSlotInv),   *)
(* which answer for cached hits until those are dropped (RwListInv,        *)
(* RwDressedInv); an icon is decoded from the time it leaves the queue and *)
(* its slot is then filled for good (RwIconInv); a timer of the present    *)
(* epoch is the toast's (RwBarInv); and a child is tracked until it is     *)
(* reaped (RwKidsInv).                                                     *)
(***************************************************************************)
EXTENDS LauncherWindow, ResultRows, WellFoundedInduction, SequenceTheorems, FiniteSetTheorems, TLAPS

LwText == LwTexts \cup {NoText}
LwSearch == [e : Nat, q : LwText, st : {"initial", "final"}]
LwRows == [kind : {"none", "search", "web", "recent", "history"}, q : LwText]
LwSnapshot == [q : LwText, rows : LwRows, old : BOOLEAN]
LwStatus == {"hidden", "hints", "loading", "searching", "empty", "indexing",
             "unresponsive", "message"}

LwShape == [vis : BOOLEAN, fades : Nat, text : LwText, lastq : LwText,
          epoch : Nat, deb : LwText, load : BOOLEAN, rows : LwRows,
          snap : LwSnapshot, asked : SUBSET LwSearch, pend : LwText, lastE : Nat, itimer : Nat,
          recents : SUBSET Nat, hist : BOOLEAN, zero : Nat, status : LwStatus,
          histMode : BOOLEAN, chip : 0..1, focus : {"entry", "list"}, pv : BOOLEAN,
          pdeb : BOOLEAN, slid : BOOLEAN, shown : BOOLEAN, exitDue : BOOLEAN,
          cut : BOOLEAN, over : BOOLEAN, left : BOOLEAN]

\* What survives the end of an epoch: a search is never of a later epoch than the
\* session, and one of this epoch, like a buffered chunk of it, is for the text
\* in the entry, unless a session was restored over that text.
LwKept(s) ==
    /\ s.over => s.text # NoText
    /\ s.text = NoText => s.deb = NoText /\ ~ s.load
    /\ s.snap = NoSnapshot \/ s.snap.q # NoText
    /\ s.snap.rows = NoRows \/ s.snap.rows.q = s.snap.q \/ s.snap.old
    /\ \A m \in s.asked : m.e <= s.epoch /\ (m.e = s.epoch => m.q = s.text \/ s.over)
    /\ s.pend # NoText /\ s.lastE = s.epoch => s.pend = s.text \/ s.over
    /\ s.itimer <= s.lastE /\ s.lastE <= s.epoch

\* The session searches for its text, or was told that it does not; so do the
\* spinner and its timer.
LwQuery(s) ==
    /\ LwKept(s)
    /\ s.deb # NoText => s.deb = s.text \/ s.over
    /\ s.lastq = s.text \/ s.deb # NoText \/ s.cut \/ s.over
    /\ s.load => SearchUnderWay(s) \/ s.cut
    /\ s.rows = NoRows \/ s.rows.q = s.text \/ SearchUnderWay(s) \/ s.cut \/ s.over
    /\ s.status = "loading" => SearchUnderWay(s) \/ s.cut

LwPreview(s) == (s.slid => s.pv) /\ (s.shown => s.pv \/ s.left)

LwSameQuery(s, t) ==
    /\ t.text = s.text /\ t.lastq = s.lastq /\ t.epoch = s.epoch /\ t.deb = s.deb
    /\ t.load = s.load /\ t.rows = s.rows /\ t.snap = s.snap /\ t.asked = s.asked
    /\ t.pend = s.pend /\ t.lastE = s.lastE /\ t.itimer = s.itimer /\ t.status = s.status
    /\ t.cut = s.cut /\ t.over = s.over

LwSamePreview(s, t) ==
    t.pv = s.pv /\ t.slid = s.slid /\ t.shown = s.shown /\ t.left = s.left

LEMMA LwRowsOf ==
    /\ NoRows \in LwRows /\ NoRows.q = NoText /\ NoSnapshot \in LwSnapshot
    /\ NoSnapshot.rows = NoRows /\ NoSnapshot.q = NoText
  BY DEF NoRows, LwRows, LwText, NoSnapshot, LwSnapshot

\* Changes of several fields, by their types.
LEMMA LwTextChange ==
    ASSUME NEW s \in LwShape, NEW x \in LwText, NEW e \in Nat, NEW b \in BOOLEAN,
           NEW k \in BOOLEAN, NEW o \in BOOLEAN
    PROVE  [s EXCEPT !.text = x, !.histMode = b, !.epoch = e, !.deb = x, !.cut = k, !.over = o] \in LwShape
  <1> DEFINE t == [s EXCEPT !.text = x, !.histMode = b, !.epoch = e, !.deb = x]
  <1>1. t \in LwShape
    BY DEF LwShape
  <1>2. [t EXCEPT !.cut = k, !.over = o] \in LwShape
    <2> HIDE DEF t
    <2> QED BY <1>1 DEF LwShape
  <1>3. [s EXCEPT !.text = x, !.histMode = b, !.epoch = e, !.deb = x, !.cut = k, !.over = o]
          = [t EXCEPT !.cut = k, !.over = o]
    BY DEF LwShape
  <1> QED BY <1>2, <1>3

LEMMA LwPutAside ==
    ASSUME NEW s \in LwShape, NEW x \in LwText, NEW e \in Nat, NEW k \in BOOLEAN, NEW n \in LwSnapshot
    PROVE  [s EXCEPT !.epoch = e, !.deb = x, !.cut = k, !.snap = n] \in LwShape
  BY DEF LwShape

LEMMA LwRestored ==
    ASSUME NEW s \in LwShape, NEW x \in LwText, NEW r \in LwRows, NEW b \in BOOLEAN,
           NEW k \in BOOLEAN, NEW o \in BOOLEAN
    PROVE  [s EXCEPT !.text = x, !.lastq = x, !.rows = r, !.histMode = b, !.cut = k, !.over = o] \in LwShape
  <1> DEFINE t == [s EXCEPT !.text = x, !.lastq = x, !.rows = r, !.histMode = b]
  <1>1. t \in LwShape
    BY DEF LwShape
  <1>2. [t EXCEPT !.cut = k, !.over = o] \in LwShape
    <2> HIDE DEF t
    <2> QED BY <1>1 DEF LwShape
  <1>3. [s EXCEPT !.text = x, !.lastq = x, !.rows = r, !.histMode = b, !.cut = k, !.over = o]
          = [t EXCEPT !.cut = k, !.over = o]
    BY DEF LwShape
  <1> QED BY <1>2, <1>3

LEMMA LwBlank ==
    ASSUME NEW s \in LwShape, NEW x \in LwText
    PROVE  [s EXCEPT !.chip = 0, !.lastq = x] \in LwShape
  <1>1. \A n \in 0..1 : [s EXCEPT !.chip = n, !.lastq = x] \in LwShape
    BY DEF LwShape
  <1>2. 0 \in 0..1
    OBVIOUS
  <1> QED BY <1>1, <1>2

\* What the query is does not depend on the other fields.
LEMMA LwQueryKept ==
    ASSUME NEW s, NEW t, LwSameQuery(s, t)
    PROVE  (LwQuery(s) => LwQuery(t)) /\ (LwKept(s) => LwKept(t))
  BY DEF LwSameQuery, LwQuery, LwKept, SearchUnderWay

LEMMA LwPreviewKept ==
    ASSUME NEW s, NEW t, LwSamePreview(s, t), LwPreview(s)
    PROVE  LwPreview(t)
  BY DEF LwSamePreview, LwPreview

--------------------------------------------------------------------------------
(* The methods.                                                             *)

\* The methods about the preview, the focus and the fade.
LEMMA LwSideMethods ==
    ASSUME NEW s \in LwShape
    PROVE  /\ \A f \in BOOLEAN : LET t == set_preview_mode_active(s, TRUE, f) IN
                 t \in LwShape /\ LwSameQuery(s, t) /\ t.pv /\ t.fades = s.fades
           /\ LET t == set_preview_mode_active(s, FALSE, FALSE) IN
                 /\ t \in LwShape /\ LwSameQuery(s, t) /\ ~ t.pv /\ ~ t.slid /\ t.fades = s.fades
                 /\ t.shown = s.shown /\ t.left = s.left
           /\ LET t == TakeFocus(s) IN
                 t \in LwShape /\ LwSameQuery(s, t) /\ LwSamePreview(s, t) /\ t.fades = s.fades
           /\ LET t == cancel_preview_debounce(s) IN
                 t \in LwShape /\ LwSameQuery(s, t) /\ LwSamePreview(s, t) /\ t.fades = s.fades
           /\ LET t == Select(s) IN
                 t \in LwShape /\ LwSameQuery(s, t) /\ LwSamePreview(s, t) /\ t.fades = s.fades
           /\ LET t == animate_hide(s) IN
                 t \in LwShape /\ LwSameQuery(s, t) /\ LwSamePreview(s, t) /\ t.fades \in {s.fades, s.fades + 1}
  <1>1. ASSUME NEW f \in BOOLEAN
        PROVE LET t == set_preview_mode_active(s, TRUE, f) IN
                 t \in LwShape /\ LwSameQuery(s, t) /\ t.pv /\ t.fades = s.fades
    BY DEF set_preview_mode_active, LwShape, LwSameQuery
  <1>2. LET t == set_preview_mode_active(s, FALSE, FALSE) IN
                 /\ t \in LwShape /\ LwSameQuery(s, t) /\ ~ t.pv /\ ~ t.slid /\ t.fades = s.fades
                 /\ t.shown = s.shown /\ t.left = s.left
    BY DEF set_preview_mode_active, cancel_preview_debounce, LwShape, LwSameQuery
  <1>3. LET t == TakeFocus(s) IN
                 t \in LwShape /\ LwSameQuery(s, t) /\ LwSamePreview(s, t) /\ t.fades = s.fades
    BY DEF TakeFocus, LwShape, LwSameQuery, LwSamePreview
  <1>4. LET t == cancel_preview_debounce(s) IN
                 t \in LwShape /\ LwSameQuery(s, t) /\ LwSamePreview(s, t) /\ t.fades = s.fades
    BY DEF cancel_preview_debounce, LwShape, LwSameQuery, LwSamePreview
  <1>5. LET t == Select(s) IN
                 t \in LwShape /\ LwSameQuery(s, t) /\ LwSamePreview(s, t) /\ t.fades = s.fades
    BY DEF Select, LwShape, LwSameQuery, LwSamePreview
  <1>6. LET t == animate_hide(s) IN
                 t \in LwShape /\ LwSameQuery(s, t) /\ LwSamePreview(s, t) /\ t.fades \in {s.fades, s.fades + 1}
    <2>1. CASE LwAnimated
      <3>1. animate_hide(s) = [s EXCEPT !.fades = @ + 1]
        BY <2>1 DEF animate_hide
      <3> QED BY <3>1 DEF LwShape, LwSameQuery, LwSamePreview
    <2>2. CASE ~ LwAnimated
      <3> DEFINE t == [s EXCEPT !.vis = FALSE]
      <3>1. animate_hide(s) = t
        BY <2>2 DEF animate_hide
      <3>2. t \in LwShape
        BY DEF LwShape
      <3>3. LwSameQuery(s, t)
        BY DEF LwShape, LwSameQuery
      <3>4. LwSamePreview(s, t) /\ t.fades = s.fades
        BY DEF LwShape, LwSamePreview
      <3> QED BY <3>1, <3>2, <3>3, <3>4
    <2> QED BY <2>1, <2>2
  <1> QED BY <1>1, <1>2, <1>3, <1>4, <1>5, <1>6

\* The fetch of the recent hits.
LEMMA LwRecents ==
    ASSUME NEW s \in LwShape
    PROVE  LET t == maybe_show_recents(s) IN
           t \in LwShape /\ LwSameQuery(s, t) /\ LwSamePreview(s, t) /\ t.fades = s.fades
  <1>1. CASE s.text = NoText
    <2>1. maybe_show_recents(s) = [s EXCEPT !.recents = @ \cup {s.epoch}]
      BY <1>1 DEF maybe_show_recents
    <2>2. s.recents \cup {s.epoch} \in SUBSET Nat
      BY DEF LwShape
    <2> QED BY <2>1, <2>2 DEF LwShape, LwSameQuery, LwSamePreview
  <1>2. CASE s.text # NoText
    BY <1>2 DEF maybe_show_recents, LwSameQuery, LwSamePreview
  <1> QED BY <1>1, <1>2

\* A cleared list.
LEMMA LwClearRows ==
    ASSUME NEW s \in LwShape
    PROVE  LET t == ClearRows(s) IN
           /\ t \in LwShape /\ LwSamePreview(s, t) /\ t.rows = NoRows /\ t.status = "hidden"
           /\ t.text = s.text /\ t.lastq = s.lastq /\ t.epoch = s.epoch /\ t.deb = s.deb
           /\ t.load = s.load /\ t.snap = s.snap /\ t.asked = s.asked /\ t.pend = s.pend
           /\ t.lastE = s.lastE /\ t.itimer = s.itimer /\ t.cut = s.cut /\ t.over = s.over
           /\ t.fades = s.fades
  BY LwRowsOf DEF ClearRows, LwShape, LwStatus, LwSamePreview

\* A change of the text starts a new epoch.
LEMMA LwEntryChanged ==
    ASSUME NEW s \in LwShape, LwKept(s), NEW x \in LwText
    PROVE  LET t == EntryChanged(s, x) IN
           /\ t \in LwShape /\ LwQuery(t) /\ LwSamePreview(s, t)
           /\ t.epoch = s.epoch + 1 /\ t.fades = s.fades /\ t.text = x /\ t.snap = s.snap
  <1> DEFINE c == [s EXCEPT !.text = x, !.histMode = FALSE, !.epoch = @ + 1, !.deb = x,
                            !.cut = FALSE, !.over = FALSE]
             d == ClearRows([c EXCEPT !.load = FALSE, !.lastq = NoText])
             r == maybe_show_recents(d)
  <1>1. c \in LwShape /\ LwSamePreview(s, c) /\ c.text = x /\ c.epoch = s.epoch + 1 /\ c.deb = x /\ c.fades = s.fades
        /\ ~ c.cut /\ ~ c.over /\ c.asked = s.asked /\ c.pend = s.pend /\ c.lastE = s.lastE /\ c.itimer = s.itimer
        /\ c.snap = s.snap /\ c.load = s.load
    <2>1. c \in LwShape
      <3>1. s.epoch + 1 \in Nat /\ FALSE \in BOOLEAN
        BY DEF LwShape
      <3> QED BY <3>1, LwTextChange
    <2>2. LwSamePreview(s, c) /\ ~ c.cut /\ ~ c.over
      BY DEF LwShape, LwSamePreview
    <2>3. c.text = x /\ c.epoch = s.epoch + 1 /\ c.deb = x /\ c.fades = s.fades /\ c.asked = s.asked
          /\ c.pend = s.pend /\ c.lastE = s.lastE /\ c.itimer = s.itimer /\ c.snap = s.snap /\ c.load = s.load
      BY DEF LwShape
    <2> QED BY <2>1, <2>2, <2>3
  <1>2. \A m \in s.asked : m.e \in Nat
    BY DEF LwShape, LwSearch
  <1>3. s.epoch \in Nat /\ s.lastE \in Nat
    BY DEF LwShape
  <1> HIDE DEF c
  <1>4. CASE x # NoText
    <2>1. EntryChanged(s, x) = c
      BY <1>4 DEF EntryChanged, c
    <2>2. LwKept(c)
      <3>1. c.over => c.text # NoText
        BY <1>1
      <3>2. c.text = NoText => c.deb = NoText /\ ~ c.load
        BY <1>1, <1>4
      <3>3. /\ c.snap = NoSnapshot \/ c.snap.q # NoText
            /\ c.snap.rows = NoRows \/ c.snap.rows.q = c.snap.q \/ c.snap.old
        BY <1>1 DEF LwKept
      <3>4. \A m \in c.asked : m.e <= c.epoch /\ (m.e = c.epoch => m.q = c.text \/ c.over)
        BY <1>1, <1>2, <1>3 DEF LwKept
      <3>5. c.lastE # c.epoch /\ c.itimer <= c.lastE /\ c.lastE <= c.epoch
        BY <1>1, <1>3 DEF LwKept
      <3> QED BY <3>1, <3>2, <3>3, <3>4, <3>5 DEF LwKept
    <2>3. LwQuery(c)
      BY <1>1, <1>4, <2>2 DEF LwQuery, SearchUnderWay
    <2> QED BY <1>1, <2>1, <2>3
  <1>5. CASE x = NoText
    <2>1. EntryChanged(s, x) = r
      BY <1>5 DEF EntryChanged, c
    <2>2. d \in LwShape /\ LwSamePreview(c, d) /\ d.text = x /\ d.epoch = c.epoch /\ d.deb = x /\ d.fades = c.fades
          /\ ~ d.cut /\ ~ d.over /\ d.asked = c.asked /\ d.pend = c.pend /\ d.lastE = c.lastE /\ d.itimer = c.itimer
          /\ d.snap = c.snap /\ ~ d.load /\ d.lastq = NoText /\ d.rows = NoRows /\ d.status = "hidden"
      <3> DEFINE y == [c EXCEPT !.load = FALSE, !.lastq = NoText]
      <3>1. y \in LwShape /\ LwSamePreview(c, y) /\ y.text = x /\ y.epoch = c.epoch /\ y.deb = x /\ y.fades = c.fades
          /\ y.cut = c.cut /\ y.over = c.over /\ y.asked = c.asked /\ y.pend = c.pend /\ y.lastE = c.lastE /\ y.itimer = c.itimer
          /\ y.snap = c.snap /\ y.load = FALSE /\ y.lastq = NoText
        BY <1>1 DEF LwShape, LwText, LwSamePreview
      <3> HIDE DEF y
      <3>2. d = ClearRows(y)
        BY DEF y
      <3> HIDE DEF d
      <3> QED BY <1>1, <3>1, <3>2, LwClearRows DEF LwSamePreview
    <2> HIDE DEF d
    <2>3. LwKept(d)
      BY <1>1, <1>2, <1>3, <1>5, <2>2 DEF LwKept
    <2>4. LwQuery(d)
      BY <1>5, <2>2, <2>3 DEF LwQuery
    <2>5. r \in LwShape /\ LwSameQuery(d, r) /\ LwSamePreview(d, r) /\ r.fades = d.fades
      BY <2>2, LwRecents
    <2> HIDE DEF r
    <2>6. LwQuery(r)
      BY <2>4, <2>5, LwQueryKept
    <2>7. r.epoch = s.epoch + 1 /\ r.text = x /\ r.snap = s.snap
      BY <1>1, <2>2, <2>5 DEF LwSameQuery
    <2>8. LwSamePreview(s, r)
      BY <1>1, <2>2, <2>5 DEF LwSamePreview
    <2> QED BY <1>1, <2>1, <2>2, <2>5, <2>6, <2>7, <2>8
  <1> QED BY <1>4, <1>5

LEMMA LwSetText ==
    ASSUME NEW s \in LwShape, LwQuery(s), NEW x \in LwText
    PROVE  LET t == set_text(s, x) IN
           /\ t \in LwShape /\ LwQuery(t) /\ LwSamePreview(s, t)
           /\ t.epoch \in {s.epoch, s.epoch + 1} /\ t.fades = s.fades
  <1>1. CASE x = s.text
    BY <1>1 DEF set_text, LwSamePreview
  <1>2. CASE x # s.text
    BY <1>2, LwEntryChanged DEF set_text, LwQuery
  <1> QED BY <1>1, <1>2

\* The launcher is blank again.
LEMMA LwScrub ==
    ASSUME NEW s \in LwShape, LwKept(s)
    PROVE  LET t == scrub_ui(s) IN
           /\ t \in LwShape /\ LwQuery(t) /\ LwSamePreview(s, t)
           /\ t.epoch \in {s.epoch, s.epoch + 1} /\ t.fades = s.fades
  <1> DEFINE x == [s EXCEPT !.snap = NoSnapshot, !.histMode = FALSE, !.deb = NoText]
             c == set_text(x, NoText)
             t == ClearRows([c EXCEPT !.chip = 0, !.lastq = NoText])
  <1>1. x \in LwShape /\ LwSamePreview(s, x) /\ x.snap = NoSnapshot /\ x.deb = NoText /\ x.text = s.text /\ x.epoch = s.epoch
        /\ x.over = s.over /\ x.load = s.load /\ x.asked = s.asked /\ x.pend = s.pend /\ x.lastE = s.lastE
        /\ x.itimer = s.itimer /\ x.fades = s.fades
    BY LwRowsOf DEF LwShape, LwText, LwSamePreview
  <1> HIDE DEF x
  <1>2. LwKept(x)
    BY <1>1, LwRowsOf DEF LwKept
  <1>3. /\ c \in LwShape /\ LwKept(c) /\ LwSamePreview(x, c) /\ c.text = NoText /\ c.fades = x.fades
        /\ c.epoch \in {x.epoch, x.epoch + 1}
    <2>1. NoText \in LwText
      BY DEF LwText
    <2>2. CASE x.text = NoText
      BY <1>1, <1>2, <2>2 DEF set_text, LwSamePreview
    <2>3. CASE x.text # NoText
      BY <1>1, <1>2, <2>1, <2>3, LwEntryChanged DEF set_text, LwQuery
    <2> QED BY <2>2, <2>3
  <1> HIDE DEF c
  <1>4. t \in LwShape /\ LwSamePreview(c, t) /\ t.text = NoText /\ t.lastq = NoText /\ t.rows = NoRows /\ t.status = "hidden"
        /\ t.epoch = c.epoch /\ t.deb = c.deb /\ t.over = c.over /\ t.load = c.load /\ t.snap = c.snap
        /\ t.asked = c.asked /\ t.pend = c.pend /\ t.lastE = c.lastE /\ t.itimer = c.itimer /\ t.fades = c.fades
    <2> DEFINE y == [c EXCEPT !.chip = 0, !.lastq = NoText]
    <2>1. y \in LwShape /\ LwSamePreview(c, y) /\ y.text = NoText /\ y.lastq = NoText /\ y.epoch = c.epoch /\ y.deb = c.deb
          /\ y.over = c.over /\ y.load = c.load /\ y.snap = c.snap /\ y.asked = c.asked /\ y.pend = c.pend
          /\ y.lastE = c.lastE /\ y.itimer = c.itimer /\ y.fades = c.fades
      <3>1. y \in LwShape
        BY <1>3, LwBlank DEF LwText
      <3>2. LwSamePreview(c, y)
        BY <1>3 DEF LwShape, LwSamePreview
      <3>3. y.text = c.text /\ y.lastq = NoText /\ y.epoch = c.epoch /\ y.deb = c.deb
          /\ y.over = c.over /\ y.load = c.load /\ y.snap = c.snap /\ y.asked = c.asked /\ y.pend = c.pend
          /\ y.lastE = c.lastE /\ y.itimer = c.itimer /\ y.fades = c.fades
        BY <1>3 DEF LwShape
      <3> QED BY <1>3, <3>1, <3>2, <3>3
    <2> HIDE DEF y
    <2>2. t = ClearRows(y)
      BY DEF y
    <2> HIDE DEF t
    <2> QED BY <2>1, <2>2, LwClearRows DEF LwSamePreview
  <1>5. t = scrub_ui(s)
    BY DEF scrub_ui, c, x
  <1> HIDE DEF t
  <1>6. LwKept(t) /\ t.deb = NoText /\ ~ t.load
    BY <1>3, <1>4 DEF LwKept
  <1>7. LwQuery(t)
    BY <1>4, <1>6 DEF LwQuery
  <1>8. LwSamePreview(s, t)
    BY <1>1, <1>3, <1>4 DEF LwSamePreview
  <1> QED BY <1>1, <1>3, <1>4, <1>5, <1>7, <1>8

LEMMA LwClear ==
    ASSUME NEW s \in LwShape, LwQuery(s)
    PROVE  LET t == clear_session(s) IN
           /\ t \in LwShape /\ LwQuery(t) /\ LwSamePreview(s, t)
           /\ t.epoch \in {s.epoch + 1, s.epoch + 2} /\ t.fades = s.fades
  <1> DEFINE x == [s EXCEPT !.epoch = @ + 1]
  <1>1. x \in LwShape /\ LwSamePreview(s, x) /\ x.snap = s.snap /\ x.deb = s.deb /\ x.text = s.text /\ x.epoch = s.epoch + 1
        /\ x.over = s.over /\ x.load = s.load /\ x.asked = s.asked /\ x.pend = s.pend /\ x.lastE = s.lastE
        /\ x.itimer = s.itimer /\ x.fades = s.fades
    BY DEF LwShape, LwSamePreview
  <1>2. s.epoch \in Nat /\ s.lastE \in Nat /\ \A m \in s.asked : m.e \in Nat
    BY DEF LwShape, LwSearch
  <1> HIDE DEF x
  <1>3. LwKept(x)
    BY <1>1, <1>2 DEF LwKept, LwQuery
  <1>4. clear_session(s) = scrub_ui(x)
    BY DEF clear_session, x
  <1> DEFINE t == scrub_ui(x)
  <1>5. t \in LwShape /\ LwQuery(t) /\ LwSamePreview(x, t) /\ t.epoch \in {x.epoch, x.epoch + 1} /\ t.fades = x.fades
    BY <1>1, <1>3, LwScrub
  <1> HIDE DEF t
  <1>6. LwSamePreview(s, t)
    BY <1>1, <1>5 DEF LwSamePreview
  <1>7. t.epoch \in {s.epoch + 1, s.epoch + 2}
    BY <1>1, <1>2, <1>5
  <1> QED BY <1>1, <1>4, <1>5, <1>6, <1>7 DEF t

\* The session is put aside: its search is over, and its snapshot says so.
LEMMA LwPersist ==
    ASSUME NEW s \in LwShape, LwQuery(s)
    PROVE  LET t == persist_session(s) IN
           /\ t \in LwShape /\ LwQuery(t) /\ LwSamePreview(s, t)
           /\ t.epoch = s.epoch + 1 /\ t.fades = s.fades
  <1> DEFINE k == s.cut \/ SearchUnderWay(s) \/ s.load
             n == IF s.text = NoText THEN NoSnapshot
                  ELSE [q |-> s.text, rows |-> s.rows, old |-> k \/ s.over]
             t == [s EXCEPT !.epoch = @ + 1, !.deb = NoText, !.cut = k, !.snap = n]
  <1>1. t = persist_session(s)
    BY DEF persist_session
  <1>2. s.text \in LwText /\ s.rows \in LwRows /\ s.epoch \in Nat /\ s.lastE \in Nat /\ s.cut \in BOOLEAN
        /\ s.load \in BOOLEAN /\ s.over \in BOOLEAN /\ \A m \in s.asked : m.e \in Nat
    BY DEF LwShape, LwSearch
  <1>3. k \in BOOLEAN
    BY <1>2, Zenon DEF SearchUnderWay
  <1>4. k <=> (s.cut \/ SearchUnderWay(s) \/ s.load)
    OBVIOUS
  <1> HIDE DEF k
  <1>5. n \in LwSnapshot
    <2>1. (k \/ s.over) \in BOOLEAN
      BY <1>2, <1>3, Zenon
    <2> DEFINE o == k \/ s.over
    <2> HIDE DEF o
    <2>2. [q |-> s.text, rows |-> s.rows, old |-> o] \in LwSnapshot
      BY <1>2, <2>1 DEF LwSnapshot, o
    <2> QED BY <2>2, LwRowsOf DEF o
  <1>6. /\ n = NoSnapshot \/ n.q # NoText
        /\ n.rows = NoRows \/ n.rows.q = n.q \/ n.old
    <2>1. CASE s.text = NoText
      BY <2>1, LwRowsOf
    <2>2. CASE s.text # NoText
      <3> DEFINE o == k \/ s.over
      <3>1. s.rows = NoRows \/ s.rows.q = s.text \/ o
        BY <1>4 DEF LwQuery
      <3> HIDE DEF o
      <3>2. n = [q |-> s.text, rows |-> s.rows, old |-> o]
        BY <2>2 DEF o
      <3> HIDE DEF n
      <3> QED BY <2>2, <3>1, <3>2
    <2> QED BY <2>1, <2>2
  <1> HIDE DEF n
  <1>7. t \in LwShape /\ LwSamePreview(s, t) /\ t.snap = n /\ t.deb = NoText /\ t.text = s.text /\ t.epoch = s.epoch + 1
        /\ t.over = s.over /\ t.load = s.load /\ t.asked = s.asked /\ t.pend = s.pend /\ t.lastE = s.lastE
        /\ t.itimer = s.itimer /\ t.fades = s.fades /\ t.cut = k /\ t.rows = s.rows /\ t.status = s.status /\ t.lastq = s.lastq
    <2>1. t \in LwShape
      <3>1. s.epoch + 1 \in Nat /\ NoText \in LwText
        BY <1>2 DEF LwText
      <3> QED BY <1>3, <1>5, <3>1, LwPutAside
    <2>2. LwSamePreview(s, t)
      BY DEF LwShape, LwSamePreview
    <2>3. t.snap = n /\ t.deb = NoText /\ t.text = s.text /\ t.epoch = s.epoch + 1
        /\ t.over = s.over /\ t.load = s.load /\ t.asked = s.asked /\ t.pend = s.pend /\ t.lastE = s.lastE
        /\ t.itimer = s.itimer /\ t.fades = s.fades
      BY DEF LwShape
    <2>4. t.cut = k /\ t.rows = s.rows /\ t.status = s.status /\ t.lastq = s.lastq
      BY DEF LwShape
    <2> QED BY <2>1, <2>2, <2>3, <2>4
  <1> HIDE DEF t
  <1>8. LwKept(t)
    BY <1>2, <1>6, <1>7 DEF LwKept, LwQuery
  <1>9. LwQuery(t)
    <2>1. t.lastq = t.text \/ t.deb # NoText \/ t.cut \/ t.over
      BY <1>4, <1>7 DEF LwQuery, SearchUnderWay
    <2>2. (t.load => t.cut) /\ (t.status = "loading" => t.cut)
      BY <1>4, <1>7 DEF LwQuery
    <2>3. t.rows = NoRows \/ t.rows.q = t.text \/ t.cut \/ t.over
      BY <1>4, <1>7 DEF LwQuery
    <2> QED BY <1>7, <1>8, <2>1, <2>2, <2>3 DEF LwQuery
  <1> QED BY <1>1, <1>7, <1>9

\* The session comes back.
LEMMA LwShow ==
    ASSUME NEW s \in LwShape, LwQuery(s)
    PROVE  LET t == show(s) IN
           /\ t \in LwShape /\ LwQuery(t) /\ LwSamePreview(s, t)
           /\ t.epoch = s.epoch /\ t.fades = s.fades
  <1>1. CASE s.vis
    BY <1>1 DEF show, LwSamePreview
  <1>2. CASE ~ s.vis
    <2> DEFINE live == s.rows # NoRows /\ s.text = s.snap.q
               r == IF s.snap = NoSnapshot \/ live THEN s ELSE restore_session(s)
               t == [r EXCEPT !.snap = NoSnapshot]
               u == IF t.rows = NoRows THEN maybe_show_recents(t) ELSE t
               w == [u EXCEPT !.vis = TRUE]
    <2>1. show(s) = TakeFocus(w)
      BY <1>2 DEF show
    <2>2. r \in LwShape /\ LwQuery(r) /\ LwSamePreview(s, r) /\ r.epoch = s.epoch /\ r.fades = s.fades
      <3>1. CASE s.snap = NoSnapshot \/ live
        BY <3>1 DEF LwSamePreview
      <3>2. CASE ~ (s.snap = NoSnapshot \/ live)
        <4> DEFINE kc == s.cut \/ s.snap.old
                   ko == s.over \/ s.text # s.snap.q
                   z == [s EXCEPT !.text = s.snap.q, !.lastq = s.snap.q, !.rows = s.snap.rows,
                                  !.histMode = FALSE, !.cut = kc, !.over = ko]
        <4>1. r = z
          BY <3>2 DEF restore_session
        <4>2. s.snap \in LwSnapshot /\ s.cut \in BOOLEAN /\ s.over \in BOOLEAN
          BY DEF LwShape
        <4>3. s.snap.q \in LwText /\ s.snap.rows \in LwRows /\ s.snap.old \in BOOLEAN
          BY <4>2 DEF LwSnapshot
        <4>4. kc \in BOOLEAN /\ ko \in BOOLEAN
          BY <4>2, <4>3, Zenon
        <4>5. (kc <=> (s.cut \/ s.snap.old)) /\ (ko <=> (s.over \/ s.text # s.snap.q))
          OBVIOUS
        <4> HIDE DEF kc, ko
        <4>6. z \in LwShape /\ LwSamePreview(s, z) /\ z.snap = s.snap /\ z.deb = s.deb /\ z.text = s.snap.q /\ z.epoch = s.epoch
              /\ z.over = ko /\ z.load = s.load /\ z.asked = s.asked /\ z.pend = s.pend /\ z.lastE = s.lastE
              /\ z.itimer = s.itimer /\ z.fades = s.fades /\ z.cut = kc /\ z.rows = s.snap.rows /\ z.status = s.status
              /\ z.lastq = s.snap.q
          <5>1. z \in LwShape
            <6>1. FALSE \in BOOLEAN
              OBVIOUS
            <6> QED BY <4>3, <4>4, <6>1, LwRestored
          <5>2. LwSamePreview(s, z)
            BY DEF LwShape, LwSamePreview
          <5>3. z.snap = s.snap /\ z.deb = s.deb /\ z.text = s.snap.q /\ z.epoch = s.epoch
              /\ z.load = s.load /\ z.asked = s.asked /\ z.pend = s.pend /\ z.lastE = s.lastE
              /\ z.itimer = s.itimer /\ z.fades = s.fades
            BY DEF LwShape
          <5>4. z.over = ko /\ z.cut = kc /\ z.rows = s.snap.rows /\ z.status = s.status /\ z.lastq = s.snap.q
            BY DEF LwShape
          <5> QED BY <5>1, <5>2, <5>3, <5>4
        <4> HIDE DEF z
        <4>7. s.snap.q # NoText
          BY <3>2 DEF LwQuery, LwKept
        <4>8. LwKept(z)
          BY <4>5, <4>6, <4>7 DEF LwKept, LwQuery
        <4>9. LwQuery(z)
          <5>1. (s.load => SearchUnderWay(s) \/ s.cut) /\ (s.status = "loading" => SearchUnderWay(s) \/ s.cut)
            BY DEF LwQuery
          <5>2. SearchUnderWay(s) => SearchUnderWay(z)
            BY <4>6 DEF SearchUnderWay
          <5>3. z.rows = NoRows \/ z.rows.q = z.text \/ z.cut
            BY <4>5, <4>6 DEF LwQuery, LwKept
          <5>4. z.deb # NoText => z.deb = z.text \/ z.over
            BY <4>5, <4>6 DEF LwQuery
          <5> QED BY <4>5, <4>6, <4>8, <5>1, <5>2, <5>3, <5>4 DEF LwQuery
        <4> QED BY <4>1, <4>6, <4>9
      <3> QED BY <3>1, <3>2
    <2> HIDE DEF r
    <2>3. t \in LwShape /\ LwSamePreview(r, t) /\ t.snap = NoSnapshot /\ t.deb = r.deb /\ t.text = r.text /\ t.epoch = r.epoch
              /\ t.over = r.over /\ t.load = r.load /\ t.asked = r.asked /\ t.pend = r.pend /\ t.lastE = r.lastE
              /\ t.itimer = r.itimer /\ t.fades = r.fades /\ t.cut = r.cut /\ t.rows = r.rows /\ t.status = r.status
              /\ t.lastq = r.lastq
      BY <2>2, LwRowsOf DEF LwShape, LwSamePreview
    <2> HIDE DEF t
    <2>4. LwQuery(t)
      BY <2>2, <2>3, LwRowsOf DEF LwQuery, LwKept, SearchUnderWay
    <2>5. u \in LwShape /\ LwSameQuery(t, u) /\ LwSamePreview(t, u) /\ u.fades = t.fades
      BY <2>3, LwRecents DEF LwSameQuery, LwSamePreview
    <2> HIDE DEF u
    <2>6. w \in LwShape /\ LwSameQuery(u, w) /\ LwSamePreview(u, w) /\ w.fades = u.fades
      BY <2>5 DEF LwShape, LwSameQuery, LwSamePreview
    <2> HIDE DEF w
    <2> DEFINE v == TakeFocus(w)
    <2>7. v \in LwShape /\ LwSameQuery(w, v) /\ LwSamePreview(w, v) /\ v.fades = w.fades
      BY <2>6, LwSideMethods
    <2> HIDE DEF v
    <2>8. LwQuery(v)
      BY <2>4, <2>5, <2>6, <2>7, LwQueryKept
    <2>9. LwSamePreview(s, v) /\ v.epoch = s.epoch /\ v.fades = s.fades
      BY <2>2, <2>3, <2>5, <2>6, <2>7 DEF LwSamePreview, LwSameQuery
    <2> QED BY <2>1, <2>7, <2>8, <2>9 DEF v
  <1> QED BY <1>1, <1>2

--------------------------------------------------------------------------------
(* The commands.                                                            *)

LwGood(s) == s \in LwShape /\ LwQuery(s) /\ LwPreview(s)

\* How far one command or key may move the epoch and the fades.
LwNear(s, t) == t.epoch <= s.epoch + 2 /\ t.fades <= s.fades + 1

LEMMA LwKinds ==
    ASSUME NEW s \in LwShape
    PROVE  s.epoch \in Nat /\ s.fades \in Nat /\ s.lastE \in Nat /\ s.itimer \in Nat
           /\ (\A m \in s.asked : m \in LwSearch /\ m.e \in Nat)
           /\ s.text \in LwText /\ s.deb \in LwText /\ s.lastq \in LwText /\ s.pend \in LwText
  BY DEF LwShape, LwSearch

\* The parts of a step that leave the query, or the preview, alone.
LEMMA LwSameGood ==
    ASSUME NEW s, LwGood(s), NEW t \in LwShape, LwSameQuery(s, t), LwPreview(t)
    PROVE  LwGood(t) /\ t.epoch = s.epoch
  BY LwQueryKept DEF LwGood, LwSameQuery

LEMMA LwDismiss ==
    ASSUME NEW s, LwGood(s)
    PROVE  LET t == dismiss_active_preview(s) IN
           /\ LwGood(t) /\ t.epoch = s.epoch /\ t.fades = s.fades
           /\ ~ t.pv /\ (t.shown => t.left)
  <1>1. CASE s.pv
    <2> DEFINE x == set_preview_mode_active(s, FALSE, FALSE)
               t == [x EXCEPT !.shown = FALSE]
    <2>1. dismiss_active_preview(s) = t
      BY <1>1 DEF dismiss_active_preview
    <2>2. x \in LwShape /\ LwSameQuery(s, x) /\ ~ x.pv /\ ~ x.slid /\ x.fades = s.fades
      BY LwSideMethods DEF LwGood
    <2> HIDE DEF x
    <2>3. t \in LwShape /\ t.pv = x.pv /\ t.slid = x.slid /\ t.shown = FALSE /\ t.fades = x.fades
      BY <2>2 DEF LwShape
    <2>4. LwSameQuery(x, t)
      BY <2>2 DEF LwShape, LwSameQuery
    <2> HIDE DEF t
    <2>5. LwSameQuery(s, t)
      BY <2>2, <2>4 DEF LwSameQuery
    <2>6. LwPreview(t)
      BY <2>2, <2>3 DEF LwPreview
    <2> QED BY <2>1, <2>2, <2>3, <2>5, <2>6, LwSameGood
  <1>2. CASE ~ s.pv
    BY <1>2 DEF dismiss_active_preview, LwGood, LwPreview
  <1> QED BY <1>1, <1>2

\* A session put aside while the window fades.
LEMMA LwPutAway ==
    ASSUME NEW s \in LwShape, LwQuery(s)
    PROVE  LET t == soft_hide(s) IN
           /\ t \in LwShape /\ LwQuery(t) /\ LwSamePreview(s, t) /\ LwNear(s, t)
  <1> DEFINE x == persist_session(s)
             t == animate_hide(x)
  <1>1. x \in LwShape /\ LwQuery(x) /\ LwSamePreview(s, x) /\ x.epoch = s.epoch + 1 /\ x.fades = s.fades
    BY LwPersist
  <1> HIDE DEF x
  <1>2. t \in LwShape /\ LwSameQuery(x, t) /\ LwSamePreview(x, t) /\ t.fades \in {x.fades, x.fades + 1}
    BY <1>1, LwSideMethods
  <1>3. t = soft_hide(s)
    BY DEF soft_hide, x
  <1> HIDE DEF t
  <1>4. LwQuery(t)
    BY <1>1, <1>2, LwQueryKept
  <1>5. LwSamePreview(s, t)
    BY <1>1, <1>2 DEF LwSamePreview
  <1>6. LwNear(s, t)
    BY <1>1, <1>2, LwKinds DEF LwNear, LwSameQuery
  <1> QED BY <1>2, <1>3, <1>4, <1>5, <1>6

LEMMA LwHide ==
    ASSUME NEW s, LwGood(s)
    PROVE  LET t == hide(s) IN
           /\ t \in LwShape /\ LwQuery(t) /\ LwNear(s, t)
           /\ ~ t.pv /\ ~ t.slid /\ t.shown = s.shown /\ t.left = s.left
           /\ (s.shown => s.left) => LwGood(t)
  <1> DEFINE x == set_preview_mode_active(s, FALSE, FALSE)
             t == soft_hide(x)
  <1>1. /\ x \in LwShape /\ LwSameQuery(s, x) /\ ~ x.pv /\ ~ x.slid /\ x.fades = s.fades
        /\ x.shown = s.shown /\ x.left = s.left
    BY LwSideMethods DEF LwGood
  <1>2. t = hide(s)
    BY DEF hide, soft_hide
  <1> HIDE DEF x
  <1>3. LwQuery(x) /\ x.epoch = s.epoch
    BY <1>1, LwQueryKept DEF LwGood, LwSameQuery
  <1>4. t \in LwShape /\ LwQuery(t) /\ LwSamePreview(x, t) /\ LwNear(x, t)
    BY <1>1, <1>3, LwPutAway
  <1> HIDE DEF t
  <1>5. ~ t.pv /\ ~ t.slid /\ t.shown = s.shown /\ t.left = s.left
    BY <1>1, <1>4 DEF LwSamePreview
  <1>6. LwNear(s, t)
    BY <1>1, <1>3, <1>4 DEF LwNear
  <1>7. (s.shown => s.left) => LwPreview(t)
    BY <1>5 DEF LwPreview
  <1> QED BY <1>2, <1>4, <1>5, <1>6, <1>7 DEF LwGood

LEMMA LwToggle ==
    ASSUME NEW s, LwGood(s)
    PROVE  LwGood(toggle(s)) /\ LwNear(s, toggle(s))
  <1>1. CASE s.vis
    <2> DEFINE x == dismiss_active_preview(s)
    <2>1. LwGood(x) /\ x.epoch = s.epoch /\ x.fades = s.fades /\ (x.shown => x.left)
      BY LwDismiss
    <2> HIDE DEF x
    <2>2. LwGood(hide(x)) /\ LwNear(x, hide(x))
      BY <2>1, LwHide
    <2>3. toggle(s) = hide(x)
      BY <1>1 DEF toggle, x
    <2> QED BY <2>1, <2>2, <2>3 DEF LwNear
  <1>2. CASE ~ s.vis
    <2> DEFINE t == show(s)
    <2>1. t \in LwShape /\ LwQuery(t) /\ LwSamePreview(s, t) /\ t.epoch = s.epoch /\ t.fades = s.fades
      BY LwShow DEF LwGood
    <2>2. toggle(s) = t
      BY <1>2 DEF toggle
    <2> HIDE DEF t
    <2>3. LwGood(t)
      BY <2>1, LwPreviewKept DEF LwGood
    <2>4. LwNear(s, t)
      BY <2>1, LwKinds DEF LwNear, LwGood
    <2> QED BY <2>2, <2>3, <2>4
  <1> QED BY <1>1, <1>2

LEMMA LwExitPreview ==
    ASSUME NEW s, LwGood(s)
    PROVE  LET t == exit_preview_mode(s) IN
           /\ t \in LwShape /\ LwSameQuery(s, t) /\ t.fades = s.fades
           /\ ~ t.pv /\ ~ t.slid /\ t.shown = s.shown /\ t.left = s.left
  <1> DEFINE x == set_preview_mode_active(s, FALSE, FALSE)
             t == TakeFocus(x)
  <1>1. /\ x \in LwShape /\ LwSameQuery(s, x) /\ ~ x.pv /\ ~ x.slid /\ x.fades = s.fades
        /\ x.shown = s.shown /\ x.left = s.left
    BY LwSideMethods DEF LwGood
  <1>2. t = exit_preview_mode(s)
    BY DEF exit_preview_mode
  <1> HIDE DEF x
  <1>3. t \in LwShape /\ LwSameQuery(x, t) /\ LwSamePreview(x, t) /\ t.fades = x.fades
    BY <1>1, LwSideMethods
  <1> HIDE DEF t
  <1>4. LwSameQuery(s, t)
    BY <1>1, <1>3 DEF LwSameQuery
  <1> QED BY <1>1, <1>2, <1>3, <1>4 DEF LwSamePreview

LEMMA LwCommanded ==
    ASSUME LwGood(lw), NEW c \in LwCommands, Command(c)
    PROVE  LwGood(lw') /\ LwNear(lw, lw')
  <1> lw.epoch \in Nat /\ lw.fades \in Nat
    BY LwKinds DEF LwGood
  <1>1. CASE c = "show"
    <2> DEFINE t == show(lw)
    <2>1. lw' = t
      BY <1>1 DEF Command
    <2>2. t \in LwShape /\ LwQuery(t) /\ LwSamePreview(lw, t) /\ t.epoch = lw.epoch /\ t.fades = lw.fades
      BY LwShow DEF LwGood
    <2> HIDE DEF t
    <2>3. LwGood(t)
      BY <2>2, LwPreviewKept DEF LwGood
    <2> QED BY <2>1, <2>2, <2>3 DEF LwNear
  <1>2. CASE c = "hide"
    <2> DEFINE x == hide(lw)
               k == x.left \/ lw.pv
               t == [x EXCEPT !.left = k]
    <2>1. lw' = t
      BY <1>2 DEF Command
    <2>2. /\ x \in LwShape /\ LwQuery(x) /\ LwNear(lw, x)
          /\ ~ x.pv /\ ~ x.slid /\ x.shown = lw.shown /\ x.left = lw.left
      BY LwHide
    <2> HIDE DEF x
    <2>3. lw.pv \in BOOLEAN /\ x.left \in BOOLEAN
      BY <2>2 DEF LwShape, LwGood
    <2>4. k \in BOOLEAN /\ (lw.shown => k)
      BY <2>2, <2>3, Zenon DEF LwGood, LwPreview
    <2> HIDE DEF k
    <2>5. t \in LwShape /\ LwSameQuery(x, t) /\ t.fades = x.fades
      BY <2>2, <2>4 DEF LwShape, LwSameQuery
    <2>6. t.pv = x.pv /\ t.slid = x.slid /\ t.shown = x.shown /\ t.left = k
      BY <2>2, <2>4 DEF LwShape
    <2> HIDE DEF t
    <2>7. LwPreview(t)
      BY <2>2, <2>4, <2>6 DEF LwPreview
    <2>8. LwQuery(t)
      BY <2>2, <2>5, LwQueryKept
    <2> QED BY <2>1, <2>2, <2>5, <2>7, <2>8 DEF LwGood, LwNear, LwSameQuery
  <1>3. CASE c = "toggle"
    BY <1>3, LwToggle DEF Command
  <1>4. CASE c = "softhide"
    <2> DEFINE t == soft_hide(lw)
    <2>1. lw' = t
      BY <1>4 DEF Command
    <2>2. t \in LwShape /\ LwQuery(t) /\ LwSamePreview(lw, t) /\ LwNear(lw, t)
      BY LwPutAway DEF LwGood
    <2> HIDE DEF t
    <2> QED BY <2>1, <2>2, LwPreviewKept DEF LwGood
  <1>5. CASE c = "clear"
    <2> DEFINE t == scrub_ui(lw)
    <2>1. lw' = t
      BY <1>5 DEF Command
    <2>2. /\ t \in LwShape /\ LwQuery(t) /\ LwSamePreview(lw, t)
          /\ t.epoch \in {lw.epoch, lw.epoch + 1} /\ t.fades = lw.fades
      BY LwScrub DEF LwGood, LwQuery
    <2> HIDE DEF t
    <2>3. LwNear(lw, t)
      BY <2>2 DEF LwNear
    <2> QED BY <2>1, <2>2, <2>3, LwPreviewKept DEF LwGood
  <1>6. CASE c = "exitpreview"
    <2> DEFINE x == exit_preview_mode(lw)
               k == x.left \/ lw.shown
               t == [x EXCEPT !.exitDue = FALSE, !.left = k]
    <2>1. lw' = t
      BY <1>6 DEF Command
    <2>2. /\ x \in LwShape /\ LwSameQuery(lw, x) /\ x.fades = lw.fades
          /\ ~ x.pv /\ ~ x.slid /\ x.shown = lw.shown /\ x.left = lw.left
      BY LwExitPreview
    <2> HIDE DEF x
    <2>3. lw.shown \in BOOLEAN /\ x.left \in BOOLEAN
      BY <2>2 DEF LwShape, LwGood
    <2>4. k \in BOOLEAN /\ (lw.shown => k)
      BY <2>2, <2>3, Zenon
    <2> HIDE DEF k
    <2>5. t \in LwShape
      <3>1. \A j \in BOOLEAN : [x EXCEPT !.exitDue = j, !.left = k] \in LwShape
        BY <2>2, <2>4 DEF LwShape
      <3> QED BY <3>1
    <2>6. LwSameQuery(x, t) /\ t.fades = x.fades
      BY <2>2 DEF LwShape, LwSameQuery
    <2>7. t.pv = x.pv /\ t.slid = x.slid /\ t.shown = x.shown /\ t.left = k
      BY <2>2, <2>4 DEF LwShape
    <2> HIDE DEF t
    <2>8. LwPreview(t)
      BY <2>2, <2>4, <2>7 DEF LwPreview
    <2>9. LwSameQuery(lw, t)
      BY <2>2, <2>6 DEF LwSameQuery
    <2> QED BY <2>1, <2>2, <2>5, <2>6, <2>8, <2>9, LwSameGood DEF LwNear
  <1>7. CASE c = "nav"
    <2> DEFINE t == Select(lw)
    <2>1. lw' = IF lw.rows = NoRows THEN lw ELSE t
      BY <1>7 DEF Command
    <2>2. t \in LwShape /\ LwSameQuery(lw, t) /\ LwSamePreview(lw, t) /\ t.fades = lw.fades
      BY LwSideMethods DEF LwGood
    <2> HIDE DEF t
    <2>3. LwGood(t) /\ t.epoch = lw.epoch
      BY <2>2, LwPreviewKept, LwSameGood DEF LwGood
    <2> QED BY <2>1, <2>2, <2>3 DEF LwNear
  <1> QED BY <1>1, <1>2, <1>3, <1>4, <1>5, <1>6, <1>7 DEF LwCommands

--------------------------------------------------------------------------------
(* The keys.                                                                *)

\* A new text, by keys or from an action: the preview, if any, is dismissed first.
LEMMA LwTyped ==
    ASSUME NEW s, LwGood(s), NEW x \in LwText
    PROVE  LET t == TakeFocus(set_text(s, x)) IN
           LwGood(t) /\ t.epoch \in {s.epoch, s.epoch + 1} /\ t.fades = s.fades
  <1> DEFINE y == set_text(s, x)
             t == TakeFocus(y)
  <1>1. /\ y \in LwShape /\ LwQuery(y) /\ LwSamePreview(s, y)
        /\ y.epoch \in {s.epoch, s.epoch + 1} /\ y.fades = s.fades
    BY LwSetText DEF LwGood
  <1> HIDE DEF y
  <1>2. LwGood(y)
    BY <1>1, LwPreviewKept DEF LwGood
  <1>3. t \in LwShape /\ LwSameQuery(y, t) /\ LwSamePreview(y, t) /\ t.fades = y.fades
    BY <1>1, LwSideMethods
  <1> HIDE DEF t
  <1>4. LwGood(t) /\ t.epoch = y.epoch
    BY <1>2, <1>3, LwPreviewKept, LwSameGood DEF LwGood
  <1> QED BY <1>1, <1>3, <1>4 DEF t, y

LEMMA LwFocused ==
    ASSUME NEW s, LwGood(s)
    PROVE  LET t == TakeFocus(s) IN LwGood(t) /\ t.epoch = s.epoch /\ t.fades = s.fades
  <1> DEFINE t == TakeFocus(s)
  <1>1. t \in LwShape /\ LwSameQuery(s, t) /\ LwSamePreview(s, t) /\ t.fades = s.fades
    BY LwSideMethods DEF LwGood
  <1> HIDE DEF t
  <1> QED BY <1>1, LwPreviewKept, LwSameGood DEF LwGood, t

LEMMA LwQuickLook ==
    ASSUME LwGood(lw), NEW a \in BOOLEAN, NEW f \in BOOLEAN, KeyQuickLook(a, f)
    PROVE  LwGood(lw') /\ lw'.epoch = lw.epoch /\ lw'.fades = lw.fades
  <1>1. CASE ~ a /\ lw.pv
    <2> DEFINE x == dismiss_active_preview(lw)
    <2>1. LwGood(x) /\ x.epoch = lw.epoch /\ x.fades = lw.fades
      BY LwDismiss
    <2>2. lw' = TakeFocus(x)
      BY <1>1 DEF KeyQuickLook
    <2> HIDE DEF x
    <2> QED BY <2>1, <2>2, LwFocused
  <1>2. CASE ~ (~ a /\ lw.pv)
    <2> DEFINE x == set_preview_mode_active(lw, TRUE, f)
               k == x.shown \/ lw.rows # NoRows
               t == [x EXCEPT !.shown = k, !.left = FALSE]
    <2>1. lw' = TakeFocus(t)
      BY <1>2 DEF KeyQuickLook
    <2>2. x \in LwShape /\ LwSameQuery(lw, x) /\ x.pv /\ x.fades = lw.fades
      BY LwSideMethods DEF LwGood
    <2> HIDE DEF x
    <2>3. x.shown \in BOOLEAN
      BY <2>2 DEF LwShape
    <2>4. k \in BOOLEAN
      BY <2>3, Zenon
    <2> HIDE DEF k
    <2>5. t \in LwShape
      <3>1. \A j \in BOOLEAN : [x EXCEPT !.shown = k, !.left = j] \in LwShape
        BY <2>2, <2>4 DEF LwShape
      <3> QED BY <3>1
    <2>6. LwSameQuery(x, t) /\ t.fades = x.fades
      BY <2>2 DEF LwShape, LwSameQuery
    <2>7. t.pv = x.pv /\ t.slid = x.slid
      BY <2>2 DEF LwShape
    <2> HIDE DEF t
    <2>8. LwPreview(t)
      BY <2>2, <2>7 DEF LwPreview
    <2>9. LwSameQuery(lw, t)
      BY <2>2, <2>6 DEF LwSameQuery
    <2>10. LwGood(t) /\ t.epoch = lw.epoch
      BY <2>5, <2>8, <2>9, LwSameGood
    <2> QED BY <2>1, <2>2, <2>6, <2>10, LwFocused
  <1> QED BY <1>1, <1>2

LEMMA LwArrow ==
    ASSUME LwGood(lw), NEW end \in {"top", "bottom", "none"}, KeyArrow(end)
    PROVE  LwGood(lw') /\ lw'.epoch = lw.epoch /\ lw'.fades = lw.fades
  <1>1. CASE lw.rows = NoRows \/ end = "top"
    BY <1>1, LwFocused DEF KeyArrow
  <1>2. CASE ~ (lw.rows = NoRows \/ end = "top")
    <2> DEFINE x == IF end = "bottom" THEN lw ELSE Select(lw)
               f == IF lw.pv THEN lw.focus ELSE "list"
               t == [x EXCEPT !.focus = f]
    <2>1. lw' = t
      BY <1>2 DEF KeyArrow
    <2>2. x \in LwShape /\ LwSameQuery(lw, x) /\ LwSamePreview(lw, x) /\ x.fades = lw.fades
      <3>1. LwSameQuery(lw, lw) /\ LwSamePreview(lw, lw)
        BY DEF LwSameQuery, LwSamePreview
      <3> QED BY <3>1, LwSideMethods DEF LwGood
    <2>3. f \in {"entry", "list"}
      BY DEF LwShape, LwGood
    <2> HIDE DEF x, f
    <2>4. t \in LwShape /\ LwSameQuery(x, t) /\ LwSamePreview(x, t) /\ t.fades = x.fades
      BY <2>2, <2>3 DEF LwShape, LwSameQuery, LwSamePreview
    <2> HIDE DEF t
    <2>5. LwSameQuery(lw, t) /\ LwSamePreview(lw, t)
      BY <2>2, <2>4 DEF LwSameQuery, LwSamePreview
    <2>6. LwGood(t) /\ t.epoch = lw.epoch
      BY <2>4, <2>5, LwPreviewKept, LwSameGood DEF LwGood
    <2> QED BY <2>1, <2>2, <2>4, <2>6
  <1> QED BY <1>1, <1>2

\* Escape and a launch: what is on screen is closed, one thing at a time.
LEMMA LwEscape ==
    ASSUME LwGood(lw), KeyEscape
    PROVE  LwGood(lw') /\ LwNear(lw, lw')
  <1> lw.epoch \in Nat /\ lw.fades \in Nat
    BY LwKinds DEF LwGood
  <1>1. CASE lw.histMode /\ ~ lw.pv
    <2> DEFINE x == [lw EXCEPT !.histMode = FALSE]
               y == ClearRows(x)
               z == TakeFocus(y)
               t == maybe_show_recents(z)
    <2>1. lw' = t
      BY <1>1 DEF KeyEscape, exit_history_mode
    <2>2. x \in LwShape /\ LwSameQuery(lw, x) /\ LwSamePreview(lw, x) /\ x.fades = lw.fades
      BY DEF LwGood, LwShape, LwSameQuery, LwSamePreview
    <2> HIDE DEF x
    <2>3. LwGood(x) /\ x.epoch = lw.epoch
      BY <2>2, LwPreviewKept, LwSameGood DEF LwGood
    <2>4. LwGood(y) /\ y.epoch = x.epoch /\ y.fades = x.fades
      <3>1. /\ y \in LwShape /\ LwSamePreview(x, y) /\ y.rows = NoRows /\ y.status = "hidden"
            /\ y.text = x.text /\ y.lastq = x.lastq /\ y.epoch = x.epoch /\ y.deb = x.deb
            /\ y.load = x.load /\ y.snap = x.snap /\ y.asked = x.asked /\ y.pend = x.pend
            /\ y.lastE = x.lastE /\ y.itimer = x.itimer /\ y.cut = x.cut /\ y.over = x.over
            /\ y.fades = x.fades
        BY <2>2, LwClearRows
      <3> HIDE DEF y
      <3>2. LwQuery(y)
        BY <2>3, <3>1 DEF LwGood, LwQuery, LwKept, SearchUnderWay
      <3>3. LwPreview(y)
        BY <2>3, <3>1, LwPreviewKept DEF LwGood
      <3> QED BY <3>1, <3>2, <3>3 DEF LwGood
    <2> HIDE DEF y
    <2>5. LwGood(z) /\ z.epoch = y.epoch /\ z.fades = y.fades
      BY <2>4, LwFocused
    <2> HIDE DEF z
    <2>6. t \in LwShape /\ LwSameQuery(z, t) /\ LwSamePreview(z, t) /\ t.fades = z.fades
      BY <2>5, LwRecents DEF LwGood
    <2> HIDE DEF t
    <2>7. LwGood(t) /\ t.epoch = z.epoch
      BY <2>5, <2>6, LwPreviewKept, LwSameGood DEF LwGood
    <2> QED BY <2>1, <2>2, <2>3, <2>4, <2>5, <2>6, <2>7 DEF LwNear
  <1>2. CASE ~ (lw.histMode /\ ~ lw.pv) /\ lw.pv
    BY <1>2, LwDismiss DEF KeyEscape, LwNear
  <1>3. CASE ~ (lw.histMode /\ ~ lw.pv) /\ ~ lw.pv
    <2>1. lw' = hide(lw)
      BY <1>3 DEF KeyEscape
    <2>2. lw.shown => lw.left
      BY <1>3 DEF LwGood, LwPreview
    <2> QED BY <2>1, <2>2, LwHide
  <1> QED BY <1>1, <1>2, <1>3

LEMMA LwActivate ==
    ASSUME LwGood(lw), NEW o, KeyActivate(o)
    PROVE  LwGood(lw') /\ LwNear(lw, lw')
  <1> lw.epoch \in Nat /\ lw.fades \in Nat
    BY LwKinds DEF LwGood
  <1>1. CASE o = "launched" \/ lw.rows = NoRows
    <2> DEFINE x == cancel_preview_debounce(lw)
               y == dismiss_active_preview(x)
               z == clear_session(y)
               t == animate_hide(z)
    <2>1. lw' = t
      BY <1>1 DEF KeyActivate, clear_and_hide
    <2>2. x \in LwShape /\ LwSameQuery(lw, x) /\ LwSamePreview(lw, x) /\ x.fades = lw.fades
      BY LwSideMethods DEF LwGood
    <2> HIDE DEF x
    <2>3. LwGood(x) /\ x.epoch = lw.epoch
      BY <2>2, LwPreviewKept, LwSameGood DEF LwGood
    <2>4. LwGood(y) /\ y.epoch = x.epoch /\ y.fades = x.fades
      BY <2>3, LwDismiss
    <2> HIDE DEF y
    <2>5. /\ z \in LwShape /\ LwQuery(z) /\ LwSamePreview(y, z)
          /\ z.epoch \in {y.epoch + 1, y.epoch + 2} /\ z.fades = y.fades
      BY <2>4, LwClear DEF LwGood
    <2> HIDE DEF z
    <2>6. LwGood(z)
      BY <2>4, <2>5, LwPreviewKept DEF LwGood
    <2>7. t \in LwShape /\ LwSameQuery(z, t) /\ LwSamePreview(z, t) /\ t.fades \in {z.fades, z.fades + 1}
      BY <2>5, LwSideMethods
    <2> HIDE DEF t
    <2>8. LwGood(t) /\ t.epoch = z.epoch
      BY <2>6, <2>7, LwPreviewKept, LwSameGood DEF LwGood
    <2> QED BY <2>1, <2>2, <2>3, <2>4, <2>5, <2>7, <2>8 DEF LwNear
  <1>2. CASE ~ (o = "launched" \/ lw.rows = NoRows)
    <2> DEFINE t == [lw EXCEPT !.status = "message"]
    <2>1. lw' = t
      BY <1>2 DEF KeyActivate
    <2>2. t \in LwShape /\ LwSamePreview(lw, t)
      BY DEF LwGood, LwShape, LwStatus, LwSamePreview
    <2>3. /\ t.text = lw.text /\ t.lastq = lw.lastq /\ t.epoch = lw.epoch /\ t.deb = lw.deb
          /\ t.load = lw.load /\ t.rows = lw.rows /\ t.snap = lw.snap /\ t.asked = lw.asked
          /\ t.pend = lw.pend /\ t.lastE = lw.lastE /\ t.itimer = lw.itimer /\ t.status = "message"
          /\ t.cut = lw.cut /\ t.over = lw.over /\ t.fades = lw.fades
      BY DEF LwGood, LwShape
    <2> HIDE DEF t
    <2>4. LwQuery(t)
      BY <2>3 DEF LwGood, LwQuery, LwKept, SearchUnderWay
    <2> QED BY <2>1, <2>2, <2>3, <2>4, LwPreviewKept DEF LwGood, LwNear
  <1> QED BY <1>1, <1>2

\* A search that is sent is for the text, in the current epoch.
LEMMA LwShowMore ==
    ASSUME LwGood(lw), ShowMore
    PROVE  LwGood(lw') /\ lw'.epoch = lw.epoch /\ lw'.fades = lw.fades
  <1> DEFINE new == [e |-> lw.epoch, q |-> lw.text, st |-> "initial"]
             a == lw.asked \cup {new}
             t == [lw EXCEPT !.asked = a]
  <1>1. lw' = t
    BY DEF ShowMore
  <1>2. lw \in LwShape /\ lw.epoch \in Nat /\ lw.text \in LwText
    BY LwKinds DEF LwGood
  <1>3. new \in LwSearch /\ new.e = lw.epoch /\ new.q = lw.text
    BY <1>2 DEF LwSearch
  <1> HIDE DEF new
  <1>4. a \in SUBSET LwSearch
    BY <1>2, <1>3 DEF LwShape
  <1>5. lw.asked \subseteq a /\ \A m \in a : m \in lw.asked \/ m = new
    OBVIOUS
  <1> HIDE DEF a
  <1>6. t \in LwShape /\ LwSamePreview(lw, t)
    BY <1>2, <1>4 DEF LwShape, LwSamePreview
  <1>7. /\ t.text = lw.text /\ t.lastq = lw.lastq /\ t.epoch = lw.epoch /\ t.deb = lw.deb
        /\ t.load = lw.load /\ t.rows = lw.rows /\ t.snap = lw.snap /\ t.asked = a
        /\ t.pend = lw.pend /\ t.lastE = lw.lastE /\ t.itimer = lw.itimer /\ t.status = lw.status
        /\ t.cut = lw.cut /\ t.over = lw.over /\ t.fades = lw.fades
    BY <1>2, <1>4 DEF LwShape
  <1> HIDE DEF t
  <1>8. LwKept(t)
    BY <1>2, <1>3, <1>5, <1>7 DEF LwGood, LwQuery, LwKept
  <1>9. SearchUnderWay(lw) => SearchUnderWay(t)
    BY <1>5, <1>7 DEF SearchUnderWay
  <1>10. LwQuery(t)
    BY <1>7, <1>8, <1>9 DEF LwGood, LwQuery
  <1> QED BY <1>1, <1>6, <1>7, <1>10, LwPreviewKept DEF LwGood

LEMMA LwChip ==
    ASSUME LwGood(lw), ChipToggled
    PROVE  LwGood(lw') /\ LwNear(lw, lw')
  <1> DEFINE n == 1 - lw.chip
             s == [lw EXCEPT !.chip = n]
  <1>1. n \in 0..1 /\ lw \in LwShape /\ lw.epoch \in Nat /\ lw.fades \in Nat /\ lw.lastE \in Nat /\ lw.text \in LwText
    BY LwKinds DEF LwGood, LwShape
  <1>2. \A m \in lw.asked : m.e \in Nat
    BY LwKinds DEF LwGood
  <1> HIDE DEF n
  <1>3. s \in LwShape /\ LwSamePreview(lw, s)
    BY <1>1 DEF LwShape, LwSamePreview
  <1>4. /\ s.text = lw.text /\ s.lastq = lw.lastq /\ s.epoch = lw.epoch /\ s.deb = lw.deb
        /\ s.load = lw.load /\ s.rows = lw.rows /\ s.snap = lw.snap /\ s.asked = lw.asked
        /\ s.pend = lw.pend /\ s.lastE = lw.lastE /\ s.itimer = lw.itimer /\ s.status = lw.status
        /\ s.cut = lw.cut /\ s.over = lw.over /\ s.fades = lw.fades
    BY <1>1 DEF LwShape
  <1>5. CASE s.text # NoText
    <2> DEFINE new == [e |-> s.epoch + 1, q |-> s.text, st |-> "initial"]
               a == s.asked \cup {new}
               k == s.cut /\ s.lastq # s.text
               e == s.epoch + 1
               t == [s EXCEPT !.epoch = e, !.cut = k, !.asked = a]
    <2>1. lw' = t
      BY <1>5 DEF ChipToggled, n
    <2> HIDE DEF s
    <2>2. new \in LwSearch /\ new.e = e /\ new.q = s.text /\ e \in Nat /\ e = lw.epoch + 1
      BY <1>1, <1>4 DEF LwSearch
    <2> HIDE DEF new, e
    <2>3. a \in SUBSET LwSearch
      BY <1>3, <2>2 DEF LwShape
    <2>4. \A m \in a : m \in lw.asked \/ m = new
      BY <1>4
    <2>5. new \in a
      OBVIOUS
    <2>6. s.cut \in BOOLEAN
      BY <1>3 DEF LwShape
    <2>7. k \in BOOLEAN /\ (k <=> s.cut /\ s.lastq # s.text)
      BY <2>6, Zenon
    <2> HIDE DEF a, k
    <2>8. t \in LwShape
      BY <1>3, <2>2, <2>3, <2>7 DEF LwShape
    <2>9. LwSamePreview(s, t)
      BY <1>3 DEF LwShape, LwSamePreview
    <2>10. /\ t.text = s.text /\ t.lastq = s.lastq /\ t.epoch = e /\ t.deb = s.deb
           /\ t.load = s.load /\ t.rows = s.rows /\ t.snap = s.snap /\ t.asked = a
           /\ t.pend = s.pend /\ t.lastE = s.lastE /\ t.itimer = s.itimer /\ t.status = s.status
           /\ t.over = s.over /\ t.fades = s.fades
      BY <1>3 DEF LwShape
    <2>11. t.cut = k
      BY <1>3 DEF LwShape
    <2> HIDE DEF t
    <2>12. SearchUnderWay(t)
      BY <2>2, <2>5, <2>10 DEF SearchUnderWay
    <2>13. LwKept(t)
      <3>1. \A m \in a : m.e <= e /\ (m.e = e => m.q = s.text \/ s.over)
        BY <1>1, <1>2, <2>2, <2>4 DEF LwGood, LwQuery, LwKept
      <3>2. t.lastE # e /\ t.itimer <= t.lastE /\ t.lastE <= e
        BY <1>1, <1>4, <2>2, <2>10 DEF LwGood, LwQuery, LwKept
      <3> QED BY <1>4, <1>5, <2>10, <3>1, <3>2 DEF LwGood, LwQuery, LwKept
    <2>14. t.lastq = t.text \/ t.deb # NoText \/ t.cut \/ t.over
      BY <1>4, <2>7, <2>10, <2>11 DEF LwGood, LwQuery
    <2>15. LwQuery(t)
      BY <1>4, <2>10, <2>12, <2>13, <2>14 DEF LwGood, LwQuery
    <2>16. LwSamePreview(lw, t)
      BY <1>3, <2>9 DEF LwSamePreview
    <2> QED BY <1>1, <1>4, <2>1, <2>2, <2>8, <2>10, <2>15, <2>16, LwPreviewKept DEF LwGood, LwNear
  <1>6. CASE s.text = NoText
    <2> DEFINE w == IF s.rows # NoRows THEN "empty" ELSE "hidden"
               t == [s EXCEPT !.status = w]
    <2>1. lw' = t
      BY <1>6 DEF ChipToggled, n
    <2> HIDE DEF s
    <2>2. w \in LwStatus /\ w # "loading"
      BY DEF LwStatus
    <2> HIDE DEF w
    <2>3. t \in LwShape /\ LwSamePreview(s, t)
      BY <1>3, <2>2 DEF LwShape, LwSamePreview
    <2>4. /\ t.text = s.text /\ t.lastq = s.lastq /\ t.epoch = s.epoch /\ t.deb = s.deb
          /\ t.load = s.load /\ t.rows = s.rows /\ t.snap = s.snap /\ t.asked = s.asked
          /\ t.pend = s.pend /\ t.lastE = s.lastE /\ t.itimer = s.itimer /\ t.status = w
          /\ t.cut = s.cut /\ t.over = s.over /\ t.fades = s.fades
      BY <1>3, <2>2 DEF LwShape
    <2> HIDE DEF t
    <2>5. LwQuery(t)
      BY <1>4, <2>2, <2>4 DEF LwGood, LwQuery, LwKept, SearchUnderWay
    <2>6. LwSamePreview(lw, t)
      BY <1>3, <2>3 DEF LwSamePreview
    <2> QED BY <1>1, <1>4, <2>1, <2>3, <2>4, <2>5, <2>6, LwPreviewKept DEF LwGood, LwNear
  <1> QED BY <1>5, <1>6

--------------------------------------------------------------------------------
(* The timers and the replies.                                              *)

LEMMA LwDebounced ==
    ASSUME LwGood(lw), NEW c \in BOOLEAN, DebounceFires(c)
    PROVE  LwGood(lw') /\ lw'.epoch = lw.epoch /\ lw'.fades = lw.fades
  <1> DEFINE new == [e |-> lw.epoch, q |-> lw.deb, st |-> "initial"]
             a == lw.asked \cup {new}
             k == ~ c
             x == NoText
             t == [lw EXCEPT !.lastq = lw.deb, !.deb = x, !.load = k, !.asked = a]
  <1>1. lw' = t /\ lw.deb # NoText
    BY DEF DebounceFires
  <1>2. /\ lw \in LwShape /\ lw.epoch \in Nat /\ lw.text \in LwText /\ lw.deb \in LwText
        /\ x \in LwText /\ k \in BOOLEAN
    BY LwKinds DEF LwGood, LwText
  <1>3. new \in LwSearch /\ new.e = lw.epoch /\ new.q = lw.deb
    BY <1>2 DEF LwSearch
  <1> HIDE DEF new
  <1>4. a \in SUBSET LwSearch
    BY <1>2, <1>3 DEF LwShape
  <1>5. new \in a /\ \A m \in a : m \in lw.asked \/ m = new
    OBVIOUS
  <1>6. x = NoText
    OBVIOUS
  <1> HIDE DEF a, k, x
  <1>7. t \in LwShape
    BY <1>2, <1>4 DEF LwShape
  <1>8. LwSamePreview(lw, t)
    BY <1>2 DEF LwShape, LwSamePreview
  <1>9. /\ t.text = lw.text /\ t.lastq = lw.deb /\ t.epoch = lw.epoch /\ t.deb = x
        /\ t.rows = lw.rows /\ t.snap = lw.snap /\ t.asked = a
        /\ t.pend = lw.pend /\ t.lastE = lw.lastE /\ t.itimer = lw.itimer /\ t.status = lw.status
        /\ t.cut = lw.cut /\ t.over = lw.over /\ t.fades = lw.fades
    BY <1>2 DEF LwShape
  <1> HIDE DEF t
  <1>10. lw.text # NoText /\ (lw.deb = lw.text \/ lw.over)
    BY <1>1 DEF LwGood, LwQuery, LwKept
  <1>11. SearchUnderWay(t)
    BY <1>3, <1>5, <1>9 DEF SearchUnderWay
  <1>12. LwKept(t)
    BY <1>2, <1>3, <1>5, <1>9, <1>10 DEF LwGood, LwQuery, LwKept
  <1>13. LwQuery(t)
    BY <1>6, <1>9, <1>10, <1>11, <1>12 DEF LwQuery
  <1> QED BY <1>1, <1>7, <1>8, <1>9, <1>13, LwPreviewKept DEF LwGood

LEMMA LwLoading ==
    ASSUME LwGood(lw), LoadingFires
    PROVE  LwGood(lw') /\ lw'.epoch = lw.epoch /\ lw'.fades = lw.fades
  <1> DEFINE t == [lw EXCEPT !.load = FALSE, !.status = "loading"]
  <1>1. lw' = t /\ lw.load
    BY DEF LoadingFires
  <1>2. t \in LwShape
    BY DEF LwGood, LwShape, LwStatus
  <1>3. LwSamePreview(lw, t)
    BY DEF LwGood, LwShape, LwSamePreview
  <1>4. /\ t.text = lw.text /\ t.lastq = lw.lastq /\ t.epoch = lw.epoch /\ t.deb = lw.deb
        /\ t.rows = lw.rows /\ t.snap = lw.snap /\ t.asked = lw.asked
        /\ t.pend = lw.pend /\ t.lastE = lw.lastE /\ t.itimer = lw.itimer /\ t.fades = lw.fades
    BY DEF LwGood, LwShape
  <1>5. ~ t.load /\ t.cut = lw.cut /\ t.over = lw.over
    BY DEF LwGood, LwShape
  <1> HIDE DEF t
  <1>6. LwKept(t)
    BY <1>4, <1>5 DEF LwGood, LwQuery, LwKept
  <1>7. LwQuery(t)
    BY <1>1, <1>4, <1>5, <1>6 DEF LwGood, LwQuery, SearchUnderWay
  <1> QED BY <1>1, <1>2, <1>3, <1>4, <1>7, LwPreviewKept DEF LwGood

LEMMA LwPreviewDue ==
    ASSUME LwGood(lw), PreviewDebounceFires
    PROVE  LwGood(lw') /\ lw'.epoch = lw.epoch /\ lw'.fades = lw.fades
  <1>1. CASE lw.pv /\ lw.rows # NoRows
    <2> DEFINE t == [lw EXCEPT !.pdeb = FALSE, !.shown = TRUE, !.left = FALSE]
    <2>1. lw' = TakeFocus(t)
      BY <1>1 DEF PreviewDebounceFires
    <2>2. t \in LwShape
      <3>1. \A p, w, l \in BOOLEAN : [lw EXCEPT !.pdeb = p, !.shown = w, !.left = l] \in LwShape
        BY DEF LwShape, LwGood
      <3> QED BY <3>1
    <2>3. LwSameQuery(lw, t)
      BY DEF LwGood, LwShape, LwSameQuery
    <2>4. t.pv = lw.pv /\ t.slid = lw.slid /\ t.fades = lw.fades
      BY DEF LwGood, LwShape
    <2> HIDE DEF t
    <2>5. LwPreview(t)
      BY <1>1, <2>4 DEF LwPreview
    <2>6. LwGood(t) /\ t.epoch = lw.epoch
      BY <2>2, <2>3, <2>5, LwSameGood
    <2> QED BY <2>1, <2>4, <2>6, LwFocused
  <1>2. CASE ~ (lw.pv /\ lw.rows # NoRows)
    <2>1. lw' = cancel_preview_debounce(lw)
      BY <1>2 DEF PreviewDebounceFires, cancel_preview_debounce
    <2> DEFINE t == cancel_preview_debounce(lw)
    <2>2. t \in LwShape /\ LwSameQuery(lw, t) /\ LwSamePreview(lw, t) /\ t.fades = lw.fades
      BY LwSideMethods DEF LwGood
    <2> HIDE DEF t
    <2>3. LwGood(t) /\ t.epoch = lw.epoch
      BY <2>2, LwPreviewKept, LwSameGood DEF LwGood
    <2> QED BY <2>1, <2>2, <2>3 DEF t
  <1> QED BY <1>1, <1>2

\* The callbacks that touch one field beside the query and the preview.
LEMMA LwAside ==
    ASSUME LwGood(lw), KeyHistory \/ PreviewCloses \/ FadeEnds
    PROVE  LwGood(lw') /\ lw'.epoch = lw.epoch /\ lw'.fades <= lw.fades
  <1> lw \in LwShape /\ lw.fades \in Nat
    BY LwKinds DEF LwGood
  <1>1. CASE KeyHistory
    <2> DEFINE t == [lw EXCEPT !.hist = TRUE]
    <2>1. lw' = t
      BY <1>1 DEF KeyHistory
    <2>2. t \in LwShape /\ LwSameQuery(lw, t) /\ LwSamePreview(lw, t) /\ t.fades = lw.fades
      BY DEF LwShape, LwSameQuery, LwSamePreview
    <2> HIDE DEF t
    <2> QED BY <2>1, <2>2, LwPreviewKept, LwSameGood DEF LwGood
  <1>2. CASE PreviewCloses
    <2> DEFINE t == [lw EXCEPT !.shown = FALSE, !.left = FALSE, !.exitDue = TRUE]
    <2>1. lw' = t
      BY <1>2 DEF PreviewCloses
    <2>2. t \in LwShape
      <3>1. \A p, w, l \in BOOLEAN : [lw EXCEPT !.shown = p, !.left = w, !.exitDue = l] \in LwShape
        BY DEF LwShape
      <3> QED BY <3>1
    <2>3. LwSameQuery(lw, t)
      BY DEF LwShape, LwSameQuery
    <2>4. t.pv = lw.pv /\ t.slid = lw.slid /\ t.shown = FALSE /\ t.fades = lw.fades
      BY DEF LwShape
    <2> HIDE DEF t
    <2>5. LwPreview(t)
      BY <2>4 DEF LwGood, LwPreview
    <2> QED BY <2>1, <2>2, <2>3, <2>4, <2>5, LwSameGood
  <1>3. CASE FadeEnds
    <2> DEFINE n == lw.fades - 1
               t == [lw EXCEPT !.fades = n, !.vis = FALSE]
    <2>1. lw' = t /\ n \in Nat /\ n <= lw.fades
      BY <1>3 DEF FadeEnds
    <2> HIDE DEF n
    <2>2. t \in LwShape
      BY <2>1 DEF LwShape
    <2>3. LwSameQuery(lw, t)
      BY <2>1 DEF LwShape, LwSameQuery
    <2>4. LwSamePreview(lw, t) /\ t.fades = n
      BY <2>1 DEF LwShape, LwSamePreview
    <2> HIDE DEF t
    <2> QED BY <2>1, <2>2, <2>3, <2>4, LwPreviewKept, LwSameGood DEF LwGood
  <1> QED BY <1>1, <1>2, <1>3

\* A search that is answered or given up: what is left is as it was, unless the
\* search was of this epoch.
LEMMA LwAnswered ==
    ASSUME LwGood(lw), NEW m \in lw.asked, NEW a \in SUBSET LwSearch, a \subseteq lw.asked,
           \A x \in lw.asked : x \in a \/ x = m
    PROVE  LET s == [lw EXCEPT !.asked = a] IN
           /\ s \in LwShape /\ LwSamePreview(lw, s) /\ LwKept(s)
           /\ m \in LwSearch /\ m.e <= s.epoch /\ (m.e = s.epoch => m.q = s.text \/ s.over)
           /\ m.e < s.epoch => LwQuery(s)
           /\ s.deb # NoText => s.deb = s.text \/ s.over
           /\ s.lastq = s.text \/ s.deb # NoText \/ s.cut \/ s.over
           /\ s.epoch = lw.epoch /\ s.fades = lw.fades /\ s.asked = a
           /\ s.rows = NoRows \/ s.rows.q = s.text \/ SearchUnderWay(lw) \/ s.cut \/ s.over
           /\ s.rows \in LwRows
  <1> DEFINE s == [lw EXCEPT !.asked = a]
  <1>1. lw \in LwShape /\ m \in LwSearch /\ m.e \in Nat /\ lw.epoch \in Nat
    BY LwKinds DEF LwGood
  <1>2. s \in LwShape /\ LwSamePreview(lw, s)
    BY <1>1 DEF LwShape, LwSamePreview
  <1>3. /\ s.text = lw.text /\ s.lastq = lw.lastq /\ s.epoch = lw.epoch /\ s.deb = lw.deb
        /\ s.load = lw.load /\ s.rows = lw.rows /\ s.snap = lw.snap /\ s.asked = a
        /\ s.pend = lw.pend /\ s.lastE = lw.lastE /\ s.itimer = lw.itimer /\ s.status = lw.status
        /\ s.cut = lw.cut /\ s.over = lw.over /\ s.fades = lw.fades
    BY <1>1 DEF LwShape
  <1>4. s.rows \in LwRows
    BY <1>2 DEF LwShape
  <1> HIDE DEF s
  <1>5. LwKept(s)
    BY <1>3 DEF LwGood, LwQuery, LwKept
  <1>6. m.e <= s.epoch /\ (m.e = s.epoch => m.q = s.text \/ s.over)
    BY <1>3 DEF LwGood, LwQuery, LwKept
  <1>7. /\ s.deb # NoText => s.deb = s.text \/ s.over
        /\ s.lastq = s.text \/ s.deb # NoText \/ s.cut \/ s.over
        /\ s.rows = NoRows \/ s.rows.q = s.text \/ SearchUnderWay(lw) \/ s.cut \/ s.over
    BY <1>3 DEF LwGood, LwQuery
  <1>8. ASSUME m.e < s.epoch PROVE LwQuery(s)
    <2>1. SearchUnderWay(lw) => SearchUnderWay(s)
      BY <1>1, <1>3, <1>8 DEF SearchUnderWay
    <2> QED BY <1>3, <1>5, <1>7, <2>1 DEF LwGood, LwQuery
  <1> QED BY <1>1, <1>2, <1>3, <1>4, <1>5, <1>6, <1>7, <1>8 DEF s

\* The buffer, after a chunk of this epoch was seen, is of this epoch.
LEMMA LwSeen ==
    ASSUME NEW s \in LwShape, LwKept(s), NEW m \in LwSearch, m.e = s.epoch
    PROVE  LET t == Seen(s, m) IN
           /\ t \in LwShape /\ LwSamePreview(s, t) /\ LwKept(t)
           /\ t.pend = NoText \/ t.pend = t.text \/ t.over
           /\ t.lastE = t.epoch
           /\ t.text = s.text /\ t.lastq = s.lastq /\ t.epoch = s.epoch /\ t.deb = s.deb
           /\ t.load = s.load /\ t.rows = s.rows /\ t.snap = s.snap /\ t.asked = s.asked
           /\ t.status = s.status /\ t.cut = s.cut /\ t.over = s.over /\ t.fades = s.fades
  <1> s.epoch \in Nat /\ s.lastE \in Nat /\ s.itimer \in Nat /\ NoText \in LwText
    BY LwKinds DEF LwText
  <1>1. CASE m.e > s.lastE
    <2> DEFINE x == NoText
               t == [s EXCEPT !.pend = x, !.lastE = m.e]
    <2>1. Seen(s, m) = t
      BY <1>1 DEF Seen
    <2>2. x \in LwText /\ x = NoText
      BY DEF LwText
    <2> HIDE DEF x
    <2>3. t \in LwShape
      BY <2>2 DEF LwShape
    <2>4. LwSamePreview(s, t)
      BY DEF LwShape, LwSamePreview
    <2>5. /\ t.text = s.text /\ t.lastq = s.lastq /\ t.epoch = s.epoch /\ t.deb = s.deb
          /\ t.load = s.load /\ t.rows = s.rows /\ t.snap = s.snap /\ t.asked = s.asked
          /\ t.status = s.status /\ t.cut = s.cut /\ t.over = s.over /\ t.fades = s.fades
          /\ t.pend = x /\ t.lastE = m.e /\ t.itimer = s.itimer
      BY DEF LwShape
    <2> HIDE DEF t
    <2>6. LwKept(t)
      BY <1>1, <2>2, <2>5 DEF LwKept
    <2> QED BY <2>1, <2>2, <2>3, <2>4, <2>5, <2>6
  <1>2. CASE ~ (m.e > s.lastE)
    <2>1. Seen(s, m) = s
      BY <1>2 DEF Seen
    <2>2. s.lastE = s.epoch
      BY <1>2 DEF LwKept
    <2>3. LwSamePreview(s, s)
      BY DEF LwSamePreview
    <2> QED BY <2>1, <2>2, <2>3 DEF LwKept
  <1> QED BY <1>1, <1>2

LEMMA LwInitialChunk ==
    ASSUME LwGood(lw), NEW m \in lw.asked, InitialChunk(m)
    PROVE  LwGood(lw') /\ lw'.epoch = lw.epoch /\ lw'.fades = lw.fades
  <1> DEFINE n == [m EXCEPT !.st = "final"]
             a == (lw.asked \ {m}) \cup {n}
             s == [lw EXCEPT !.asked = a]
  <1>1. lw' = IF Stale(m) THEN s ELSE [Seen(s, m) EXCEPT !.pend = m.q, !.itimer = m.e]
    BY DEF InitialChunk
  <1>2. lw \in LwShape /\ m \in LwSearch /\ m.e \in Nat /\ m.q \in LwText /\ lw.epoch \in Nat
    BY LwKinds DEF LwGood, LwSearch
  <1>3. n \in LwSearch /\ n.e = m.e /\ n.q = m.q
    BY <1>2 DEF LwSearch
  <1> HIDE DEF n
  <1>4. a \in SUBSET LwSearch
    BY <1>2, <1>3 DEF LwShape
  <1>5. n \in a /\ (\A x \in a : x \in lw.asked \/ x = n) /\ \A x \in lw.asked : x \in a \/ x = m
    OBVIOUS
  <1> HIDE DEF a
  <1>6. s \in LwShape /\ LwSamePreview(lw, s)
    BY <1>2, <1>4 DEF LwShape, LwSamePreview
  <1>7. /\ s.text = lw.text /\ s.lastq = lw.lastq /\ s.epoch = lw.epoch /\ s.deb = lw.deb
        /\ s.load = lw.load /\ s.rows = lw.rows /\ s.snap = lw.snap /\ s.asked = a
        /\ s.pend = lw.pend /\ s.lastE = lw.lastE /\ s.itimer = lw.itimer /\ s.status = lw.status
        /\ s.cut = lw.cut /\ s.over = lw.over /\ s.fades = lw.fades
    BY <1>2, <1>4 DEF LwShape
  <1> HIDE DEF s
  <1>8. m.e <= s.epoch /\ (m.e = s.epoch => m.q = s.text \/ s.over)
    BY <1>7 DEF LwGood, LwQuery, LwKept
  <1>9. LwKept(s)
    BY <1>3, <1>5, <1>7, <1>8 DEF LwGood, LwQuery, LwKept
  <1>10. SearchUnderWay(lw) => SearchUnderWay(s)
    BY <1>3, <1>5, <1>7 DEF SearchUnderWay
  <1>11. LwQuery(s)
    BY <1>7, <1>9, <1>10 DEF LwGood, LwQuery
  <1>12. LwGood(s)
    BY <1>6, <1>11, LwPreviewKept DEF LwGood
  <1>13. CASE Stale(m)
    BY <1>1, <1>7, <1>12, <1>13
  <1>14. CASE ~ Stale(m)
    <2> DEFINE x == Seen(s, m)
               t == [x EXCEPT !.pend = m.q, !.itimer = m.e]
    <2>1. lw' = t
      BY <1>1, <1>14
    <2>2. m.e = s.epoch
      BY <1>2, <1>7, <1>8, <1>14 DEF Stale
    <2>3. /\ x \in LwShape /\ LwSamePreview(s, x) /\ LwKept(x) /\ x.lastE = x.epoch
          /\ x.text = s.text /\ x.lastq = s.lastq /\ x.epoch = s.epoch /\ x.deb = s.deb
          /\ x.load = s.load /\ x.rows = s.rows /\ x.snap = s.snap /\ x.asked = s.asked
          /\ x.status = s.status /\ x.cut = s.cut /\ x.over = s.over /\ x.fades = s.fades
      BY <1>2, <1>6, <1>9, <2>2, LwSeen
    <2> HIDE DEF x
    <2>4. t \in LwShape
      BY <1>2, <2>3 DEF LwShape
    <2>5. LwSamePreview(x, t)
      BY <2>3 DEF LwShape, LwSamePreview
    <2>6. /\ t.text = x.text /\ t.lastq = x.lastq /\ t.epoch = x.epoch /\ t.deb = x.deb
          /\ t.load = x.load /\ t.rows = x.rows /\ t.snap = x.snap /\ t.asked = x.asked
          /\ t.status = x.status /\ t.cut = x.cut /\ t.over = x.over /\ t.fades = x.fades
          /\ t.pend = m.q /\ t.lastE = x.lastE /\ t.itimer = m.e
      BY <2>3 DEF LwShape
    <2> HIDE DEF t
    <2>7. LwKept(t)
      BY <1>2, <1>7, <1>8, <2>2, <2>3, <2>6 DEF LwKept
    <2>8. LwQuery(t)
      BY <1>11, <2>3, <2>6, <2>7 DEF LwQuery, SearchUnderWay
    <2>9. LwPreview(t)
      BY <1>12, <2>3, <2>5, LwPreviewKept DEF LwGood
    <2> QED BY <1>7, <2>1, <2>3, <2>4, <2>6, <2>8, <2>9 DEF LwGood
  <1> QED BY <1>13, <1>14

LEMMA LwInitialDue ==
    ASSUME LwGood(lw), InitialFires
    PROVE  LwGood(lw') /\ lw'.epoch = lw.epoch /\ lw'.fades = lw.fades
  <1> DEFINE fresh == lw.itimer = lw.epoch /\ lw.pend # NoText
             r == IF fresh THEN [kind |-> "search", q |-> lw.pend] ELSE lw.rows
             t == [lw EXCEPT !.itimer = 0, !.rows = r]
  <1>1. lw' = t
    BY DEF InitialFires
  <1>2. /\ lw \in LwShape /\ lw.epoch \in Nat /\ lw.lastE \in Nat /\ lw.itimer \in Nat /\ lw.pend \in LwText
        /\ lw.rows \in LwRows
    BY LwKinds DEF LwGood, LwShape
  <1>3. r \in LwRows
    BY <1>2 DEF LwRows
  <1>4. r = lw.rows \/ r.q = lw.text \/ lw.over
    <2>1. ASSUME fresh PROVE lw.pend = lw.text \/ lw.over
      BY <1>2, <2>1 DEF LwGood, LwQuery, LwKept
    <2> QED BY <2>1
  <1> HIDE DEF fresh, r
  <1>5. t \in LwShape
    BY <1>2, <1>3 DEF LwShape
  <1>6. LwSamePreview(lw, t)
    BY <1>2 DEF LwShape, LwSamePreview
  <1>7. /\ t.text = lw.text /\ t.lastq = lw.lastq /\ t.epoch = lw.epoch /\ t.deb = lw.deb
        /\ t.load = lw.load /\ t.rows = r /\ t.snap = lw.snap /\ t.asked = lw.asked
        /\ t.pend = lw.pend /\ t.lastE = lw.lastE /\ t.itimer = 0 /\ t.status = lw.status
        /\ t.cut = lw.cut /\ t.over = lw.over /\ t.fades = lw.fades
    BY <1>2 DEF LwShape
  <1> HIDE DEF t
  <1>8. LwKept(t)
    BY <1>2, <1>7 DEF LwGood, LwQuery, LwKept
  <1>9. LwQuery(t)
    BY <1>4, <1>7, <1>8 DEF LwGood, LwQuery, SearchUnderWay
  <1> QED BY <1>1, <1>5, <1>6, <1>7, <1>9, LwPreviewKept DEF LwGood

\* The timers of an answered search are stopped and its buffer is emptied.
LEMMA LwSettled ==
    ASSUME NEW s \in LwShape, LwKept(s)
    PROVE  LET u == [FinalTimers(s) EXCEPT !.pend = NoText] IN
           /\ FinalTimers(s) \in LwShape
           /\ u \in LwShape /\ LwSamePreview(s, u) /\ LwKept(u) /\ ~ u.load
           /\ u.text = s.text /\ u.lastq = s.lastq /\ u.epoch = s.epoch /\ u.deb = s.deb
           /\ u.rows = s.rows /\ u.snap = s.snap /\ u.asked = s.asked
           /\ u.status = s.status /\ u.cut = s.cut /\ u.over = s.over /\ u.fades = s.fades
  <1> DEFINE t == FinalTimers(s)
             x == NoText
             u == [t EXCEPT !.pend = x]
  <1>1. t \in LwShape
    <2>1. \A b \in BOOLEAN : [s EXCEPT !.itimer = 0, !.load = b] \in LwShape
      BY DEF LwShape
    <2> QED BY <2>1 DEF FinalTimers
  <1>2. LwSamePreview(s, t)
    BY DEF LwShape, LwSamePreview, FinalTimers
  <1>3. /\ t.text = s.text /\ t.lastq = s.lastq /\ t.epoch = s.epoch /\ t.deb = s.deb
        /\ t.rows = s.rows /\ t.snap = s.snap /\ t.asked = s.asked /\ t.lastE = s.lastE /\ t.itimer = 0
        /\ t.status = s.status /\ t.cut = s.cut /\ t.over = s.over /\ t.fades = s.fades
    BY DEF LwShape, FinalTimers
  <1>4. ~ t.load
    BY DEF LwShape, FinalTimers
  <1> HIDE DEF t
  <1>5. x \in LwText /\ x = NoText
    BY DEF LwText
  <1> HIDE DEF x
  <1>6. u \in LwShape
    BY <1>1, <1>5 DEF LwShape
  <1>7. LwSamePreview(t, u)
    BY <1>1 DEF LwShape, LwSamePreview
  <1>8. /\ u.text = t.text /\ u.lastq = t.lastq /\ u.epoch = t.epoch /\ u.deb = t.deb
        /\ u.rows = t.rows /\ u.snap = t.snap /\ u.asked = t.asked /\ u.lastE = t.lastE /\ u.itimer = t.itimer
        /\ u.status = t.status /\ u.cut = t.cut /\ u.over = t.over /\ u.fades = t.fades
        /\ u.load = t.load /\ u.pend = x
    BY <1>1 DEF LwShape
  <1> HIDE DEF u
  <1>9. s.lastE \in Nat
    BY LwKinds
  <1>10. LwKept(u)
    BY <1>3, <1>4, <1>5, <1>8, <1>9 DEF LwKept
  <1>11. LwSamePreview(s, u)
    BY <1>2, <1>7 DEF LwSamePreview
  <1>12. u = [FinalTimers(s) EXCEPT !.pend = NoText]
    BY DEF u, t, x
  <1> QED BY <1>1, <1>3, <1>4, <1>6, <1>8, <1>10, <1>11, <1>12 DEF t

\* What is left of a session when its search is answered, and the rows that may
\* be drawn on it.
LwAnswerable(s) ==
    /\ LwKept(s) /\ LwPreview(s) /\ ~ s.load
    /\ s.deb # NoText => s.deb = s.text \/ s.over
    /\ s.lastq = s.text \/ s.deb # NoText \/ s.cut \/ s.over
LwDraw(s, w, z, r) == [s EXCEPT !.status = w, !.zero = z, !.rows = r]
LwFits(s, r) == r = NoRows \/ r.q = s.text \/ s.deb # NoText \/ s.cut \/ s.over

LEMMA LwDrawn ==
    ASSUME NEW s \in LwShape, LwAnswerable(s), NEW r \in LwRows, LwFits(s, r),
           NEW w \in LwStatus \ {"loading"}, NEW z \in Nat
    PROVE  LET t == LwDraw(s, w, z, r) IN LwGood(t) /\ t.epoch = s.epoch /\ t.fades = s.fades
  <1> DEFINE t == [s EXCEPT !.status = w, !.zero = z, !.rows = r]
  <1>1. t \in LwShape
    BY DEF LwShape
  <1>2. LwSamePreview(s, t)
    BY DEF LwShape, LwSamePreview
  <1>3. /\ t.text = s.text /\ t.lastq = s.lastq /\ t.epoch = s.epoch /\ t.deb = s.deb
        /\ t.load = s.load /\ t.rows = r /\ t.snap = s.snap /\ t.asked = s.asked
        /\ t.pend = s.pend /\ t.lastE = s.lastE /\ t.itimer = s.itimer /\ t.status = w
        /\ t.cut = s.cut /\ t.over = s.over /\ t.fades = s.fades
    BY DEF LwShape
  <1> HIDE DEF t
  <1>4. LwKept(t)
    BY <1>3 DEF LwAnswerable, LwKept
  <1>5. LwQuery(t)
    BY <1>3, <1>4 DEF LwAnswerable, LwFits, LwQuery, SearchUnderWay
  <1>6. LwPreview(t)
    BY <1>2, LwPreviewKept DEF LwAnswerable
  <1> QED BY <1>1, <1>3, <1>5, <1>6 DEF LwGood, LwDraw, t

LEMMA LwFinalChunk ==
    ASSUME LwGood(lw), NEW m \in lw.asked, NEW h \in BOOLEAN, NEW c \in BOOLEAN, FinalChunk(m, h, c)
    PROVE  LwGood(lw') /\ lw'.epoch = lw.epoch /\ lw'.fades = lw.fades
  <1> DEFINE a == lw.asked \ {m}
             s == [lw EXCEPT !.asked = a]
             y == Seen(s, m)
             u == [FinalTimers(y) EXCEPT !.pend = NoText]
             q == IF h THEN m.q ELSE FinalTimers(y).pend
  <1>1. lw' = IF Stale(m) THEN s
              ELSE IF q = NoText THEN ZeroHits(u, m, c)
              ELSE [u EXCEPT !.rows = [kind |-> "search", q |-> q], !.status = "hints"]
    BY DEF FinalChunk
  <1>2. a \in SUBSET LwSearch /\ a \subseteq lw.asked /\ \A x \in lw.asked : x \in a \/ x = m
    BY DEF LwGood, LwShape
  <1>3. m.e \in Nat /\ m.q \in LwText /\ lw.epoch \in Nat
    BY LwKinds DEF LwGood, LwSearch
  <1> HIDE DEF a
  <1>4. /\ s \in LwShape /\ LwSamePreview(lw, s) /\ LwKept(s)
        /\ m \in LwSearch /\ m.e <= s.epoch /\ (m.e = s.epoch => m.q = s.text \/ s.over)
        /\ m.e < s.epoch => LwQuery(s)
        /\ s.deb # NoText => s.deb = s.text \/ s.over
        /\ s.lastq = s.text \/ s.deb # NoText \/ s.cut \/ s.over
        /\ s.epoch = lw.epoch /\ s.fades = lw.fades
    BY <1>2, LwAnswered
  <1> HIDE DEF s
  <1>5. LwPreview(s)
    BY <1>4, LwPreviewKept DEF LwGood
  <1>6. CASE Stale(m)
    BY <1>1, <1>4, <1>5, <1>6 DEF Stale, LwGood
  <1>7. CASE ~ Stale(m)
    <2>1. m.e = s.epoch
      BY <1>3, <1>4, <1>7 DEF Stale
    <2>2. /\ y \in LwShape /\ LwSamePreview(s, y) /\ LwKept(y)
          /\ y.pend = NoText \/ y.pend = y.text \/ y.over
          /\ y.text = s.text /\ y.lastq = s.lastq /\ y.epoch = s.epoch /\ y.deb = s.deb
          /\ y.cut = s.cut /\ y.over = s.over /\ y.fades = s.fades
      BY <1>4, <2>1, LwSeen
    <2> HIDE DEF y
    <2>3. /\ u \in LwShape /\ LwSamePreview(y, u) /\ LwKept(u) /\ ~ u.load
          /\ u.text = y.text /\ u.lastq = y.lastq /\ u.epoch = y.epoch /\ u.deb = y.deb
          /\ u.cut = y.cut /\ u.over = y.over /\ u.fades = y.fades
      BY <2>2, LwSettled
    <2>4. FinalTimers(y).pend = y.pend /\ y.pend \in LwText
      BY <2>2 DEF FinalTimers, LwShape
    <2>5. q \in LwText /\ (q = NoText \/ q = u.text \/ u.over)
      BY <1>3, <1>4, <2>1, <2>2, <2>3, <2>4
    <2> HIDE DEF u, q
    <2>6. LwPreview(u)
      BY <1>5, <2>2, <2>3 DEF LwSamePreview, LwPreview
    <2>7. LwAnswerable(u) /\ u.epoch = lw.epoch /\ u.fades = lw.fades
      BY <1>4, <2>2, <2>3, <2>6 DEF LwAnswerable
    <2>8. u.zero \in Nat /\ u.lastq \in LwText
      BY <2>3 DEF LwShape
    <2>9. \A r \in LwRows, w \in LwStatus \ {"loading"}, z \in Nat :
             LwFits(u, r) => LET t == LwDraw(u, w, z, r) IN
                             LwGood(t) /\ t.epoch = u.epoch /\ t.fades = u.fades
      BY <2>3, <2>7, LwDrawn
    <2>10. CASE q # NoText
      <3> DEFINE r == [kind |-> "search", q |-> q]
      <3>1. r \in LwRows /\ r.q = q /\ "hints" \in LwStatus \ {"loading"}
        BY <2>5 DEF LwRows, LwStatus
      <3>2. lw' = [u EXCEPT !.rows = r, !.status = "hints"]
        BY <1>1, <1>7, <2>10
      <3>3. lw' = LwDraw(u, "hints", u.zero, r)
        BY <2>3, <3>2 DEF LwShape, LwDraw
      <3>4. LwFits(u, r)
        BY <2>5, <2>10, <3>1 DEF LwFits
      <3> HIDE DEF r
      <3> QED BY <2>7, <2>8, <2>9, <3>1, <3>3, <3>4
    <2>11. CASE q = NoText
      <3>1. lw' = ZeroHits(u, m, c)
        BY <1>1, <1>7, <2>11
      <3>2. "hidden" \in LwStatus \ {"loading"} /\ "empty" \in LwStatus \ {"loading"}
        BY DEF LwStatus
      <3> LwFits(u, NoRows)
        BY DEF LwFits
      <3>3. CASE u.lastq = NoText
        <4>1. lw' = LwDraw(u, "hidden", u.zero, NoRows)
          BY <2>3, <3>1, <3>3 DEF ZeroHits, ClearRows, LwShape, LwDraw
        <4> QED BY <2>7, <2>8, <2>9, <3>2, <4>1, LwRowsOf
      <3>4. CASE u.lastq # NoText /\ (c \/ u.chip # 0)
        <4>1. lw' = [u EXCEPT !.status = "empty", !.rows = NoRows]
          BY <3>1, <3>4 DEF ZeroHits
        <4>2. lw' = LwDraw(u, "empty", u.zero, NoRows)
          BY <2>3, <4>1 DEF LwShape, LwDraw
        <4> QED BY <2>7, <2>8, <2>9, <3>2, <4>2, LwRowsOf
      <3>5. CASE u.lastq # NoText /\ ~ (c \/ u.chip # 0)
        <4> DEFINE r == [kind |-> "web", q |-> u.lastq]
                   z == IF u.zero = 0 THEN m.e ELSE u.zero
        <4>1. lw' = LwDraw(u, "empty", z, r)
          BY <3>1, <3>5 DEF ZeroHits, LwDraw
        <4>2. r \in LwRows /\ r.q = u.lastq
          BY <2>8 DEF LwRows
        <4>3. z \in Nat
          BY <1>3, <2>8
        <4>4. LwFits(u, r)
          BY <2>7, <4>2 DEF LwFits, LwAnswerable
        <4> HIDE DEF r, z
        <4> QED BY <2>7, <2>9, <3>2, <4>1, <4>2, <4>3, <4>4
      <3> QED BY <3>3, <3>4, <3>5
    <2> QED BY <2>10, <2>11
  <1> QED BY <1>6, <1>7

LEMMA LwSearchFails ==
    ASSUME LwGood(lw), NEW m \in lw.asked, SearchFails(m)
    PROVE  LwGood(lw') /\ lw'.epoch = lw.epoch /\ lw'.fades = lw.fades
  <1> DEFINE a == lw.asked \ {m}
             s == [lw EXCEPT !.asked = a]
             u == [FinalTimers(s) EXCEPT !.pend = NoText]
             t == [u EXCEPT !.status = "unresponsive", !.cut = TRUE]
  <1>1. lw' = IF Stale(m) THEN s
              ELSE [FinalTimers(s) EXCEPT !.pend = NoText, !.status = "unresponsive", !.cut = TRUE]
    BY DEF SearchFails
  <1>2. a \in SUBSET LwSearch /\ a \subseteq lw.asked /\ \A x \in lw.asked : x \in a \/ x = m
    BY DEF LwGood, LwShape
  <1> HIDE DEF a
  <1>3. /\ s \in LwShape /\ LwSamePreview(lw, s) /\ LwKept(s)
        /\ m.e < s.epoch => LwQuery(s)
        /\ s.deb # NoText => s.deb = s.text \/ s.over
        /\ s.epoch = lw.epoch /\ s.fades = lw.fades
    BY <1>2, LwAnswered
  <1> HIDE DEF s
  <1>4. LwPreview(s)
    BY <1>3, LwPreviewKept DEF LwGood
  <1>5. CASE Stale(m)
    BY <1>1, <1>3, <1>4, <1>5 DEF Stale, LwGood
  <1>6. CASE ~ Stale(m)
    <2>1. /\ u \in LwShape /\ LwSamePreview(s, u) /\ LwKept(u) /\ ~ u.load
          /\ u.text = s.text /\ u.epoch = s.epoch /\ u.deb = s.deb
          /\ u.over = s.over /\ u.fades = s.fades
      BY <1>3, LwSettled
    <2>2. lw' = t
      <3>1. \A x \in LwShape : \A p, w, k : [x EXCEPT !.pend = p, !.status = w, !.cut = k]
                     = [[x EXCEPT !.pend = p] EXCEPT !.status = w, !.cut = k]
        BY DEF LwShape
      <3>2. FinalTimers(s) \in LwShape
        BY <1>3, LwSettled
      <3> QED BY <1>1, <1>6, <3>1, <3>2
    <2> HIDE DEF u
    <2>3. t \in LwShape
      <3>1. "unresponsive" \in LwStatus
        BY DEF LwStatus
      <3>2. \A w \in LwStatus, k \in BOOLEAN : [u EXCEPT !.status = w, !.cut = k] \in LwShape
        BY <2>1 DEF LwShape
      <3> QED BY <3>1, <3>2
    <2>4. LwSamePreview(u, t)
      BY <2>1 DEF LwShape, LwSamePreview
    <2>5. /\ t.text = u.text /\ t.lastq = u.lastq /\ t.epoch = u.epoch /\ t.deb = u.deb
          /\ t.load = u.load /\ t.rows = u.rows /\ t.snap = u.snap /\ t.asked = u.asked
          /\ t.pend = u.pend /\ t.lastE = u.lastE /\ t.itimer = u.itimer
          /\ t.over = u.over /\ t.fades = u.fades
      BY <2>1 DEF LwShape
    <2>6. t.cut
      BY <2>1 DEF LwShape
    <2> HIDE DEF t
    <2>7. LwKept(t)
      BY <2>1, <2>5 DEF LwKept
    <2>8. LwQuery(t)
      BY <1>3, <2>1, <2>5, <2>6, <2>7 DEF LwQuery
    <2>9. LwPreview(t)
      BY <1>4, <2>1, <2>4 DEF LwSamePreview, LwPreview
    <2> QED BY <1>3, <2>1, <2>2, <2>3, <2>5, <2>8, <2>9 DEF LwGood
  <1> QED BY <1>5, <1>6

LEMMA LwSearchIsLate ==
    ASSUME LwGood(lw), NEW m \in lw.asked, SearchIsLate(m)
    PROVE  LwGood(lw') /\ lw'.epoch = lw.epoch /\ lw'.fades = lw.fades
  <1> DEFINE t == [lw EXCEPT !.load = FALSE, !.status = "searching"]
  <1>1. lw' = t
    BY DEF SearchIsLate
  <1>2. t \in LwShape
    BY DEF LwGood, LwShape, LwStatus
  <1>3. LwSamePreview(lw, t)
    BY DEF LwGood, LwShape, LwSamePreview
  <1>4. /\ t.text = lw.text /\ t.lastq = lw.lastq /\ t.epoch = lw.epoch /\ t.deb = lw.deb
        /\ t.rows = lw.rows /\ t.snap = lw.snap /\ t.asked = lw.asked /\ t.status = "searching"
        /\ t.pend = lw.pend /\ t.lastE = lw.lastE /\ t.itimer = lw.itimer /\ t.fades = lw.fades
    BY DEF LwGood, LwShape
  <1>5. ~ t.load /\ t.cut = lw.cut /\ t.over = lw.over
    BY DEF LwGood, LwShape
  <1> HIDE DEF t
  <1>6. LwKept(t)
    BY <1>4, <1>5 DEF LwGood, LwQuery, LwKept
  <1>7. LwQuery(t)
    BY <1>4, <1>5, <1>6 DEF LwGood, LwQuery, SearchUnderWay
  <1> QED BY <1>1, <1>2, <1>3, <1>4, <1>7, LwPreviewKept DEF LwGood

\* A list for the empty text.
LwList(s, k, w, b) ==
    [s EXCEPT !.rows = [kind |-> k, q |-> NoText], !.status = w, !.histMode = b]

LEMMA LwListed ==
    ASSUME NEW s, LwGood(s), s.text = NoText, NEW k \in {"recent", "history"},
           NEW w \in LwStatus \ {"loading"}, NEW b \in BOOLEAN
    PROVE  LET t == LwList(s, k, w, b) IN LwGood(t) /\ t.epoch = s.epoch /\ t.fades = s.fades
  <1> DEFINE r == [kind |-> k, q |-> NoText]
             t == [s EXCEPT !.rows = r, !.status = w, !.histMode = b]
  <1>1. r \in LwRows /\ r.q = NoText
    BY DEF LwRows, LwText
  <1> HIDE DEF r
  <1>2. t \in LwShape
    BY <1>1 DEF LwGood, LwShape
  <1>3. LwSamePreview(s, t)
    BY DEF LwGood, LwShape, LwSamePreview
  <1>4. /\ t.text = s.text /\ t.lastq = s.lastq /\ t.epoch = s.epoch /\ t.deb = s.deb
        /\ t.load = s.load /\ t.rows = r /\ t.snap = s.snap /\ t.asked = s.asked
        /\ t.pend = s.pend /\ t.lastE = s.lastE /\ t.itimer = s.itimer /\ t.status = w
        /\ t.cut = s.cut /\ t.over = s.over /\ t.fades = s.fades
    BY DEF LwGood, LwShape
  <1> HIDE DEF t
  <1>5. LwQuery(t)
    BY <1>1, <1>4 DEF LwGood, LwQuery, LwKept, SearchUnderWay
  <1>6. LwGood(t)
    BY <1>2, <1>3, <1>5, LwPreviewKept DEF LwGood
  <1> QED BY <1>4, <1>6 DEF LwList, t, r

LEMMA LwRecentsArrive ==
    ASSUME LwGood(lw), NEW e \in lw.recents, RecentsArrive(e)
    PROVE  LwGood(lw') /\ lw'.epoch = lw.epoch /\ lw'.fades = lw.fades
  <1> DEFINE a == lw.recents \ {e}
             s == [lw EXCEPT !.recents = a]
  <1>1. lw' = IF e = s.epoch /\ s.text = NoText
              THEN [s EXCEPT !.rows = [kind |-> "recent", q |-> NoText], !.status = "hints"] ELSE s
    BY DEF RecentsArrive
  <1>2. a \in SUBSET Nat
    BY DEF LwGood, LwShape
  <1> HIDE DEF a
  <1>3. s \in LwShape /\ LwSameQuery(lw, s) /\ LwSamePreview(lw, s) /\ s.fades = lw.fades
    BY <1>2 DEF LwGood, LwShape, LwSameQuery, LwSamePreview
  <1> HIDE DEF s
  <1>4. LwGood(s) /\ s.epoch = lw.epoch
    BY <1>3, LwPreviewKept, LwSameGood DEF LwGood
  <1>5. CASE e = s.epoch /\ s.text = NoText
    <2>1. s.histMode \in BOOLEAN /\ "hints" \in LwStatus \ {"loading"}
      BY <1>3 DEF LwShape, LwStatus
    <2>2. lw' = LwList(s, "recent", "hints", s.histMode)
      BY <1>1, <1>3, <1>5 DEF LwShape, LwList
    <2> QED BY <1>3, <1>4, <1>5, <2>1, <2>2, LwListed
  <1>6. CASE ~ (e = s.epoch /\ s.text = NoText)
    BY <1>1, <1>3, <1>4, <1>6
  <1> QED BY <1>5, <1>6

LEMMA LwHistoryArrives ==
    ASSUME LwGood(lw), HistoryArrives
    PROVE  LwGood(lw') /\ lw'.epoch = lw.epoch /\ lw'.fades = lw.fades
  <1> DEFINE s == [lw EXCEPT !.hist = FALSE]
  <1>1. lw' = IF s.text = NoText
              THEN [s EXCEPT !.rows = [kind |-> "history", q |-> NoText], !.status = "hidden", !.histMode = TRUE]
              ELSE s
    BY DEF HistoryArrives
  <1>2. s \in LwShape /\ LwSameQuery(lw, s) /\ LwSamePreview(lw, s) /\ s.fades = lw.fades
    BY DEF LwGood, LwShape, LwSameQuery, LwSamePreview
  <1> HIDE DEF s
  <1>3. LwGood(s) /\ s.epoch = lw.epoch
    BY <1>2, LwPreviewKept, LwSameGood DEF LwGood
  <1>4. CASE s.text = NoText
    <2>1. "hidden" \in LwStatus \ {"loading"}
      BY DEF LwStatus
    <2>2. lw' = LwList(s, "history", "hidden", TRUE)
      BY <1>1, <1>4 DEF LwList
    <2> QED BY <1>2, <1>3, <1>4, <2>1, <2>2, LwListed
  <1>5. CASE s.text # NoText
    BY <1>1, <1>2, <1>3, <1>5
  <1> QED BY <1>4, <1>5

LEMMA LwStatusArrives ==
    ASSUME LwGood(lw), IndexStatusArrives
    PROVE  LwGood(lw') /\ lw'.epoch = lw.epoch /\ lw'.fades = lw.fades
  <1> DEFINE w == IF lw.zero = lw.epoch THEN "indexing" ELSE lw.status
             t == [lw EXCEPT !.zero = 0, !.status = w]
  <1>1. lw' = t
    BY DEF IndexStatusArrives
  <1>2. w \in LwStatus /\ (w = "loading" => lw.status = "loading")
    BY DEF LwGood, LwShape, LwStatus
  <1> HIDE DEF w
  <1>3. t \in LwShape
    BY <1>2 DEF LwGood, LwShape
  <1>4. LwSamePreview(lw, t)
    BY DEF LwGood, LwShape, LwSamePreview
  <1>5. /\ t.text = lw.text /\ t.lastq = lw.lastq /\ t.epoch = lw.epoch /\ t.deb = lw.deb
        /\ t.load = lw.load /\ t.rows = lw.rows /\ t.snap = lw.snap /\ t.asked = lw.asked
        /\ t.pend = lw.pend /\ t.lastE = lw.lastE /\ t.itimer = lw.itimer /\ t.status = w
        /\ t.cut = lw.cut /\ t.over = lw.over /\ t.fades = lw.fades
    BY DEF LwGood, LwShape
  <1> HIDE DEF t
  <1>6. LwQuery(t)
    BY <1>2, <1>5 DEF LwGood, LwQuery, LwKept, SearchUnderWay
  <1> QED BY <1>1, <1>3, <1>4, <1>5, <1>6, LwPreviewKept DEF LwGood

--------------------------------------------------------------------------------
(* The invariant and what it gives.                                         *)

LwInvariant == LwGood(lw) /\ lw.epoch <= LwMaxEpoch /\ lw.fades <= 2

LEMMA LwStarts == LwInit => LwInvariant
  <1> SUFFICES ASSUME LwInit PROVE LwInvariant
    OBVIOUS
  <1>1. lw \in LwShape
    BY LwRowsOf DEF LwInit, LwShape, LwText, LwStatus
  <1>2. LwQuery(lw)
    BY LwRowsOf DEF LwInit, LwQuery, LwKept
  <1>3. LwPreview(lw) /\ lw.epoch = 0 /\ lw.fades = 0
    BY DEF LwInit, LwPreview
  <1> QED BY <1>1, <1>2, <1>3, LwAssumption DEF LwInvariant, LwGood

LEMMA LwStep == LwInvariant /\ [LwNext]_lwVars => LwInvariant'
  <1> SUFFICES ASSUME LwInvariant, [LwNext]_lwVars PROVE LwInvariant'
    OBVIOUS
  <1> USE DEF LwInvariant
  <1>1. LwGood(lw) /\ lw.epoch \in Nat /\ lw.fades \in Nat
    BY LwKinds DEF LwGood
  <1>2. ASSUME LwRoom, LwGood(lw'), LwNear(lw, lw') PROVE LwInvariant'
    <2>1. lw'.epoch \in Nat /\ lw'.fades \in Nat
      BY <1>2, LwKinds DEF LwGood
    <2> QED BY <1>1, <1>2, <2>1, LwAssumption DEF LwRoom, LwNear, LwGood
  <1>3. ASSUME LwGood(lw'), lw'.epoch = lw.epoch, lw'.fades <= lw.fades PROVE LwInvariant'
    <2>1. lw'.fades \in Nat
      BY <1>3, LwKinds DEF LwGood
    <2> QED BY <1>1, <1>3, <2>1 DEF LwGood
  <1>4. ASSUME NEW c \in LwCommands, Command(c) PROVE LwInvariant'
    BY <1>1, <1>2, <1>4, LwCommanded DEF Command
  <1>5. CASE FadeEnds \/ PreviewCloses \/ KeyHistory
    BY <1>1, <1>3, <1>5, LwAside
  <1>6. ASSUME NEW g \in BOOLEAN, FocusLeaves(g) PROVE LwInvariant'
    <2>1. lw' = hide(lw) /\ ~ lw.pv /\ LwRoom
      BY <1>6 DEF FocusLeaves
    <2>2. lw.shown => lw.left
      BY <1>1, <2>1 DEF LwGood, LwPreview
    <2> QED BY <1>1, <1>2, <2>1, <2>2, LwHide
  <1>7. ASSUME NEW t \in LwText, KeyEdit(t) PROVE LwInvariant'
    <2> DEFINE x == dismiss_active_preview(lw)
    <2>1. LwGood(x) /\ x.epoch = lw.epoch /\ x.fades = lw.fades
      BY <1>1, LwDismiss
    <2>2. lw' = TakeFocus(set_text(x, t)) /\ LwRoom
      BY <1>7 DEF KeyEdit, KeyPress
    <2> HIDE DEF x
    <2>3. LwGood(lw') /\ lw'.epoch \in {x.epoch, x.epoch + 1} /\ lw'.fades = x.fades
      BY <2>1, <2>2, LwTyped
    <2>4. LwNear(lw, lw')
      BY <1>1, <2>1, <2>3 DEF LwNear
    <2> QED BY <1>2, <2>2, <2>3, <2>4
  <1>8. ASSUME NEW t \in LwText, ReplaceQuery(t) PROVE LwInvariant'
    <2>1. lw' = TakeFocus(set_text(lw, t)) /\ LwRoom
      BY <1>8 DEF ReplaceQuery
    <2>2. LwGood(lw') /\ lw'.epoch \in {lw.epoch, lw.epoch + 1} /\ lw'.fades = lw.fades
      BY <1>1, <2>1, LwTyped
    <2>3. LwNear(lw, lw')
      BY <1>1, <2>2 DEF LwNear
    <2> QED BY <1>2, <2>1, <2>2, <2>3
  <1>9. ASSUME NEW a \in BOOLEAN, NEW f \in BOOLEAN, KeyQuickLook(a, f) PROVE LwInvariant'
    BY <1>1, <1>3, <1>9, LwQuickLook
  <1>10. ASSUME NEW end \in {"top", "bottom", "none"}, KeyArrow(end) PROVE LwInvariant'
    BY <1>1, <1>3, <1>10, LwArrow
  <1>11. CASE KeyEscape
    BY <1>1, <1>2, <1>11, LwEscape DEF KeyEscape, KeyPress
  <1>12. CASE ShowMore
    BY <1>1, <1>3, <1>12, LwShowMore
  <1>13. CASE ChipToggled
    BY <1>1, <1>2, <1>13, LwChip DEF ChipToggled, KeyPress
  <1>14. ASSUME NEW o \in {"launched", "stays"}, KeyActivate(o) PROVE LwInvariant'
    BY <1>1, <1>2, <1>14, LwActivate DEF KeyActivate, KeyPress
  <1>15. ASSUME NEW c \in BOOLEAN, DebounceFires(c) PROVE LwInvariant'
    BY <1>1, <1>3, <1>15, LwDebounced
  <1>16. CASE LoadingFires
    BY <1>1, <1>3, <1>16, LwLoading
  <1>17. CASE PreviewDebounceFires
    BY <1>1, <1>3, <1>17, LwPreviewDue
  <1>18. CASE InitialFires
    BY <1>1, <1>3, <1>18, LwInitialDue
  <1>19. ASSUME NEW m \in lw.asked, InitialChunk(m) PROVE LwInvariant'
    BY <1>1, <1>3, <1>19, LwInitialChunk
  <1>20. ASSUME NEW m \in lw.asked, SearchFails(m) PROVE LwInvariant'
    BY <1>1, <1>3, <1>20, LwSearchFails
  <1>21. ASSUME NEW m \in lw.asked, SearchIsLate(m) PROVE LwInvariant'
    BY <1>1, <1>3, <1>21, LwSearchIsLate
  <1>22. ASSUME NEW m \in lw.asked, NEW h \in BOOLEAN, NEW c \in BOOLEAN, FinalChunk(m, h, c)
         PROVE LwInvariant'
    BY <1>1, <1>3, <1>22, LwFinalChunk
  <1>23. ASSUME NEW e \in lw.recents, RecentsArrive(e) PROVE LwInvariant'
    BY <1>1, <1>3, <1>23, LwRecentsArrive
  <1>24. CASE HistoryArrives
    BY <1>1, <1>3, <1>24, LwHistoryArrives
  <1>25. CASE IndexStatusArrives
    BY <1>1, <1>3, <1>25, LwStatusArrives
  <1>26. CASE UNCHANGED lwVars
    BY <1>26 DEF lwVars, LwGood, LwQuery, LwKept, LwPreview, SearchUnderWay
  <1> QED BY <1>4, <1>5, <1>6, <1>7, <1>8, <1>9, <1>10, <1>11, <1>12, <1>13, <1>14, <1>15, <1>16,
             <1>17, <1>18, <1>19, <1>20, <1>21, <1>22, <1>23, <1>24, <1>25, <1>26 DEF LwNext, LwText

LEMMA LwAlways == LwSpec => []LwInvariant
  BY LwStarts, LwStep, PTL DEF LwSpec

\* Whatever keys, commands, timers and replies arrive, in whatever order, every
\* field of the launcher keeps its shape, and no search, chunk or timer is of a
\* later epoch than the session (LauncherController, install_response_handler).
THEOREM WindowTyped == LwSpec => []LwTypeOK
  <1>1. LwInvariant => LwTypeOK
    <2> SUFFICES ASSUME LwInvariant PROVE LwTypeOK
      OBVIOUS
    <2>1. lw \in LwShape /\ lw.epoch \in Nat /\ lw.fades \in Nat
      BY LwKinds DEF LwInvariant, LwGood
    <2>2. lw.rows.kind \in {"none", "search", "web", "recent", "history"}
      BY <2>1 DEF LwShape, LwRows
    <2>3. lw.status \in LwStatus /\ lw.text \in LwText /\ lw.deb \in LwText
      BY <2>1 DEF LwShape
    <2>4. /\ \A m \in lw.asked : m.e <= lw.epoch
          /\ lw.itimer <= lw.lastE /\ lw.lastE <= lw.epoch
      BY DEF LwInvariant, LwGood, LwQuery, LwKept
    <2>5. lw.epoch \in 0..LwMaxEpoch /\ lw.fades \in 0..2
      BY <2>1, LwAssumption DEF LwInvariant
    <2> QED BY <2>2, <2>3, <2>4, <2>5 DEF LwTypeOK, LwStatus, LwText
  <1> QED BY <1>1, LwAlways, PTL

\* The rows answer the text above them unless its search is still due, the
\* launcher stands aside only for a preview, no key, timer or launch leaves a
\* preview behind, and the spinner runs only for an unanswered search (what
\* set_preview_mode_active, persist_session and the epoch checks are for).
THEOREM WindowHonest == LwSpec => []LauncherHonest
  <1>1. LwInvariant => LauncherHonest
    BY DEF LwInvariant, LwGood, LwQuery, LwPreview, LauncherHonest, RowsAnswerTheText,
           SlideIsBalanced, NoOrphanPreview, SpinnerIsHonest
  <1> QED BY <1>1, LwAlways, PTL

--------------------------------------------------------------------------------
(* Sets of numbers.                                                         *)

\* A set of numbers that is not empty has a least one: what the recursive
\* definitions are unfolded with.
LEMMA LeastNat ==
    ASSUME NEW T, T \subseteq Nat, T # {}
    PROVE  \E x \in T : \A y \in T : x <= y
  <1> DEFINE R == OpToRel(<, Nat)
  <1>1. IsWellFoundedOn(R, Nat)
    BY NatLessThanWellFounded
  <1>2. PICK x \in T : \A y \in T : ~ (<<y, x>> \in R)
    <2> HIDE DEF R
    <2> QED
      BY <1>1, WFMin
  <1>3. \A y \in T : ~ (y < x)
    BY <1>2 DEF OpToRel
  <1> QED
    BY <1>3

--------------------------------------------------------------------------------
(***************************************************************************)
(* The result rows.                                                        *)
(***************************************************************************)

\* The tail of a sequence holds nothing new, and nothing twice.
LEMMA RwTail ==
    ASSUME NEW S, NEW s \in Seq(S), s # <<>>
    PROVE  /\ Tail(s) \in Seq(S) /\ ToSet(Tail(s)) \subseteq ToSet(s) /\ Head(s) \in ToSet(s)
           /\ IsInjective(s) => IsInjective(Tail(s)) /\ Head(s) \notin ToSet(Tail(s))
  BY DEF ToSet, IsInjective

\* The first of a sequence, and what is left of it.
LEMMA RwHeadTail ==
    ASSUME NEW S, NEW s \in Seq(S), s # <<>>
    PROVE  Head(s) \in S /\ Tail(s) \in Seq(S) /\ Len(Tail(s)) = Len(s) - 1 /\ Len(s) \in Nat
  OBVIOUS

\* A sequence made longer by what it does not hold.
LEMMA RwAppend ==
    ASSUME NEW S, NEW s \in Seq(S), NEW e \in S
    PROVE  /\ Append(s, e) \in Seq(S) /\ ToSet(Append(s, e)) = ToSet(s) \cup {e}
           /\ IsInjective(s) /\ e \notin ToSet(s) => IsInjective(Append(s, e))
  <1> DEFINE t == Append(s, e)
  <1>1. /\ t \in Seq(S) /\ Len(t) = Len(s) + 1 /\ t[Len(s) + 1] = e /\ DOMAIN t = 1 .. Len(s) + 1
        /\ \A i \in 1 .. Len(s) : t[i] = s[i]
    OBVIOUS
  <1>2. Len(s) \in Nat /\ DOMAIN s = 1 .. Len(s)
    OBVIOUS
  <1> HIDE DEF t
  <1>3. ToSet(t) \subseteq ToSet(s) \cup {e}
    BY <1>1, <1>2 DEF ToSet
  <1>4. e \in ToSet(t)
    <2>1. Len(s) + 1 \in DOMAIN t
      BY <1>1, <1>2
    <2> QED
      BY <2>1, <1>1 DEF ToSet
  <1>5. ASSUME NEW i \in DOMAIN s PROVE s[i] \in ToSet(t)
    <2>1. i \in DOMAIN t /\ t[i] = s[i]
      BY <1>1, <1>2
    <2> QED
      BY <2>1 DEF ToSet
  <1>6. ToSet(t) = ToSet(s) \cup {e}
    BY <1>3, <1>4, <1>5 DEF ToSet
  <1>7. ASSUME IsInjective(s), e \notin ToSet(s), NEW a \in DOMAIN t, NEW b \in DOMAIN t, t[a] = t[b]
        PROVE  a = b
    <2>1. \A i \in 1 .. Len(s) : s[i] # e
      BY <1>7, <1>2 DEF ToSet
    <2> QED
      BY <1>1, <1>2, <1>7, <2>1 DEF IsInjective
  <1>8. IsInjective(s) /\ e \notin ToSet(s) => IsInjective(t)
    BY <1>7 DEF IsInjective
  <1> QED
    BY <1>1, <1>6, <1>8 DEF t

\* A sequence without its i-th element: what follows moves up by one.
LEMMA RwRemoveAt ==
    ASSUME NEW S, NEW s \in Seq(S), NEW i \in 1 .. Len(s)
    PROVE  /\ RemoveAt(s, i) \in Seq(S) /\ Len(RemoveAt(s, i)) = Len(s) - 1
           /\ \A j \in 1 .. Len(s) - 1 : RemoveAt(s, i)[j] = IF j < i THEN s[j] ELSE s[j + 1]
  <1> DEFINE a == SubSeq(s, 1, i - 1)
             b == SubSeq(s, i + 1, Len(s))
  <1>1. Len(s) \in Nat
    OBVIOUS
  <1>2. a \in Seq(S) /\ Len(a) = i - 1 /\ \A j \in 1 .. i - 1 : a[j] = s[j]
    OBVIOUS
  <1>3. b \in Seq(S) /\ Len(b) = Len(s) - i /\ \A j \in 1 .. Len(s) - i : b[j] = s[i + j]
    OBVIOUS
  <1> HIDE DEF a, b
  <1> DEFINE t == a \o b
  <1>4. t \in Seq(S) /\ Len(t) = Len(s) - 1
    <2>1. t \in Seq(S) /\ Len(t) = Len(a) + Len(b)
      BY <1>2, <1>3, ConcatProperties
    <2> HIDE DEF t
    <2> QED
      BY <1>1, <1>2, <1>3, <2>1
  <1>5. ASSUME NEW j \in 1 .. Len(s) - 1
        PROVE  t[j] = IF j < i THEN s[j] ELSE s[j + 1]
    <2>1. t[j] = IF j <= Len(a) THEN a[j] ELSE b[j - Len(a)]
      <3>1. j \in 1 .. Len(a) + Len(b)
        BY <1>1, <1>2, <1>3
      <3> QED
        BY <1>2, <1>3, <3>1, ConcatProperties
    <2>0. j \in Nat /\ i \in Nat /\ j >= 1 /\ i >= 1
      BY <1>1
    <2> HIDE DEF t
    <2>2. CASE j < i
      BY <1>2, <2>0, <2>1, <2>2
    <2>3. CASE j >= i
      <3>1. j - Len(a) \in 1 .. Len(s) - i /\ i + (j - Len(a)) = j + 1
        BY <1>1, <1>2, <2>3
      <3> QED
        BY <1>1, <1>2, <1>3, <2>0, <2>1, <2>3, <3>1
    <2> QED
      BY <2>0, <2>2, <2>3
  <1> QED
    BY <1>4, <1>5 DEF RemoveAt, a, b

\* Of a sequence that holds nothing twice a removal takes the one it names.
LEMMA RwRemoveFirst ==
    ASSUME NEW S, NEW s \in Seq(S), NEW e, IsInjective(s)
    PROVE  /\ RemoveFirst(s, e) \in Seq(S) /\ IsInjective(RemoveFirst(s, e))
           /\ ToSet(RemoveFirst(s, e)) = ToSet(s) \ {e}
  <1>1. CASE ~ \E i \in 1 .. Len(s) : s[i] = e
    BY <1>1 DEF RemoveFirst, ToSet
  <1>2. CASE \E i \in 1 .. Len(s) : s[i] = e
    <2> DEFINE I == {i \in 1 .. Len(s) : s[i] = e}
               k == Min(I)
    <2>1. k \in I
      <3>1. I \subseteq Nat /\ I # {}
        BY <1>2
      <3>2. \E x \in I : \A y \in I : x <= y
        <4> HIDE DEF I
        <4> QED
          BY <3>1, LeastNat
      <3> HIDE DEF I
      <3> QED
        BY <3>2 DEF Min
    <2>2. RemoveFirst(s, e) = RemoveAt(s, k)
      BY <1>2 DEF RemoveFirst, SelectInSeq
    <2> HIDE DEF k
    <2>3. k \in 1 .. Len(s) /\ s[k] = e
      BY <2>1
    <2> DEFINE t == RemoveAt(s, k)
    <2>4. /\ t \in Seq(S) /\ Len(t) = Len(s) - 1
          /\ \A j \in 1 .. Len(s) - 1 : t[j] = IF j < k THEN s[j] ELSE s[j + 1]
      BY <2>3, RwRemoveAt
    <2> HIDE DEF t
    <2>5. IsInjective(t)
      <3> SUFFICES ASSUME NEW a \in DOMAIN t, NEW b \in DOMAIN t, t[a] = t[b]
                   PROVE  a = b
        BY DEF IsInjective
      <3>1. a \in 1 .. Len(s) - 1 /\ b \in 1 .. Len(s) - 1 /\ Len(s) \in Nat /\ DOMAIN s = 1 .. Len(s)
        BY <2>4
      <3> DEFINE up(x) == IF x < k THEN x ELSE x + 1
      <3>2. up(a) \in DOMAIN s /\ up(b) \in DOMAIN s /\ s[up(a)] = s[up(b)]
        BY <2>3, <2>4, <3>1
      <3>3. up(a) = up(b)
        <4> HIDE DEF up
        <4> QED
          BY <3>2 DEF IsInjective
      <3> QED
        BY <2>3, <3>1, <3>3
    <2>6. ToSet(t) \subseteq ToSet(s) \ {e}
      BY <2>3, <2>4 DEF IsInjective, ToSet
    <2>7. ASSUME NEW j \in 1 .. Len(s), s[j] # e
          PROVE  s[j] \in ToSet(t)
      <3>1. CASE j < k
        <4>1. j \in DOMAIN t /\ t[j] = s[j]
          BY <2>3, <2>4, <3>1
        <4> QED
          BY <4>1 DEF ToSet
      <3>2. CASE j > k
        <4>1. j - 1 \in DOMAIN t /\ t[j - 1] = s[j]
          BY <2>3, <2>4, <3>2
        <4> QED
          BY <4>1 DEF ToSet
      <3> QED
        BY <2>3, <2>7, <3>1, <3>2
    <2>8. ToSet(s) \ {e} \subseteq ToSet(t)
      BY <2>7 DEF ToSet
    <2> QED
      BY <2>2, <2>4, <2>5, <2>6, <2>8 DEF t
  <1> QED
    BY <1>1, <1>2

\* The types of the fields of a row.
RwDoc == RwDocs \cup {RwNone}
RwSources == {RwHit[d].source : d \in RwDocs}
RwTypes == {openwith_mime_for_hit(RwHit[d]) : d \in RwDocs} \cup {RwNone}
RwMenus == {menu_for_key(k) : k \in RwSources} \cup {{}}

RwSlotShape ==
    [item : RwDoc, doc : RwDoc, key : RwSources \cup {RwNone}, mime : RwTypes, shown : RwDoc, tip : RwDoc,
     caption : BOOLEAN, section : RwMenus, openwith : BOOLEAN, apps : RwTypes, secondary : BOOLEAN, hero : BOOLEAN]

\* The menu of a row is that of the source it was built for, and its submenu
\* that of the type it was filled for.
RwKeyTrue(s) ==
    s.key # RwNone =>
        /\ s.section = menu_for_key(s.key) /\ s.openwith = menu_openwith_label(s.key)
        /\ s.openwith => s.apps = s.mime

\* Nothing of a row that shows no item says of which document it was.
RwInert(s) == s.item = RwNone => s.doc = RwNone /\ s.tip = RwNone

\* A row is what its hit says it is.
RwDressed(s, top) ==
    s.item # RwNone =>
        /\ s.doc = s.item /\ s.shown = s.item
        /\ s.tip = (IF RwHit[s.item].path THEN s.item ELSE RwNone)
        /\ s.hero = (s.item = top) /\ s.caption = s.hero
        /\ s.section = menu_for_key(RwHit[s.item].source)
        /\ s.openwith = menu_openwith_label(RwHit[s.item].source)
        /\ s.openwith => s.apps = openwith_mime_for_hit(RwHit[s.item])
        /\ s.secondary = (menu_has_conditional_secondary(RwHit[s.item].source) => RwHit[s.item].secondary)

\* A row that lost its item.
RwUnbound(s) == ItemCleared([Undressed(s) EXCEPT !.item = RwNone])

\* A row that shows a document.
RwBound(s, d) == apply_top_hit_styling(ItemSet([Undressed(s) EXCEPT !.item = d], d), d)

\* A row the factory lets go of is typed and answers for nothing.
LEMMA RwUnbinds ==
    ASSUME NEW s \in RwSlotShape
    PROVE  /\ RwUnbound(s) \in RwSlotShape /\ RwUnbound(s).item = RwNone /\ RwUnbound(s).doc = RwNone
           /\ RwUnbound(s).tip = RwNone /\ RwUnbound(s).key = RwNone
  BY DEF RwUnbound, ItemCleared, Undressed, RwSlotShape, RwDoc

\* What the notification of an item does to the menu and the submenu.
LEMMA RwMenusTrue ==
    ASSUME NEW s \in RwSlotShape, RwKeyTrue(s), NEW d \in RwDocs,
           NEW t, t = populate_openwith(MenuSwapped(s, RwHit[d]), RwHit[d])
    PROVE  /\ t \in RwSlotShape /\ t.item = s.item /\ t.doc = s.doc
           /\ t.section = menu_for_key(RwHit[d].source)
           /\ t.openwith = menu_openwith_label(RwHit[d].source)
           /\ t.openwith => t.apps = t.mime /\ t.mime = openwith_mime_for_hit(RwHit[d])
  <1> DEFINE h == RwHit[d]
             m == MenuSwapped(s, h)
             mime == openwith_mime_for_hit(h)
  <1>1. h.source \in RwSources /\ mime \in RwTypes /\ h.source # RwNone /\ menu_for_key(h.source) \in RwMenus
    BY RwAssumption DEF RwSources, RwTypes, RwMenus
  <1>2. menu_openwith_label(h.source) \in BOOLEAN /\ (menu_openwith_label(h.source) => mime # RwNone)
    BY RwAssumption DEF menu_openwith_label
  <1>3. RwNone \in RwTypes
    BY DEF RwTypes
  <1> HIDE DEF mime
  <1>4. t = IF menu_openwith_label(h.source) /\ mime # m.mime THEN [m EXCEPT !.apps = mime, !.mime = mime] ELSE m
    BY DEF populate_openwith, mime
  <1> HIDE DEF h
  <1>5. /\ m \in RwSlotShape /\ m.item = s.item /\ m.doc = s.doc
        /\ m.section = menu_for_key(h.source) /\ m.openwith = menu_openwith_label(h.source)
        /\ m.mime = RwNone \/ (m.openwith => m.apps = m.mime)
    <2>1. CASE s.key = h.source
      BY <2>1, <1>1 DEF MenuSwapped, RwKeyTrue
    <2>2. CASE s.key # h.source
      BY <2>2, <1>1, <1>2, <1>3 DEF MenuSwapped, RwSlotShape
    <2> QED
      BY <2>1, <2>2
  <1> HIDE DEF m
  <1>6. CASE menu_openwith_label(h.source) /\ mime # m.mime
    BY <1>1, <1>2, <1>4, <1>5, <1>6 DEF RwSlotShape, h, mime
  <1>7. CASE ~ (menu_openwith_label(h.source) /\ mime # m.mime)
    BY <1>1, <1>2, <1>4, <1>5, <1>7 DEF h, mime
  <1> QED
    BY <1>6, <1>7

\* A row bound to a document of the cached hits is what that hit says; bound
\* to another it stays what it was.
LEMMA RwBinds ==
    ASSUME NEW s \in RwSlotShape, RwKeyTrue(s), NEW d \in RwDocs,
           NEW u, u = RwBound(s, d)
    PROVE  /\ u \in RwSlotShape /\ u.item = d /\ RwKeyTrue(u)
           /\ d \in rwList.hits => RwDressed(u, rwList.top)
           /\ d \notin rwList.hits => u.doc = s.doc
  <1> DEFINE h == RwHit[d]
             s0 == [Undressed(s) EXCEPT !.item = d]
             t == populate_openwith(MenuSwapped(s0, h), h)
             x == ItemSet(s0, d)
  <1>1. s0 \in RwSlotShape /\ s0.item = d /\ s0.doc = s.doc /\ RwKeyTrue(s0)
    BY DEF Undressed, RwSlotShape, RwDoc, RwKeyTrue
  <1>2. /\ t \in RwSlotShape /\ t.item = d /\ t.doc = s.doc
        /\ t.section = menu_for_key(h.source) /\ t.openwith = menu_openwith_label(h.source)
        /\ t.openwith => t.apps = t.mime /\ t.mime = openwith_mime_for_hit(h)
    <2> HIDE DEF s0
    <2> QED
      BY <1>1, RwMenusTrue
  <1>3. d # RwNone /\ h.source \in RwSources /\ h.source # RwNone /\ h.path \in BOOLEAN /\ h.secondary \in BOOLEAN
    BY RwAssumption DEF RwSources
  <1>4. menu_has_conditional_secondary(h.source) \in BOOLEAN
    BY RwAssumption DEF menu_has_conditional_secondary
  <1>5. u = [x EXCEPT !.hero = (d = rwList.top)]
    BY DEF RwBound, apply_top_hit_styling
  <1>6. CASE d \notin rwList.hits
    <2>1. x = s0
      BY <1>6 DEF ItemSet
    <2> HIDE DEF x, s0
    <2> QED
      BY <1>1, <1>5, <1>6, <2>1 DEF RwSlotShape, RwKeyTrue
  <1>7. CASE d \in rwList.hits
    <2> DEFINE tip == IF h.path THEN d ELSE RwNone
               cap == (d = rwList.top)
               sec == (menu_has_conditional_secondary(h.source) => h.secondary)
               key == h.source
    <2>1. x = [t EXCEPT !.shown = d, !.tip = tip, !.caption = cap, !.secondary = sec, !.doc = d, !.key = key]
      BY <1>7 DEF ItemSet
    <2>2. tip \in RwDoc /\ cap \in BOOLEAN /\ sec \in BOOLEAN /\ d \in RwDoc /\ key \in RwSources \cup {RwNone}
      BY <1>3, <1>4 DEF RwDoc
    <2> HIDE DEF x, t, s0, tip, cap, sec, key
    <2>3. /\ x \in RwSlotShape /\ x.item = d /\ x.doc = d /\ x.shown = d /\ x.tip = tip
          /\ x.key = key /\ x.section = t.section /\ x.openwith = t.openwith
          /\ x.apps = t.apps /\ x.mime = t.mime
      BY <1>2, <2>1, <2>2 DEF RwSlotShape
    <2>4. x.caption = cap /\ x.secondary = sec
      BY <1>2, <2>1 DEF RwSlotShape
    <2>5. /\ u \in RwSlotShape /\ u.item = d /\ u.doc = d /\ u.shown = d /\ u.tip = tip
          /\ u.key = key /\ u.section = t.section /\ u.openwith = t.openwith
          /\ u.apps = t.apps /\ u.mime = t.mime
      BY <1>5, <2>3 DEF RwSlotShape
    <2>6. u.caption = cap /\ u.secondary = sec /\ u.hero = cap
      BY <1>5, <2>3, <2>4 DEF RwSlotShape, cap
    <2>7. RwKeyTrue(u)
      BY <1>2, <1>3, <2>5 DEF RwKeyTrue, key
    <2>8. RwDressed(u, rwList.top)
      BY <1>2, <1>3, <2>5, <2>6 DEF RwDressed, tip, cap, sec, key
    <2> QED
      BY <1>7, <2>5, <2>7, <2>8
  <1> QED
    BY <1>6, <1>7

\* The types of the list and of its popovers.
RwTops == RwDoc \cup {a.top : a \in RwAnswers}
RwListShape ==
    [model : Seq(RwDocs), hits : SUBSET RwDocs, top : RwTops, left : Seq(RwDocs), next : RwTops,
     doing : {RwNone, "update", "append", "clear", "scrub"}, answers : 0 .. RwMaxAnswers]
RwPopoverShape == [mapped : SUBSET (RwRows \X {"info", "menu"}), open : Nat]

\* The list holds no document twice, nor one it is still to hold.  Until its
\* hits are dropped ahead of the rows, each of its documents is a cached hit.
RwListInv ==
    /\ rwList \in RwListShape
    /\ IsInjective(rwList.model) /\ IsInjective(rwList.left)
    /\ rwList.doing = "clear" => rwList.hits = {}
    /\ rwList.doing # "clear" => ToSet(rwList.model) \subseteq rwList.hits
    /\ rwList.doing = "append" =>
            ToSet(rwList.left) \subseteq rwList.hits /\ ToSet(rwList.model) \cap ToSet(rwList.left) = {}

\* The registry is the inverse of the documents of the rows.
RwSlotInv ==
    /\ rwSlot \in [RwRows -> RwSlotShape] /\ rwRegistry \in [RwDocs -> RwRows \cup {RwNone}]
    /\ \A r \in RwRows : RwKeyTrue(rwSlot[r]) /\ RwInert(rwSlot[r])
    /\ \A d \in RwDocs, r \in RwRows : rwRegistry[d] = r <=> rwSlot[r].doc = d

\* A row shows what its document says, until the hits are dropped.
RwDressedInv ==
    rwList.doing # "clear" => \A r \in RwRows : RwDressed(rwSlot[r], rwList.top)

\* The popover that counts is the number of popovers on the screen.
RwPopoverInv ==
    /\ rwPopovers \in RwPopoverShape /\ IsFiniteSet(rwPopovers.mapped)
    /\ rwPopovers.open = Cardinality(rwPopovers.mapped)

\* The invariant of the rows.
RwRowsInv == RwListInv /\ RwSlotInv /\ RwDressedInv /\ RwPopoverInv

\* A row bound while the list is not being cleared answers for its item.
LEMMA RwDocIsItem ==
    ASSUME RwRowsInv, NEW r \in RwRows, rwList.doing # "clear"
    PROVE  rwSlot[r].doc = rwSlot[r].item
  BY DEF RwRowsInv, RwSlotInv, RwDressedInv, RwDressed, RwInert

\* The factory's unbind: the row leaves the registry with its document.
LEMMA RwUnbindStep ==
    ASSUME RwRowsInv, NEW r \in RwRows, GtkUnbinds(r)
    PROVE  RwRowsInv'
  <1>1. rwSlot' = [rwSlot EXCEPT ![r] = RwUnbound(@)]
    BY DEF GtkUnbinds, RwUnbound
  <1> DEFINE s == rwSlot[r]
             u == RwUnbound(s)
  <1>2. s \in RwSlotShape
    BY DEF RwRowsInv, RwSlotInv
  <1>3. u \in RwSlotShape /\ u.item = RwNone /\ u.doc = RwNone /\ u.tip = RwNone /\ u.key = RwNone
    BY <1>2, RwUnbinds
  <1> HIDE DEF u
  <1>4. /\ rwSlot' \in [RwRows -> RwSlotShape] /\ rwSlot'[r] = u
        /\ \A q \in RwRows \ {r} : rwSlot'[q] = rwSlot[q]
    BY <1>1, <1>3 DEF RwRowsInv, RwSlotInv, u
  <1>5. RwNone \notin RwRows /\ RwNone \notin RwDocs
    BY RwAssumption
  <1>6. /\ rwRegistry' \in [RwDocs -> RwRows \cup {RwNone}]
        /\ \A d \in RwDocs : rwRegistry'[d] = IF d = s.doc THEN RwNone ELSE rwRegistry[d]
    BY <1>5 DEF GtkUnbinds, Answers, RwRowsInv, RwSlotInv
  <1>7. \A q \in RwRows : RwKeyTrue(rwSlot[q])' /\ RwInert(rwSlot[q])'
    BY <1>3, <1>4 DEF RwKeyTrue, RwInert, RwRowsInv, RwSlotInv
  <1>8. \A d \in RwDocs, q \in RwRows : (rwRegistry[d] = q <=> rwSlot[q].doc = d)'
    BY <1>3, <1>4, <1>5, <1>6 DEF RwRowsInv, RwSlotInv
  <1>9. RwSlotInv'
    BY <1>4, <1>6, <1>7, <1>8 DEF RwSlotInv
  <1>10. RwListInv'
    BY DEF GtkUnbinds, RwRowsInv, RwListInv
  <1>11. RwDressedInv'
    <2>1. rwList' = rwList
      BY DEF GtkUnbinds
    <2> QED
      BY <2>1, <1>3, <1>4 DEF RwDressedInv, RwDressed, RwRowsInv
  <1>12. RwPopoverInv'
    BY DEF GtkUnbinds, RwRowsInv, RwPopoverInv
  <1> QED
    BY <1>9, <1>10, <1>11, <1>12 DEF RwRowsInv

\* The factory's bind: a row that is recycled answers for the new document
\* and no longer for the old one.
LEMMA RwBindStep ==
    ASSUME RwRowsInv, NEW r \in RwRows, GtkBinds(r)
    PROVE  RwRowsInv'
  <1>1. PICK d \in ToSet(rwList.model) \ Items :
            /\ rwSlot' = [rwSlot EXCEPT ![r] = RwBound(rwSlot[r], d)]
            /\ rwRegistry' = IF d \in rwList.hits THEN Answers(rwRegistry, r, rwSlot[r].doc, d) ELSE rwRegistry
            /\ UNCHANGED <<rwList, rwPopovers>>
    BY DEF GtkBinds, RwBound
  <1>2. d \in RwDocs /\ d # RwNone /\ RwNone \notin RwRows
    BY RwAssumption DEF RwRowsInv, RwListInv, RwListShape, ToSet
  <1> DEFINE s == rwSlot[r]
             u == RwBound(s, d)
  <1>3. s \in RwSlotShape /\ RwKeyTrue(s)
    BY DEF RwRowsInv, RwSlotInv
  <1>4. /\ u \in RwSlotShape /\ u.item = d /\ RwKeyTrue(u)
        /\ d \in rwList.hits => RwDressed(u, rwList.top)
        /\ d \notin rwList.hits => u.doc = s.doc
    BY <1>2, <1>3, RwBinds
  <1>5. rwSlot' = [rwSlot EXCEPT ![r] = u]
    BY <1>1
  <1> HIDE DEF u
  <1>6. /\ rwSlot' \in [RwRows -> RwSlotShape] /\ rwSlot'[r] = u
        /\ \A q \in RwRows \ {r} : rwSlot'[q] = rwSlot[q]
    BY <1>4, <1>5 DEF RwRowsInv, RwSlotInv
  <1>7. \A q \in RwRows : RwKeyTrue(rwSlot'[q]) /\ RwInert(rwSlot'[q])
    BY <1>2, <1>4, <1>6 DEF RwInert, RwRowsInv, RwSlotInv
  <1>8. RwListInv' /\ RwPopoverInv' /\ rwList' = rwList
    BY <1>1 DEF RwRowsInv, RwListInv, RwPopoverInv
  <1>9. RwSlotInv' /\ RwDressedInv'
    <2>1. CASE d \in rwList.hits
      <3>1. rwList.doing # "clear"
        BY <2>1 DEF RwRowsInv, RwListInv
      <3>2. \A q \in RwRows : rwSlot[q].doc # d
        BY <3>1, <1>1, <1>2, RwDocIsItem DEF Items
      <3>3. u.doc = d
        BY <1>2, <1>4, <2>1 DEF RwDressed
      <3>4. /\ rwRegistry' \in [RwDocs -> RwRows \cup {RwNone}]
            /\ \A e \in RwDocs : rwRegistry'[e] = IF e = d THEN r ELSE IF e = s.doc THEN RwNone ELSE rwRegistry[e]
        BY <1>1, <2>1 DEF Answers, RwRowsInv, RwSlotInv
      <3>5. \A e \in RwDocs, q \in RwRows : rwRegistry'[e] = q <=> rwSlot'[q].doc = e
        BY <1>2, <1>6, <3>2, <3>3, <3>4 DEF RwRowsInv, RwSlotInv
      <3>6. RwSlotInv'
        BY <1>6, <1>7, <3>4, <3>5 DEF RwSlotInv
      <3>7. \A q \in RwRows : RwDressed(rwSlot'[q], rwList.top)
        BY <1>4, <1>6, <2>1, <3>1 DEF RwRowsInv, RwDressedInv
      <3>8. RwDressedInv'
        BY <1>8, <3>7 DEF RwDressedInv
      <3> QED
        BY <3>6, <3>8
    <2>2. CASE d \notin rwList.hits
      <3>1. rwList.doing = "clear"
        BY <1>1, <2>2 DEF RwRowsInv, RwListInv
      <3>2. rwRegistry' = rwRegistry /\ u.doc = s.doc
        BY <1>1, <1>4, <2>2
      <3>3. \A e \in RwDocs, q \in RwRows : rwRegistry'[e] = q <=> rwSlot'[q].doc = e
        BY <1>6, <3>2 DEF RwRowsInv, RwSlotInv
      <3>4. RwSlotInv'
        BY <1>6, <1>7, <3>2, <3>3 DEF RwSlotInv, RwRowsInv
      <3>5. RwDressedInv'
        BY <1>8, <3>1 DEF RwDressedInv
      <3> QED
        BY <3>4, <3>5
    <2> QED
      BY <2>1, <2>2
  <1> QED
    BY <1>8, <1>9 DEF RwRowsInv

\* What is left to show of a step that changes the list alone.
LEMMA RwOnlyTheList ==
    ASSUME RwRowsInv, UNCHANGED <<rwSlot, rwRegistry, rwPopovers>>, RwListInv', RwDressedInv'
    PROVE  RwRowsInv'
  <1>1. RwSlotInv' /\ RwPopoverInv'
    BY DEF RwRowsInv, RwSlotInv, RwPopoverInv
  <1> QED
    BY <1>1 DEF RwRowsInv

\* A row that shows no item is dressed, whatever the top hit is.
LEMMA RwNothingShown ==
    ASSUME RwRowsInv, Settled, rwList.model = <<>>
    PROVE  \A r \in RwRows : rwSlot[r].item = RwNone
  <1>1. ToSet(rwList.model) = {}
    BY DEF ToSet
  <1> QED
    BY <1>1 DEF Settled, Items

\* What changes the list: an answer, more of it, an empty entry, a hidden row.
LEMMA RwListSteps ==
    ASSUME RwRowsInv,
           update_results \/ EntryEmptied \/ RemoveRow \/ cache_hits \/ AppendNext
             \/ \E r \in RwRows : row_hide(r) \/ double_click(r)
    PROVE  RwRowsInv'
  <1>0. /\ rwList \in RwListShape
        /\ IsInjective(rwList.model) /\ IsInjective(rwList.left)
        /\ \A r \in RwRows : rwSlot[r].item # RwNone \/ TRUE
    BY DEF RwRowsInv, RwListInv
  <1>1. RwNone \in RwTops /\ RwNone # "clear" /\ RwNone # "append" /\ RwNone # "update" /\ RwNone # "scrub"
    BY DEF RwTops, RwDoc, RwNone
  <1>2. CASE update_results
    <2>1. PICK a \in RwAnswers :
            /\ RwIdle /\ rwList.answers < RwMaxAnswers
            /\ rwList' = [rwList EXCEPT !.doing = "update", !.left = a.docs, !.next = a.top, !.answers = @ + 1]
            /\ UNCHANGED <<rwSlot, rwRegistry, rwPopovers>>
      BY <1>2 DEF update_results
    <2>2. a.docs \in Seq(RwDocs) /\ IsInjective(a.docs) /\ a.top \in RwTops /\ RwMaxAnswers \in Nat
      BY RwAssumption DEF RwTops
    <2> DEFINE docs == a.docs
               top == a.top
               n == rwList.answers + 1
    <2>3. rwList' = [rwList EXCEPT !.doing = "update", !.left = docs, !.next = top, !.answers = n]
      BY <2>1
    <2>8. n \in 0 .. RwMaxAnswers
      BY <1>0, <2>1, <2>2 DEF RwListShape
    <2> HIDE DEF docs, top, n
    <2>4. /\ rwList' \in RwListShape /\ rwList'.doing = "update" /\ rwList'.left = docs
          /\ rwList'.model = rwList.model /\ rwList'.hits = rwList.hits /\ rwList'.top = rwList.top
      BY <1>0, <2>2, <2>3, <2>8 DEF RwListShape, docs, top
    <2>5. rwList.doing = RwNone
      BY <2>1 DEF RwIdle
    <2>6. RwListInv'
      BY <1>0, <1>1, <2>2, <2>4, <2>5 DEF RwRowsInv, RwListInv, docs
    <2>7. RwDressedInv'
      BY <1>1, <2>1, <2>4, <2>5 DEF RwRowsInv, RwDressedInv
    <2> QED
      BY <2>1, <2>6, <2>7, RwOnlyTheList
  <1>3. CASE EntryEmptied
    <2>1. /\ rwList' = [rwList EXCEPT !.doing = "clear", !.hits = {}, !.top = RwNone]
          /\ UNCHANGED <<rwSlot, rwRegistry, rwPopovers>>
      BY <1>3 DEF EntryEmptied
    <2>2. /\ rwList' \in RwListShape /\ rwList'.doing = "clear" /\ rwList'.left = rwList.left
          /\ rwList'.model = rwList.model /\ rwList'.hits = {}
      BY <1>0, <1>1, <2>1 DEF RwListShape
    <2>3. RwListInv' /\ RwDressedInv'
      BY <1>0, <2>2 DEF RwListInv, RwDressedInv
    <2> QED
      BY <2>1, <2>3, RwOnlyTheList
  <1>4. CASE RemoveRow
    <2>1. /\ rwList.doing # "append" /\ rwList.model # <<>>
          /\ rwList' = [rwList EXCEPT !.model = Tail(rwList.model)]
          /\ UNCHANGED <<rwSlot, rwRegistry, rwPopovers>>
      BY <1>4 DEF RemoveRow
    <2> DEFINE m == Tail(rwList.model)
    <2>2. m \in Seq(RwDocs) /\ IsInjective(m) /\ ToSet(m) \subseteq ToSet(rwList.model)
      <3>1. rwList.model \in Seq(RwDocs)
        BY <1>0 DEF RwListShape
      <3> QED
        BY <1>0, <2>1, <3>1, RwTail
    <2> HIDE DEF m
    <2>3. /\ rwList' \in RwListShape /\ rwList'.doing = rwList.doing /\ rwList'.left = rwList.left
          /\ rwList'.model = m /\ rwList'.hits = rwList.hits /\ rwList'.top = rwList.top
      BY <1>0, <2>1, <2>2 DEF RwListShape, m
    <2>4. RwListInv'
      BY <1>0, <2>1, <2>2, <2>3 DEF RwRowsInv, RwListInv
    <2>5. RwDressedInv'
      BY <2>1, <2>3 DEF RwRowsInv, RwDressedInv
    <2> QED
      BY <2>1, <2>4, <2>5, RwOnlyTheList
  <1>5. CASE cache_hits
    <2>1. /\ Settled /\ rwList.model = <<>> /\ rwList' = RowsGone(rwList)
          /\ UNCHANGED <<rwSlot, rwRegistry, rwPopovers>>
      BY <1>5 DEF cache_hits
    <2>2. \A r \in RwRows : rwSlot[r].item = RwNone
      BY <2>1, RwNothingShown
    <2>3. RwDressedInv'
      BY <2>1, <2>2 DEF RwDressedInv, RwDressed
    <2>4. ToSet(rwList.model) = {} /\ ToSet(rwList.left) \subseteq RwDocs
      <3>1. rwList.left \in Seq(RwDocs)
        BY <1>0 DEF RwListShape
      <3> QED
        BY <2>1, <3>1 DEF ToSet
    <2>5. RwListInv'
      <3>1. CASE rwList.doing # "update"
        <4>1. rwList' = [rwList EXCEPT !.doing = RwNone, !.hits = {}, !.top = RwNone]
          BY <2>1, <3>1 DEF RowsGone
        <4>2. /\ rwList' \in RwListShape /\ rwList'.doing = RwNone /\ rwList'.left = rwList.left
              /\ rwList'.model = rwList.model /\ rwList'.hits = {}
          BY <1>0, <1>1, <4>1 DEF RwListShape
        <4> QED
          BY <1>0, <1>1, <2>4, <4>2 DEF RwListInv
      <3>2. CASE rwList.doing = "update"
        <4> DEFINE hits == ToSet(rwList.left)
                   next == rwList.next
        <4>1. rwList' = [rwList EXCEPT !.doing = "append", !.hits = hits, !.next = RwNone, !.top = next]
          BY <2>1, <3>2 DEF RowsGone
        <4>2. next \in RwTops
          BY <1>0 DEF RwListShape
        <4> HIDE DEF hits, next
        <4>3. /\ rwList' \in RwListShape /\ rwList'.doing = "append" /\ rwList'.left = rwList.left
              /\ rwList'.model = rwList.model /\ rwList'.hits = hits
          BY <1>0, <1>1, <2>4, <4>1, <4>2 DEF RwListShape, hits
        <4> QED
          BY <1>0, <1>1, <2>4, <4>3 DEF RwListInv, hits
      <3> QED
        BY <3>1, <3>2
    <2> QED
      BY <2>1, <2>3, <2>5, RwOnlyTheList
  <1>6. CASE AppendNext
    <2>0. /\ rwList.doing = "append" /\ UNCHANGED <<rwSlot, rwRegistry, rwPopovers>>
          /\ rwList' = IF rwList.left = <<>> THEN [rwList EXCEPT !.doing = RwNone]
                       ELSE [rwList EXCEPT !.model = Append(rwList.model, Head(rwList.left)), !.left = Tail(rwList.left)]
      BY <1>6 DEF AppendNext
    <2>1. CASE rwList.left = <<>>
      <3>1. /\ rwList' \in RwListShape /\ rwList'.doing = RwNone /\ rwList'.left = rwList.left
            /\ rwList'.model = rwList.model /\ rwList'.hits = rwList.hits /\ rwList'.top = rwList.top
        BY <1>0, <2>0, <2>1 DEF RwListShape
      <3>2. RwListInv' /\ RwDressedInv'
        BY <1>0, <1>1, <2>0, <3>1 DEF RwRowsInv, RwListInv, RwDressedInv
      <3> QED
        BY <2>0, <3>2, RwOnlyTheList
    <2>2. CASE rwList.left # <<>>
      <3> DEFINE e == Head(rwList.left)
                 m == Append(rwList.model, e)
                 l == Tail(rwList.left)
      <3>1. rwList.left \in Seq(RwDocs) /\ rwList.model \in Seq(RwDocs)
        BY <1>0 DEF RwListShape
      <3>2. /\ l \in Seq(RwDocs) /\ ToSet(l) \subseteq ToSet(rwList.left) /\ e \in ToSet(rwList.left)
            /\ IsInjective(l) /\ e \notin ToSet(l)
        BY <1>0, <2>2, <3>1, RwTail
      <3>3. /\ ToSet(rwList.left) \subseteq rwList.hits /\ ToSet(rwList.model) \cap ToSet(rwList.left) = {}
            /\ ToSet(rwList.model) \subseteq rwList.hits
        BY <2>0 DEF RwRowsInv, RwListInv
      <3>4. e \in RwDocs
        BY <3>1, <3>2 DEF ToSet
      <3>5. rwList' = [rwList EXCEPT !.model = m, !.left = l]
        BY <2>0, <2>2
      <3> HIDE DEF e, l
      <3>6. m \in Seq(RwDocs) /\ ToSet(m) = ToSet(rwList.model) \cup {e} /\ IsInjective(m)
        BY <1>0, <3>1, <3>2, <3>3, <3>4, RwAppend
      <3> HIDE DEF m
      <3>7. /\ rwList' \in RwListShape /\ rwList'.doing = rwList.doing /\ rwList'.left = l
            /\ rwList'.model = m /\ rwList'.hits = rwList.hits /\ rwList'.top = rwList.top
        BY <1>0, <3>2, <3>5, <3>6 DEF RwListShape
      <3>8. RwListInv'
        BY <2>0, <3>2, <3>3, <3>6, <3>7 DEF RwListInv
      <3>9. RwDressedInv'
        BY <2>0, <3>7 DEF RwRowsInv, RwDressedInv
      <3> QED
        BY <2>0, <3>8, <3>9, RwOnlyTheList
    <2> QED
      BY <2>1, <2>2
  <1>7. ASSUME NEW r \in RwRows, row_hide(r)
        PROVE  RwRowsInv'
    <2> DEFINE d == rwSlot[r].doc
               m == RemoveFirst(rwList.model, d)
    <2>1. /\ rwList.doing = RwNone /\ rwList' = [rwList EXCEPT !.model = m, !.hits = @ \ {d}]
          /\ UNCHANGED <<rwSlot, rwRegistry, rwPopovers>>
      BY <1>7 DEF row_hide, RwIdle
    <2>2. rwList.model \in Seq(RwDocs)
      BY <1>0 DEF RwListShape
    <2> HIDE DEF d
    <2>3. m \in Seq(RwDocs) /\ IsInjective(m) /\ ToSet(m) = ToSet(rwList.model) \ {d}
      BY <1>0, <2>2, RwRemoveFirst
    <2> HIDE DEF m
    <2>4. /\ rwList' \in RwListShape /\ rwList'.doing = rwList.doing /\ rwList'.left = rwList.left
          /\ rwList'.model = m /\ rwList'.hits = rwList.hits \ {d} /\ rwList'.top = rwList.top
      BY <1>0, <2>1, <2>3 DEF RwListShape
    <2>5. RwListInv'
      BY <1>0, <1>1, <2>1, <2>3, <2>4 DEF RwRowsInv, RwListInv
    <2>6. RwDressedInv'
      BY <2>1, <2>4 DEF RwRowsInv, RwDressedInv
    <2> QED
      BY <2>1, <2>5, <2>6, RwOnlyTheList
  <1>8. ASSUME NEW r \in RwRows, double_click(r)
        PROVE  RwRowsInv'
    <2>1. /\ rwList.doing = RwNone /\ rwList' = [rwList EXCEPT !.doing = "scrub"]
          /\ UNCHANGED <<rwSlot, rwRegistry, rwPopovers>>
      BY <1>8 DEF double_click, RwIdle
    <2>2. /\ rwList' \in RwListShape /\ rwList'.doing = "scrub" /\ rwList'.left = rwList.left
          /\ rwList'.model = rwList.model /\ rwList'.hits = rwList.hits /\ rwList'.top = rwList.top
      BY <1>0, <2>1 DEF RwListShape
    <2>3. RwListInv' /\ RwDressedInv'
      BY <1>0, <1>1, <2>1, <2>2 DEF RwRowsInv, RwListInv, RwDressedInv
    <2> QED
      BY <2>1, <2>3, RwOnlyTheList
  <1> QED
    BY <1>2, <1>3, <1>4, <1>5, <1>6, <1>7, <1>8

\* The popovers of a row open and close.
LEMMA RwPopoverSteps ==
    ASSUME RwRowsInv, PopoverCloses \/ \E r \in RwRows : row_info(r) \/ row_menu(r)
    PROVE  RwRowsInv'
  <1>1. /\ rwPopovers \in RwPopoverShape /\ IsFiniteSet(rwPopovers.mapped)
        /\ rwPopovers.open = Cardinality(rwPopovers.mapped)
    BY DEF RwRowsInv, RwPopoverInv
  <1>2. rwPopovers.mapped \subseteq RwRows \X {"info", "menu"}
    BY <1>1 DEF RwPopoverShape
  <1>3. /\ UNCHANGED <<rwList, rwSlot, rwRegistry>>
        /\ \E p \in RwRows \X {"info", "menu"} :
              rwPopovers' = Mapped(p) \/ (p \in rwPopovers.mapped /\ rwPopovers' = PopoverUnmapped(p))
    BY <1>2 DEF PopoverCloses, row_info, row_menu
  <1>4. PICK p \in RwRows \X {"info", "menu"} :
              rwPopovers' = Mapped(p) \/ (p \in rwPopovers.mapped /\ rwPopovers' = PopoverUnmapped(p))
    BY <1>3
  <1>9. RwListInv' /\ RwSlotInv' /\ RwDressedInv'
    BY <1>3 DEF RwRowsInv, RwListInv, RwSlotInv, RwDressedInv
  <1> SUFFICES RwPopoverInv'
    BY <1>9 DEF RwRowsInv
  <1> DEFINE P == rwPopovers.mapped
  <1>5. CASE p \in P /\ rwPopovers' = Mapped(p)
    <2>1. rwPopovers' = rwPopovers
      BY <1>5 DEF Mapped
    <2> QED
      BY <2>1, <1>1 DEF RwPopoverInv
  <1>6. CASE p \notin P /\ rwPopovers' = Mapped(p)
    <2> DEFINE Q == P \cup {p}
    <2>1. rwPopovers' = [mapped |-> Q, open |-> rwPopovers.open + 1]
      BY <1>6 DEF Mapped
    <2>2. IsFiniteSet(Q) /\ Cardinality(Q) = Cardinality(P) + 1
      BY <1>1, <1>6, FS_AddElement
    <2>3. Q \in SUBSET (RwRows \X {"info", "menu"}) /\ rwPopovers.open \in Nat
      BY <1>1, <1>2 DEF RwPopoverShape
    <2> HIDE DEF Q
    <2> QED
      BY <1>1, <2>1, <2>2, <2>3 DEF RwPopoverInv, RwPopoverShape
  <1>7. CASE p \in P /\ rwPopovers' = PopoverUnmapped(p)
    <2> DEFINE Q == P \ {p}
               n == IF rwPopovers.open = 0 THEN 0 ELSE rwPopovers.open - 1
    <2>1. rwPopovers' = [mapped |-> Q, open |-> n]
      BY <1>7 DEF PopoverUnmapped
    <2>2. IsFiniteSet(Q) /\ Cardinality(Q) = Cardinality(P) - 1
      BY <1>1, <1>7, FS_RemoveElement
    <2>3. rwPopovers.open \in Nat /\ Cardinality(Q) \in Nat
      BY <1>1, <2>2, FS_CardinalityType DEF RwPopoverShape
    <2>4. n = Cardinality(Q) /\ n \in Nat
      <3> HIDE DEF Q, P
      <3> QED
        BY <1>1, <2>2, <2>3 DEF P
    <2>5. Q \in SUBSET (RwRows \X {"info", "menu"})
      BY <1>2
    <2> HIDE DEF Q, n
    <2> QED
      BY <2>1, <2>2, <2>4, <2>5 DEF RwPopoverInv, RwPopoverShape
  <1> QED
    BY <1>4, <1>5, <1>6, <1>7

\* Every step of the rows keeps their invariant.
LEMMA RwRowsStep ==
    ASSUME RwRowsInv, RowsStep
    PROVE  RwRowsInv'
  BY RwUnbindStep, RwBindStep, RwListSteps, RwPopoverSteps DEF RowsStep

--------------------------------------------------------------------------------
\* The icons of applications: the cache, the queue and the one loader.
RwIconShape ==
    [texture : [DOMAIN RwIcons -> {"absent", "loaded", "bad"}], queue : Seq(DOMAIN RwIcons),
     loading : DOMAIN RwIcons \cup {RwNone}, ready : Seq(DOMAIN RwIcons), paintable : SUBSET (DOMAIN RwIcons),
     decoded : [DOMAIN RwIcons -> Nat]]

\* A file is decoded from the time it is taken from the queue, and then its
\* slot is filled for good: the one loader takes none whose slot is filled.
RwIconInv ==
    /\ rwIcon \in RwIconShape /\ Len(rwIcon.queue) <= RwMaxQueue
    /\ \A k \in DOMAIN RwIcons :
            /\ rwIcon.decoded[k] = IF rwIcon.texture[k] # "absent" \/ rwIcon.loading = k THEN 1 ELSE 0
            /\ rwIcon.loading = k => rwIcon.texture[k] = "absent"
            /\ k \in rwIcon.paintable => rwIcon.texture[k] = "loaded"

\* Every step of the icons keeps it.
LEMMA RwIconsStep ==
    ASSUME RwIconInv, IconsStep
    PROVE  RwIconInv'
  <1> DEFINE K == DOMAIN RwIcons
             ic == rwIcon
  <1>1. /\ ic \in RwIconShape /\ Len(ic.queue) <= RwMaxQueue /\ ic.texture \in [K -> {"absent", "loaded", "bad"}]
        /\ ic.queue \in Seq(K) /\ ic.loading \in K \cup {RwNone} /\ ic.ready \in Seq(K)
        /\ ic.paintable \subseteq K /\ ic.decoded \in [K -> Nat] /\ RwNone \notin K /\ RwMaxQueue \in Nat
    BY RwAssumption DEF RwIconInv, RwIconShape
  <1>2. ASSUME NEW k \in K, resolve_icon(k)
        PROVE  RwIconInv'
    <2>1. CASE ic.texture[k] = "loaded"
      <3> DEFINE p == ic.paintable \cup {k}
      <3>1. ic' = [ic EXCEPT !.paintable = p]
        BY <1>2, <2>1 DEF resolve_icon
      <3>2. p \subseteq K
        BY <1>1
      <3> HIDE DEF p
      <3>3. /\ ic' \in RwIconShape /\ ic'.texture = ic.texture /\ ic'.queue = ic.queue /\ ic'.loading = ic.loading
            /\ ic'.decoded = ic.decoded /\ ic'.paintable = p
        BY <1>1, <3>1, <3>2 DEF RwIconShape
      <3> QED
        BY <2>1, <3>3 DEF RwIconInv, p
    <2>2. CASE ic.texture[k] = "absent"
      <3> DEFINE q == Append(ic.queue, k)
      <3>1. ic' = [ic EXCEPT !.queue = q] /\ Len(ic.queue) < RwMaxQueue
        BY <1>2, <2>2 DEF resolve_icon, Asked
      <3>2. q \in Seq(K) /\ Len(q) = Len(ic.queue) + 1 /\ Len(ic.queue) \in Nat
        BY <1>1
      <3> HIDE DEF q
      <3>3. /\ ic' \in RwIconShape /\ ic'.texture = ic.texture /\ ic'.queue = q /\ ic'.loading = ic.loading
            /\ ic'.decoded = ic.decoded /\ ic'.paintable = ic.paintable
        BY <1>1, <3>1, <3>2 DEF RwIconShape
      <3>4. Len(ic'.queue) <= RwMaxQueue
        BY <1>1, <3>1, <3>2, <3>3
      <3> QED
        BY <3>3, <3>4 DEF RwIconInv
    <2>3. CASE ic.texture[k] = "bad"
      <3>1. ic' = ic
        BY <1>2, <2>3 DEF resolve_icon, Asked
      <3> QED
        BY <3>1 DEF RwIconInv
    <2> QED
      BY <1>1, <2>1, <2>2, <2>3
  <1>3. CASE icon_loader_takes
    <2> DEFINE k == Head(ic.queue)
               q == Tail(ic.queue)
               d == [ic.decoded EXCEPT ![k] = IF AlreadyThere(k) THEN @ ELSE @ + 1]
               l == IF AlreadyThere(k) THEN RwNone ELSE k
    <2>1. ic.loading = RwNone /\ ic.queue # <<>> /\ ic' = [ic EXCEPT !.queue = q, !.loading = l, !.decoded = d]
      BY <1>3 DEF icon_loader_takes
    <2>2. k \in K /\ q \in Seq(K) /\ Len(q) = Len(ic.queue) - 1 /\ Len(ic.queue) \in Nat
      <3> HIDE DEF d, l, K
      <3> QED
        BY <1>1, <2>1, RwHeadTail
    <2>3. d \in [K -> Nat] /\ l \in K \cup {RwNone}
      BY <1>1, <2>2
    <2>4. /\ AlreadyThere(k) <=> ic.texture[k] # "absent"
          /\ d[k] = (IF AlreadyThere(k) THEN ic.decoded[k] ELSE ic.decoded[k] + 1)
          /\ \A x \in K \ {k} : d[x] = ic.decoded[x]
          /\ l = IF AlreadyThere(k) THEN RwNone ELSE k
      BY <1>1, <2>2 DEF AlreadyThere
    <2> HIDE DEF k, q, d, l
    <2>5. /\ ic' \in RwIconShape /\ ic'.texture = ic.texture /\ ic'.queue = q /\ ic'.loading = l
          /\ ic'.decoded = d /\ ic'.paintable = ic.paintable
      BY <1>1, <2>1, <2>2, <2>3 DEF RwIconShape
    <2>6. Len(ic'.queue) <= RwMaxQueue
      BY <1>1, <2>2, <2>5
    <2>7. ASSUME NEW x \in K
          PROVE  /\ d[x] = IF ic.texture[x] # "absent" \/ l = x THEN 1 ELSE 0
                 /\ l = x => ic.texture[x] = "absent"
      BY <1>1, <2>1, <2>2, <2>4 DEF RwIconInv
    <2> QED
      BY <2>5, <2>6, <2>7 DEF RwIconInv
  <1>4. CASE icon_loader_stores
    <2> DEFINE k == ic.loading
               t == [ic.texture EXCEPT ![k] = IF RwIcons[k] THEN "loaded" ELSE "bad"]
               y == Append(ic.ready, k)
    <2>1. k # RwNone /\ ic' = [ic EXCEPT !.texture = t, !.loading = RwNone, !.ready = y]
      BY <1>4 DEF icon_loader_stores
    <2>2. k \in K /\ y \in Seq(K) /\ t \in [K -> {"absent", "loaded", "bad"}]
      BY <1>1, <2>1
    <2>3. t[k] # "absent" /\ \A x \in K \ {k} : t[x] = ic.texture[x]
      BY <1>1, <2>2
    <2> HIDE DEF t, y
    <2>4. /\ ic' \in RwIconShape /\ ic'.texture = t /\ ic'.queue = ic.queue /\ ic'.loading = RwNone
          /\ ic'.decoded = ic.decoded /\ ic'.paintable = ic.paintable
      BY <1>1, <2>1, <2>2 DEF RwIconShape
    <2>5. ASSUME NEW x \in K
          PROVE  /\ ic.decoded[x] = IF t[x] # "absent" THEN 1 ELSE 0
                 /\ x \in ic.paintable => t[x] = "loaded"
      BY <1>1, <2>2, <2>3 DEF RwIconInv
    <2> QED
      BY <1>1, <2>4, <2>5 DEF RwIconInv
  <1>5. CASE icon_ready
    <2> DEFINE y == Tail(ic.ready)
    <2>1. ic.ready # <<>> /\ ic' = [ic EXCEPT !.ready = y]
      BY <1>5 DEF icon_ready
    <2>3. y \in Seq(K)
      <3> HIDE DEF K
      <3> QED
        BY <1>1, <2>1, RwHeadTail
    <2> HIDE DEF y
    <2>2. /\ ic' \in RwIconShape /\ ic'.texture = ic.texture /\ ic'.queue = ic.queue /\ ic'.loading = ic.loading
          /\ ic'.decoded = ic.decoded /\ ic'.paintable = ic.paintable
      BY <1>1, <2>1, <2>3 DEF RwIconShape
    <2> QED
      BY <2>2 DEF RwIconInv
  <1> QED
    BY <1>2, <1>3, <1>4, <1>5 DEF IconsStep

--------------------------------------------------------------------------------
\* The status bar and the timers of its toasts.
RwShown == {RwNone, "spinner", "empty", "error", "hints", "toast"}
RwBarShape ==
    [epoch : Nat, content : RwShown, visible : BOOLEAN, timers : Seq(Nat), changes : 0 .. RwMaxShown,
     expired : {RwNone, "toast"}]

\* A timer of the present epoch is that of the toast that is shown.
RwBarInv ==
    /\ rwBar \in RwBarShape
    /\ \A i \in 1 .. Len(rwBar.timers) :
            /\ rwBar.timers[i] <= rwBar.epoch
            /\ rwBar.timers[i] = rwBar.epoch => rwBar.content = "toast"

\* Every step of the status bar keeps it.
LEMMA RwStatusStep ==
    ASSUME RwBarInv, StatusStep
    PROVE  RwBarInv'
  <1> DEFINE b == rwBar
             e == b.epoch + 1
             n == b.changes + 1
  <1>1. /\ b \in RwBarShape /\ b.epoch \in Nat /\ b.content \in RwShown /\ b.timers \in Seq(Nat)
        /\ b.changes \in 0 .. RwMaxShown /\ RwMaxShown \in Nat /\ b.visible \in BOOLEAN
    BY RwAssumption DEF RwBarInv, RwBarShape
  <1>2. e \in Nat /\ e > b.epoch /\ (b.changes < RwMaxShown => n \in 0 .. RwMaxShown)
    BY <1>1
  <1>3. ASSUME NEW what \in {"spinner", "empty", "error", "hints"}, status_show(what)
        PROVE  RwBarInv'
    <2>1. b.changes < RwMaxShown /\ b' = [[b EXCEPT !.epoch = e] EXCEPT !.content = what, !.visible = TRUE, !.changes = n]
      BY <1>1, <1>3 DEF status_show, StatusClear, RwBarShape
    <2> HIDE DEF e, n
    <2>2. /\ b' \in RwBarShape /\ b'.epoch = e /\ b'.timers = b.timers /\ b'.content = what
      BY <1>1, <1>2, <2>1 DEF RwBarShape, RwShown
    <2>3. \A i \in 1 .. Len(b.timers) : b.timers[i] \in Nat /\ b.timers[i] <= b.epoch
      BY <1>1 DEF RwBarInv
    <2>4. \A i \in 1 .. Len(b.timers) : b.timers[i] <= e /\ b.timers[i] # e
      BY <1>1, <1>2, <2>3
    <2> QED
      BY <2>2, <2>4 DEF RwBarInv
  <1>4. CASE show_toast
    <2> DEFINE t == Append(b.timers, e)
    <2>1. /\ b.changes < RwMaxShown
          /\ b' = [[b EXCEPT !.epoch = e] EXCEPT !.content = "toast", !.visible = TRUE, !.changes = n, !.timers = t]
      BY <1>1, <1>4 DEF show_toast, StatusClear, RwBarShape
    <2> HIDE DEF e, n
    <2>2. /\ t \in Seq(Nat) /\ Len(t) = Len(b.timers) + 1 /\ t[Len(b.timers) + 1] = e /\ Len(b.timers) \in Nat
          /\ \A i \in 1 .. Len(b.timers) : t[i] = b.timers[i]
      BY <1>1, <1>2
    <2> HIDE DEF t
    <2>3. /\ b' \in RwBarShape /\ b'.epoch = e /\ b'.timers = t /\ b'.content = "toast"
      BY <1>1, <1>2, <2>1, <2>2 DEF RwBarShape, RwShown
    <2>4. \A i \in 1 .. Len(b.timers) : b.timers[i] \in Nat /\ b.timers[i] <= b.epoch
      BY <1>1 DEF RwBarInv
    <2>5. ASSUME NEW i \in 1 .. Len(t)
          PROVE  t[i] <= e
      <3>1. i \in 1 .. Len(b.timers) \/ i = Len(b.timers) + 1
        BY <2>2
      <3>2. CASE i \in 1 .. Len(b.timers)
        <4>1. t[i] \in Nat /\ t[i] <= b.epoch
          BY <2>2, <2>4, <3>2
        <4> QED
          BY <1>1, <1>2, <4>1
      <3>3. CASE i = Len(b.timers) + 1
        BY <1>2, <2>2, <3>3
      <3> QED
        BY <3>1, <3>2, <3>3
    <2> QED
      BY <2>3, <2>5 DEF RwBarInv
  <1>5. CASE ToastEnds
    <2> DEFINE mine == Head(b.timers) = b.epoch
               t == Tail(b.timers)
               v == b.visible /\ ~ mine
               x == IF mine THEN b.content ELSE b.expired
    <2>1. b.timers # <<>> /\ b' = [b EXCEPT !.timers = t, !.visible = v, !.expired = x]
      BY <1>5 DEF ToastEnds
    <2>2. b.expired \in {RwNone, "toast"}
      BY <1>1 DEF RwBarShape
    <2>3. mine => b.content = "toast"
      BY <1>1, <2>1 DEF RwBarInv
    <2>4. x \in {RwNone, "toast"} /\ v \in BOOLEAN
      BY <1>1, <2>2, <2>3
    <2>5. /\ t \in Seq(Nat) /\ Len(t) = Len(b.timers) - 1 /\ Len(b.timers) \in Nat
          /\ \A i \in 1 .. Len(b.timers) - 1 : t[i] = b.timers[i + 1]
      BY <1>1, <2>1
    <2> HIDE DEF t, v, x
    <2>6. b' \in RwBarShape /\ b'.epoch = b.epoch /\ b'.timers = t /\ b'.content = b.content
      BY <1>1, <2>1, <2>4, <2>5 DEF RwBarShape
    <2>7. ASSUME NEW i \in 1 .. Len(t)
          PROVE  t[i] <= b.epoch /\ (t[i] = b.epoch => b.content = "toast")
      <3>1. i + 1 \in 1 .. Len(b.timers) /\ t[i] = b.timers[i + 1]
        BY <2>5
      <3> QED
        BY <3>1 DEF RwBarInv
    <2> QED
      BY <2>6, <2>7 DEF RwBarInv
  <1>6. CASE status_hide
    <2>1. b' \in RwBarShape /\ b'.epoch = b.epoch /\ b'.timers = b.timers /\ b'.content = b.content
      BY <1>1, <1>6 DEF status_hide, RwBarShape
    <2> QED
      BY <2>1 DEF RwBarInv
  <1> QED
    BY <1>3, <1>4, <1>5, <1>6 DEF StatusStep

--------------------------------------------------------------------------------
\* The children an action starts, and the reaper that waits for them.
RwFates == {"new", "running", "exited", "failed", "reaped"}
RwKidsShape ==
    [child : [RwChildren -> RwFates], tracked : SUBSET RwChildren,
     reaper : {"loop", "parked", "dozing", "awake"}, pushing : RwChildren \cup {RwNone, "notify"},
     failures : SUBSET RwChildren, failed : SUBSET RwChildren, told : SUBSET (RwChildren \cup {"caller"})]

\* The reaper tracks every child that is not reaped, and every failure is told.
RwKidsInv == rwKids \in RwKidsShape /\ ChildrenReaped

\* Every step of an action, its children and the reaper keeps it.
LEMMA RwLaunchStep ==
    ASSUME RwKidsInv, LaunchStep
    PROVE  RwKidsInv'
  <1> DEFINE k == rwKids
  <1>1. /\ k \in RwKidsShape /\ k.child \in [RwChildren -> RwFates] /\ k.tracked \subseteq RwChildren
        /\ k.pushing \in RwChildren \cup {RwNone, "notify"} /\ k.failures \subseteq RwChildren
        /\ k.failed \subseteq RwChildren /\ k.told \subseteq RwChildren \cup {"caller"}
        /\ RwNone \notin RwChildren /\ "notify" \notin RwChildren /\ RwNone # "notify"
    BY RwAssumption DEF RwKidsInv, RwKidsShape, RwNone
  <1>2. /\ k.reaper = "parked" => k.tracked = {} \/ k.pushing = "notify"
        /\ \A c \in RwChildren : k.child[c] \in {"running", "exited", "failed"} => c \in k.tracked \/ k.pushing = c
        /\ \A c \in k.failed : c \in k.failures \cup k.told
    BY DEF RwKidsInv, ChildrenReaped
  <1>3. CASE execute_action
    <2>1. CASE \E c \in RwChildren :
                  Untold(c) /\ k.pushing = RwNone /\ k' = [k EXCEPT !.child[c] = "running", !.pushing = c]
      <3>1. PICK c \in RwChildren : k.pushing = RwNone /\ k' = [k EXCEPT !.child[c] = "running", !.pushing = c]
        BY <2>1
      <3> DEFINE h == [k.child EXCEPT ![c] = "running"]
      <3>2. k' = [k EXCEPT !.child = h, !.pushing = c] /\ h \in [RwChildren -> RwFates]
        BY <1>1, <3>1 DEF RwFates
      <3>3. h[c] = "running" /\ \A x \in RwChildren \ {c} : h[x] = k.child[x]
        BY <1>1
      <3> HIDE DEF h
      <3>4. /\ k' \in RwKidsShape /\ k'.child = h /\ k'.pushing = c /\ k'.tracked = k.tracked /\ k'.reaper = k.reaper
            /\ k'.failed = k.failed /\ k'.failures = k.failures /\ k'.told = k.told
        BY <1>1, <3>2 DEF RwKidsShape
      <3>5. ChildrenReaped'
        BY <1>1, <1>2, <3>1, <3>3, <3>4 DEF ChildrenReaped
      <3> QED
        BY <3>4, <3>5 DEF RwKidsInv
    <2>2. CASE k' = [k EXCEPT !.told = @ \cup {"caller"}]
      <3>1. /\ k' \in RwKidsShape /\ k'.child = k.child /\ k'.pushing = k.pushing /\ k'.tracked = k.tracked
            /\ k'.reaper = k.reaper /\ k'.failed = k.failed /\ k'.failures = k.failures
            /\ k'.told = k.told \cup {"caller"}
        BY <1>1, <2>2 DEF RwKidsShape
      <3>2. ChildrenReaped'
        BY <1>2, <3>1 DEF ChildrenReaped
      <3> QED
        BY <3>1, <3>2 DEF RwKidsInv
    <2>3. CASE k' = k
      BY <2>3 DEF RwKidsInv, ChildrenReaped
    <2> QED
      BY <1>3, <2>1, <2>2, <2>3 DEF execute_action
  <1>4. CASE spawn_reaped_pushes
    <2> DEFINE c == k.pushing
               t == k.tracked \cup {c}
    <2>1. c \in RwChildren /\ k' = [k EXCEPT !.tracked = t, !.pushing = "notify"]
      BY <1>4 DEF spawn_reaped_pushes
    <2>2. /\ k' \in RwKidsShape /\ k'.child = k.child /\ k'.pushing = "notify" /\ k'.tracked = t
          /\ k'.reaper = k.reaper /\ k'.failed = k.failed /\ k'.failures = k.failures /\ k'.told = k.told
      BY <1>1, <2>1 DEF RwKidsShape
    <2>3. ChildrenReaped'
      BY <1>2, <2>2 DEF ChildrenReaped
    <2> QED
      BY <2>2, <2>3 DEF RwKidsInv
  <1>5. CASE spawn_reaped_notifies
    <2> DEFINE w == Woken(k.reaper)
    <2>1. k.pushing = "notify" /\ k' = [k EXCEPT !.pushing = RwNone, !.reaper = w]
      BY <1>5 DEF spawn_reaped_notifies
    <2>2. w \in {"loop", "awake"}
      BY <1>1 DEF Woken, RwKidsShape
    <2> HIDE DEF w
    <2>3. /\ k' \in RwKidsShape /\ k'.child = k.child /\ k'.pushing = RwNone /\ k'.tracked = k.tracked
          /\ k'.reaper = w /\ k'.failed = k.failed /\ k'.failures = k.failures /\ k'.told = k.told
      BY <1>1, <2>1, <2>2 DEF RwKidsShape
    <2>4. ChildrenReaped'
      BY <1>1, <1>2, <2>1, <2>2, <2>3 DEF ChildrenReaped
    <2> QED
      BY <2>3, <2>4 DEF RwKidsInv
  <1>6. CASE ChildExits
    <2>1. PICK c \in RwChildren, how \in {"exited", "failed"} :
              k.child[c] = "running" /\ k' = [k EXCEPT !.child[c] = how]
      BY <1>6 DEF ChildExits
    <2> DEFINE h == [k.child EXCEPT ![c] = how]
    <2>2. k' = [k EXCEPT !.child = h] /\ h \in [RwChildren -> RwFates]
      BY <1>1, <2>1 DEF RwFates
    <2>3. \A x \in RwChildren \ {c} : h[x] = k.child[x]
      BY <1>1
    <2> HIDE DEF h
    <2>4. /\ k' \in RwKidsShape /\ k'.child = h /\ k'.pushing = k.pushing /\ k'.tracked = k.tracked
          /\ k'.reaper = k.reaper /\ k'.failed = k.failed /\ k'.failures = k.failures /\ k'.told = k.told
      BY <1>1, <2>2 DEF RwKidsShape
    <2>5. ChildrenReaped'
      BY <1>1, <1>2, <2>1, <2>3, <2>4 DEF ChildrenReaped
    <2> QED
      BY <2>4, <2>5 DEF RwKidsInv
  <1>7. CASE ReaperSleeps \/ ReaperWakes
    <2>1. PICK w \in {"parked", "dozing", "awake"} :
              k' = [k EXCEPT !.reaper = w] /\ (w = "parked" => k.tracked = {})
      BY <1>7 DEF ReaperSleeps, ReaperWakes
    <2>2. /\ k' \in RwKidsShape /\ k'.child = k.child /\ k'.pushing = k.pushing /\ k'.tracked = k.tracked
          /\ k'.reaper = w /\ k'.failed = k.failed /\ k'.failures = k.failures /\ k'.told = k.told
      BY <1>1, <2>1 DEF RwKidsShape
    <2>3. ChildrenReaped'
      BY <1>2, <2>1, <2>2 DEF ChildrenReaped
    <2> QED
      BY <2>2, <2>3 DEF RwKidsInv
  <1>8. CASE ReaperSweeps
    <2> DEFINE t == k.tracked \ Ended
               f == k.failures \cup {c \in Ended : Passed(c)}
               h == [c \in RwChildren |-> IF c \in Ended THEN "reaped" ELSE k.child[c]]
               g == k.failed \cup {c \in Ended : k.child[c] = "failed"}
    <2>1. k' = [k EXCEPT !.reaper = "loop", !.tracked = t, !.failures = f, !.child = h, !.failed = g]
      BY <1>8 DEF ReaperSweeps
    <2>2. Ended = {c \in k.tracked : k.child[c] \in {"exited", "failed"}}
      BY DEF Ended
    <2>3. t \subseteq RwChildren /\ f \subseteq RwChildren /\ g \subseteq RwChildren /\ h \in [RwChildren -> RwFates]
      BY <1>1, <2>2 DEF RwFates
    <2>4. g \subseteq f \cup k.told
      BY <1>2 DEF Passed
    <2>5. \A c \in RwChildren : h[c] \in {"running", "exited", "failed"} => c \in t \/ k.pushing = c
      BY <1>1, <1>2, <2>2
    <2> HIDE DEF t, f, h, g
    <2>6. /\ k' \in RwKidsShape /\ k'.child = h /\ k'.pushing = k.pushing /\ k'.tracked = t
          /\ k'.reaper = "loop" /\ k'.failed = g /\ k'.failures = f /\ k'.told = k.told
      BY <1>1, <2>1, <2>3 DEF RwKidsShape
    <2>7. ChildrenReaped'
      BY <2>4, <2>5, <2>6 DEF ChildrenReaped
    <2> QED
      BY <2>6, <2>7 DEF RwKidsInv
  <1>9. CASE FailureNotified
    <2>1. PICK c \in k.failures : k' = [k EXCEPT !.failures = k.failures \ {c}, !.told = k.told \cup {c}]
      BY <1>9 DEF FailureNotified
    <2>2. /\ k' \in RwKidsShape /\ k'.child = k.child /\ k'.pushing = k.pushing /\ k'.tracked = k.tracked
          /\ k'.reaper = k.reaper /\ k'.failed = k.failed /\ k'.failures = k.failures \ {c} /\ k'.told = k.told \cup {c}
      BY <1>1, <2>1 DEF RwKidsShape
    <2>3. ChildrenReaped'
      BY <1>2, <2>2 DEF ChildrenReaped
    <2> QED
      BY <2>2, <2>3 DEF RwKidsInv
  <1> QED
    BY <1>3, <1>4, <1>5, <1>6, <1>7, <1>8, <1>9 DEF LaunchStep

--------------------------------------------------------------------------------
\* The invariant of all the parts.
RwInv == rwMay \in RwScenes /\ RwRowsInv /\ RwIconInv /\ RwBarInv /\ RwKidsInv

\* It holds at the start.
LEMMA RwInitInv == RwInit => RwInv
  <1> SUFFICES ASSUME RwInit PROVE RwInv
    OBVIOUS
  <1>1. RwNone \in RwDoc /\ RwNone \in RwTops /\ RwNone \in RwTypes /\ {} \in RwMenus /\ RwNone \notin RwRows
        /\ RwNone \notin RwDocs /\ 0 \in 0 .. RwMaxAnswers /\ 0 \in 0 .. RwMaxShown /\ RwMaxQueue \in Nat
        /\ RwNone \notin DOMAIN RwIcons
    BY RwAssumption DEF RwDoc, RwTops, RwTypes, RwMenus
  <1>2. RwNone # "clear" /\ RwNone # "append"
    BY DEF RwNone
  <1>3. RwListInv
    <2>1. rwList \in RwListShape /\ rwList.model = <<>> /\ rwList.left = <<>> /\ rwList.doing = RwNone /\ rwList.hits = {}
      BY <1>1 DEF RwInit, RwListShape
    <2>2. IsInjective(<<>>) /\ ToSet(<<>>) = {}
      BY DEF IsInjective, ToSet
    <2> QED
      BY <1>2, <2>1, <2>2 DEF RwListInv
  <1>4. \A r \in RwRows : rwSlot[r] = RowState
    BY DEF RwInit
  <1>5. RowState \in RwSlotShape /\ RowState.item = RwNone /\ RowState.doc = RwNone /\ RowState.tip = RwNone
        /\ RowState.key = RwNone
    BY <1>1 DEF RowState, RwSlotShape
  <1>6. RwSlotInv
    <2>1. rwSlot \in [RwRows -> RwSlotShape] /\ rwRegistry \in [RwDocs -> RwRows \cup {RwNone}]
          /\ \A d \in RwDocs : rwRegistry[d] = RwNone
      BY <1>5 DEF RwInit
    <2> QED
      BY <1>1, <1>4, <1>5, <2>1 DEF RwSlotInv, RwKeyTrue, RwInert
  <1>7. RwDressedInv
    BY <1>4, <1>5 DEF RwDressedInv, RwDressed
  <1>8. RwPopoverInv
    BY FS_EmptySet DEF RwInit, RwPopoverInv, RwPopoverShape
  <1>9. RwIconInv
    <2>1. rwIcon \in RwIconShape /\ rwIcon.queue = <<>> /\ rwIcon.loading = RwNone /\ rwIcon.paintable = {}
          /\ \A k \in DOMAIN RwIcons : rwIcon.texture[k] = "absent" /\ rwIcon.decoded[k] = 0
      BY DEF RwInit, RwIconShape
    <2> QED
      BY <1>1, <2>1 DEF RwIconInv
  <1>10. RwBarInv
    BY <1>1 DEF RwInit, RwBarInv, RwBarShape, RwShown
  <1>11. RwKidsInv
    BY DEF RwInit, RwKidsInv, RwKidsShape, RwFates, ChildrenReaped
  <1>12. rwMay \in RwScenes
    BY DEF RwInit
  <1> QED
    BY <1>3, <1>6, <1>7, <1>8, <1>9, <1>10, <1>11, <1>12 DEF RwInv, RwRowsInv

\* Every step of the launcher keeps it: a part that does not move keeps its own.
LEMMA RwStepInv == RwInv /\ [RwNext]_rwVars => RwInv'
  <1> SUFFICES ASSUME RwInv, [RwNext]_rwVars PROVE RwInv'
    OBVIOUS
  <1>1. rwMay' \in RwScenes
    BY DEF RwInv, RwNext, rwVars
  <1>2. RwRowsInv' \/ ~ UNCHANGED <<rwList, rwSlot, rwRegistry, rwPopovers>>
    BY DEF RwInv, RwRowsInv, RwListInv, RwSlotInv, RwDressedInv, RwPopoverInv
  <1>3. RwIconInv' \/ ~ UNCHANGED rwIcon
    BY DEF RwInv, RwIconInv
  <1>4. RwBarInv' \/ ~ UNCHANGED rwBar
    BY DEF RwInv, RwBarInv
  <1>5. RwKidsInv' \/ ~ UNCHANGED rwKids
    BY DEF RwInv, RwKidsInv, ChildrenReaped
  <1>6. CASE RowsStep /\ UNCHANGED <<rwIcon, rwBar, rwKids>>
    BY <1>1, <1>3, <1>4, <1>5, <1>6, RwRowsStep DEF RwInv
  <1>7. CASE IconsStep /\ UNCHANGED <<rwList, rwSlot, rwRegistry, rwPopovers, rwBar, rwKids>>
    BY <1>1, <1>2, <1>4, <1>5, <1>7, RwIconsStep DEF RwInv
  <1>8. CASE StatusStep /\ UNCHANGED <<rwList, rwSlot, rwRegistry, rwPopovers, rwIcon, rwKids>>
    BY <1>1, <1>2, <1>3, <1>5, <1>8, RwStatusStep DEF RwInv
  <1>9. CASE LaunchStep /\ UNCHANGED <<rwList, rwSlot, rwRegistry, rwPopovers, rwIcon, rwBar>>
    BY <1>1, <1>2, <1>3, <1>4, <1>9, RwLaunchStep DEF RwInv
  <1>10. CASE UNCHANGED rwVars
    BY <1>1, <1>2, <1>3, <1>4, <1>5, <1>10 DEF RwInv, rwVars
  <1> QED
    BY <1>6, <1>7, <1>8, <1>9, <1>10 DEF RwNext

\* The rows keep their invariant.
LEMMA RwAlways == RwSpec => []RwInv
  <1>1. RwInit => RwInv
    BY RwInitInv
  <1>2. RwInv /\ [RwNext]_rwVars => RwInv'
    BY RwStepInv
  <1> QED
    BY <1>1, <1>2, PTL DEF RwSpec

\* It says more than the types.
LEMMA RwInvTyped == RwInv => RwTypeOK
  <1> SUFFICES ASSUME RwInv PROVE RwTypeOK
    OBVIOUS
  <1>1. /\ ToSet(rwList.model) \subseteq RwDocs /\ rwList.hits \subseteq RwDocs
        /\ rwList.doing \in {RwNone, "update", "append", "clear", "scrub"} /\ rwList.answers \in 0 .. RwMaxAnswers
    <2>1. rwList \in RwListShape
      BY DEF RwInv, RwRowsInv, RwListInv
    <2>2. rwList.model \in Seq(RwDocs)
      BY <2>1 DEF RwListShape
    <2> QED
      BY <2>1, <2>2 DEF RwListShape, ToSet
  <1>2. ASSUME NEW r \in RwRows
        PROVE  /\ {rwSlot[r].item, rwSlot[r].doc, rwSlot[r].shown, rwSlot[r].tip} \subseteq RwDocs \cup {RwNone}
               /\ rwSlot[r].hero \in BOOLEAN /\ rwSlot[r].secondary \in BOOLEAN
    <2>1. rwSlot[r] \in RwSlotShape
      BY DEF RwInv, RwRowsInv, RwSlotInv
    <2> QED
      BY <2>1 DEF RwSlotShape, RwDoc
  <1>3. rwRegistry \in [RwDocs -> RwRows \cup {RwNone}]
    BY DEF RwInv, RwRowsInv, RwSlotInv
  <1>4. rwPopovers.mapped \subseteq RwRows \X {"info", "menu"}
    BY DEF RwInv, RwRowsInv, RwPopoverInv, RwPopoverShape
  <1>5. rwIcon.texture \in [DOMAIN RwIcons -> {"absent", "loaded", "bad"}] /\ Len(rwIcon.queue) <= RwMaxQueue
    BY DEF RwInv, RwIconInv, RwIconShape
  <1>6. rwBar.changes \in 0 .. RwMaxShown /\ rwKids.tracked \subseteq RwChildren /\ rwMay \in RwScenes
    BY DEF RwInv, RwBarInv, RwBarShape, RwKidsInv, RwKidsShape
  <1> QED
    BY <1>1, <1>2, <1>3, <1>4, <1>5, <1>6 DEF RwTypeOK

\* What the invariant says once the list rests.
LEMMA RwInvSound ==
    RwInv => RowsAreTheirHits /\ PoolRowsAreInert /\ PopoversCounted /\ IconsDecodedOnce /\ OnlyToastsExpire /\ ChildrenReaped
  <1> SUFFICES ASSUME RwInv
               PROVE  RowsAreTheirHits /\ PoolRowsAreInert /\ PopoversCounted /\ IconsDecodedOnce /\ OnlyToastsExpire
                      /\ ChildrenReaped
    OBVIOUS
  <1>1. RwNone # "clear"
    BY DEF RwNone
  <1>2. RowsAreTheirHits
    <2> SUFFICES ASSUME RwIdle, NEW r \in RwRows, rwSlot[r].item # RwNone
                 PROVE  /\ rwSlot[r].item \in rwList.hits
                        /\ RwDressed(rwSlot[r], rwList.top)
      BY DEF RowsAreTheirHits, RwDressed
    <2>1. rwSlot[r].item \in ToSet(rwList.model)
      BY DEF RwIdle, Settled, Items
    <2> QED
      BY <1>1, <2>1 DEF RwInv, RwRowsInv, RwListInv, RwDressedInv, RwIdle
  <1>3. PoolRowsAreInert
    <2> SUFFICES ASSUME RwIdle
                 PROVE  /\ \A r \in RwRows : rwSlot[r].item = RwNone => rwSlot[r].doc = RwNone /\ rwSlot[r].tip = RwNone
                        /\ \A d \in RwDocs, r \in RwRows : rwRegistry[d] = r <=> rwSlot[r].item = d
      BY DEF PoolRowsAreInert
    <2>1. \A r \in RwRows : rwSlot[r].doc = rwSlot[r].item
      BY <1>1, RwDocIsItem DEF RwInv, RwIdle
    <2> QED
      BY <2>1 DEF RwInv, RwRowsInv, RwSlotInv, RwInert
  <1>4. PopoversCounted
    BY DEF RwInv, RwRowsInv, RwPopoverInv, PopoversCounted
  <1>5. IconsDecodedOnce
    <2> SUFFICES ASSUME NEW k \in DOMAIN RwIcons
                 PROVE  rwIcon.decoded[k] <= 1 /\ (k \in rwIcon.paintable => rwIcon.texture[k] = "loaded")
      BY DEF IconsDecodedOnce
    <2>1. /\ rwIcon.decoded[k] = IF rwIcon.texture[k] # "absent" \/ rwIcon.loading = k THEN 1 ELSE 0
          /\ k \in rwIcon.paintable => rwIcon.texture[k] = "loaded"
      BY DEF RwInv, RwIconInv
    <2> QED
      BY <2>1
  <1>6. OnlyToastsExpire
    BY DEF RwInv, RwBarInv, RwBarShape, OnlyToastsExpire
  <1>7. ChildrenReaped
    BY DEF RwInv, RwKidsInv
  <1> QED
    BY <1>2, <1>3, <1>4, <1>5, <1>6, <1>7

--------------------------------------------------------------------------------
\* Going round a list of n.
LEMMA RwBelow == ASSUME NEW n \in Nat, n > 0, NEW x \in 0 .. n - 1 PROVE x % n = x
  OBVIOUS
\* One past either end.
LEMMA RwAround == ASSUME NEW n \in Nat, n > 0 PROVE n % n = 0 /\ (-1) % n = n - 1
  OBVIOUS

\* How many categories come before c.
RwRank(P, c) == Cardinality({p \in P : p < c})

\* A list holds a finite number of categories.
LEMMA RwPresentFinite ==
    ASSUME NEW S, NEW rows \in Seq(S)
    PROVE  IsFiniteSet(ToSet(rows)) /\ Cardinality(ToSet(rows)) \in Nat
  <1>1. Len(rows) \in Nat /\ DOMAIN rows = 1 .. Len(rows) /\ rows = [i \in 1 .. Len(rows) |-> rows[i]]
    OBVIOUS
  <1>2. rows \in [1 .. Len(rows) -> ToSet(rows)]
    BY <1>1 DEF ToSet
  <1>3. rows \in Surjection(1 .. Len(rows), ToSet(rows))
    BY <1>1, <1>2 DEF Surjection, ToSet
  <1>4. IsFiniteSet(1 .. Len(rows))
    <2>1. 1 \in Int /\ Len(rows) \in Int
      BY <1>1
    <2> QED
      BY <2>1, FS_Interval
  <1> QED
    BY <1>3, <1>4, FS_Surjection, FS_CardinalityType

\* A category has a rank below the number of categories, and a greater one a
\* greater rank.
LEMMA RwRankOrder ==
    ASSUME NEW P, P \subseteq Int, IsFiniteSet(P), NEW c \in P
    PROVE  /\ RwRank(P, c) \in 0 .. Cardinality(P) - 1
           /\ \A d \in P : c < d => RwRank(P, c) < RwRank(P, d)
  <1> DEFINE B(x) == {p \in P : p < x}
  <1>0. Cardinality(P) \in Nat
    BY FS_CardinalityType
  <1>1. ASSUME NEW x \in P
        PROVE  IsFiniteSet(B(x)) /\ Cardinality(B(x)) \in Nat /\ x \notin B(x)
    <2>1. B(x) \subseteq P /\ x \notin B(x)
      OBVIOUS
    <2> HIDE DEF B
    <2> QED
      BY <2>1, FS_Subset, FS_CardinalityType
  <1>2. Cardinality(B(c)) <= Cardinality(P) - 1
    <2>1. IsFiniteSet(P \ {c}) /\ Cardinality(P \ {c}) = Cardinality(P) - 1
      BY FS_RemoveElement
    <2>2. B(c) \subseteq P \ {c}
      OBVIOUS
    <2> HIDE DEF B
    <2> QED
      BY <2>1, <2>2, FS_Subset
  <1>3. ASSUME NEW d \in P, c < d
        PROVE  Cardinality(B(c)) < Cardinality(B(d))
    <2>1. B(c) \cup {c} \subseteq B(d)
      <3>1. \A p \in P : p \in Int
        OBVIOUS
      <3>2. \A p \in P : p < c => p < d
        BY <1>3, <3>1
      <3> QED
        BY <1>3, <3>2
    <2> HIDE DEF B
    <2>2. Cardinality(B(c) \cup {c}) = Cardinality(B(c)) + 1
      BY <1>1, FS_AddElement
    <2>3. Cardinality(B(c) \cup {c}) <= Cardinality(B(d))
      BY <1>1, <2>1, FS_Subset
    <2> QED
      BY <1>1, <2>2, <2>3
  <1>4. \A x : RwRank(P, x) = Cardinality(B(x))
    BY DEF RwRank
  <1> HIDE DEF B
  <1> QED
    BY <1>0, <1>1, <1>2, <1>3, <1>4

\* Two categories of the same rank are one.
LEMMA RwRankTells ==
    ASSUME NEW P, P \subseteq Int, IsFiniteSet(P), NEW a \in P, NEW b \in P, RwRank(P, a) = RwRank(P, b)
    PROVE  a = b
  <1>1. RwRank(P, a) \in Int
    <2>1. RwRank(P, a) \in 0 .. Cardinality(P) - 1
      BY RwRankOrder
    <2> QED
      BY <2>1, FS_CardinalityType
  <1>2. a < b => RwRank(P, a) < RwRank(P, b)
    BY RwRankOrder
  <1>3. b < a => RwRank(P, b) < RwRank(P, a)
    BY RwRankOrder
  <1>4. a \in Int /\ b \in Int
    OBVIOUS
  <1> QED
    BY <1>1, <1>2, <1>3, <1>4

\* Every rank is that of one category.
LEMMA RwRankOnto ==
    ASSUME NEW P, P \subseteq Int, IsFiniteSet(P), NEW k \in 0 .. Cardinality(P) - 1
    PROVE  \E c \in P : RwRank(P, c) = k
  <1> DEFINE n == Cardinality(P)
             f == [c \in P |-> RwRank(P, c)]
  <1>1. n \in Nat
    BY FS_CardinalityType
  <1>2. IsFiniteSet(0 .. n - 1) /\ Cardinality(0 .. n - 1) = n
    BY <1>1, FS_Interval
  <1>3. f \in [P -> 0 .. n - 1]
    BY RwRankOrder
  <1>4. ASSUME NEW a \in P, NEW b \in P, RwRank(P, a) = RwRank(P, b)
        PROVE  a = b
    BY <1>4, RwRankTells
  <1>5. f \in Injection(P, 0 .. n - 1)
    BY <1>3, <1>4 DEF Injection, IsInjective
  <1> HIDE DEF f
  <1>6. f \in Surjection(P, 0 .. n - 1)
    BY <1>2, <1>5, FS_Injection
  <1>7. \E c \in P : f[c] = k
    BY <1>6 DEF Surjection
  <1> QED
    BY <1>7 DEF f

\* A jump lands on the first row of the category whose rank is the next.
LEMMA RwJumpLands ==
    ASSUME NEW rows \in Seq(Int), NEW i \in 1 .. Len(rows), NEW dir \in {1, -1},
           Cardinality(ToSet(rows)) >= 2,
           NEW t, t = next_category_target(rows, i, dir)
    PROVE  /\ t \in 1 .. Len(rows) /\ \A j \in 1 .. t - 1 : rows[j] # rows[t]
           /\ RwRank(ToSet(rows), rows[t]) = (RwRank(ToSet(rows), rows[i]) + dir) % Cardinality(ToSet(rows))
  <1> DEFINE P == ToSet(rows)
             n == Cardinality(P)
             k == (RwRank(P, rows[i]) + dir) % n
             next == CHOOSE c \in P : RwRank(P, c) = k
             First(x) == x \in 1 .. Len(rows) /\ rows[x] = next /\ \A j \in 1 .. x - 1 : rows[j] # next
  <1>1. P \subseteq Int /\ IsFiniteSet(P) /\ n \in Nat /\ Len(rows) \in Nat /\ rows[i] \in P
    BY RwPresentFinite DEF ToSet
  <1>2. k \in 0 .. n - 1
    <2>1. RwRank(P, rows[i]) \in Int
      BY <1>1, RwRankOrder
    <2>2. n > 0 /\ RwRank(P, rows[i]) + dir \in Int
      BY <1>1, <2>1
    <2> HIDE DEF P, n
    <2> QED
      BY <1>1, <2>2
  <1>3. next \in P /\ RwRank(P, next) = k
    <2>1. \E c \in P : RwRank(P, c) = k
      <3> HIDE DEF P, k
      <3> QED
        BY <1>1, <1>2, RwRankOnto DEF n
    <2> HIDE DEF P, k
    <2> QED
      BY <2>1
  <1>4. t = CHOOSE x \in 1 .. Len(rows) : rows[x] = next /\ \A j \in 1 .. x - 1 : rows[j] # next
    <2>1. ~ (i > Len(rows)) /\ rows # <<>> /\ ~ (n < 2)
      BY <1>1
    <2> DEFINE here == rows[IF i > Len(rows) THEN Len(rows) ELSE i]
               near == CHOOSE c \in P : Cardinality({p \in P : p < c}) = (Cardinality({p \in P : p < here}) + dir) % n
    <2>2. t = IF rows = <<>> \/ n < 2 THEN 0
              ELSE CHOOSE x \in 1 .. Len(rows) : rows[x] = near /\ \A j \in 1 .. x - 1 : rows[j] # near
      BY DEF next_category_target
    <2>3. here = rows[i]
      BY <2>1
    <2>4. near = next
      BY <2>3 DEF RwRank
    <2> HIDE DEF near, next, here, P, n
    <2> QED
      BY <2>1, <2>2, <2>4
  <1> HIDE DEF next
  <1>5. \E x \in 1 .. Len(rows) : First(x)
    <2> DEFINE I == {x \in 1 .. Len(rows) : rows[x] = next}
    <2>1. I # {} /\ I \subseteq Nat
      BY <1>1, <1>3 DEF ToSet
    <2> HIDE DEF I
    <2>2. PICK x \in I : \A y \in I : x <= y
      BY <2>1, LeastNat
    <2>3. ASSUME NEW j \in 1 .. x - 1, rows[j] = next
          PROVE  FALSE
      <3>1. x \in 1 .. Len(rows)
        BY DEF I
      <3>2. j \in 1 .. Len(rows) /\ j < x
        BY <1>1, <3>1
      <3>3. j \in I
        BY <2>3, <3>2 DEF I
      <3> QED
        BY <1>1, <2>2, <3>1, <3>2, <3>3
    <2> QED
      BY <2>3 DEF I
  <1>6. First(t)
    BY <1>4, <1>5
  <1> HIDE DEF P, k
  <1>7. rows[t] = next
    BY <1>6
  <1> QED
    BY <1>3, <1>6, <1>7 DEF P, k, n

\* The jumps between categories, for lists of any categories in any order.
LEMMA RwJumpsCycle == JumpsCycle
  <1> SUFFICES ASSUME NEW rows \in RwLists, NEW i \in 1 .. Len(rows),
                      next_category_target(rows, i, 1) # 0
               PROVE  LET there == next_category_target(rows, i, 1)
                          back == next_category_target(rows, there, -1)
                      IN  /\ rows[there] # rows[i] /\ rows[back] = rows[i]
                          /\ \A j \in 1 .. there - 1 : rows[j] # rows[there]
    BY DEF JumpsCycle
  <1> DEFINE P == ToSet(rows)
             n == Cardinality(P)
             there == next_category_target(rows, i, 1)
             back == next_category_target(rows, there, -1)
             a == RwRank(P, rows[i])
             b == RwRank(P, rows[there])
             c == RwRank(P, rows[back])
  <1>1. rows \in Seq(Int)
    BY RwAssumption
  <1>2. P \subseteq Int /\ IsFiniteSet(P) /\ n \in Nat
    BY <1>1, RwPresentFinite DEF ToSet
  <1>3. n >= 2
    <2>1. ~ (rows = <<>> \/ n < 2)
      BY DEF next_category_target
    <2> QED
      BY <1>2, <2>1
  <1>4. there \in 1 .. Len(rows) /\ (\A j \in 1 .. there - 1 : rows[j] # rows[there]) /\ b = (a + 1) % n
    BY <1>1, <1>3, RwJumpLands
  <1> HIDE DEF there
  <1>5. back \in 1 .. Len(rows) /\ c = (b + (-1)) % n
    BY <1>1, <1>3, <1>4, RwJumpLands
  <1> HIDE DEF back
  <1>6. rows[i] \in P /\ rows[there] \in P /\ rows[back] \in P
    BY <1>1, <1>4, <1>5 DEF ToSet
  <1>7. a \in 0 .. n - 1 /\ b \in 0 .. n - 1
    <2> HIDE DEF P
    <2> QED
      BY <1>2, <1>6, RwRankOrder DEF n
  <1> HIDE DEF n
  <1>8. b # a /\ c = a
    <2> HIDE DEF a, b, c
    <2>1. CASE a + 1 < n
      <3>1. a + 1 \in 0 .. n - 1
        BY <1>2, <1>7, <2>1
      <3>2. b = a + 1
        BY <1>2, <1>3, <1>4, <3>1, RwBelow
      <3>3. b + (-1) = a
        BY <1>7, <3>2
      <3> QED
        BY <1>2, <1>3, <1>5, <1>7, <3>2, <3>3, RwBelow
    <2>2. CASE a + 1 = n
      <3>1. b = 0
        BY <1>2, <1>3, <1>4, <2>2, RwAround
      <3>2. b + (-1) = -1
        BY <3>1
      <3>3. c = n - 1
        BY <1>2, <1>3, <1>5, <3>2, RwAround
      <3> QED
        BY <1>2, <1>3, <1>7, <2>2, <3>1, <3>3
    <2> QED
      BY <1>2, <1>7, <2>1, <2>2
  <1>9. rows[back] = rows[i]
    <2> HIDE DEF P
    <2> QED
      BY <1>2, <1>6, <1>8, RwRankTells
  <1> QED
    BY <1>4, <1>8, <1>9 DEF there, back

--------------------------------------------------------------------------------
(***************************************************************************)
(* The highlight of a title.  The provers know no induction over data: the *)
(* recursive functions are shown to exist, and to be what they should, by  *)
(* the least place at which they would fail.                               *)
(***************************************************************************)
\* The function FlattenSeq defines by recursion, by name.
RwFlat(f, seqs, i) == IF i = 1 THEN seqs[i] ELSE f[i - 1] \o seqs[i]
RwFlatten(seqs) == CHOOSE f : f = [i \in 1 .. Len(seqs) |-> RwFlat(f, seqs, i)]

\* FlattenSeq is its last value.
LEMMA RwFlattenIs ==
    ASSUME NEW seqs, Len(seqs) # 0
    PROVE  FlattenSeq(seqs) = RwFlatten(seqs)[Len(seqs)]
  BY DEF FlattenSeq, RwFlatten, RwFlat

\* The function that flattens is defined.
LEMMA RwFlattenDefined ==
    ASSUME NEW S, NEW seqs \in Seq(Seq(S))
    PROVE  /\ RwFlatten(seqs) = [i \in 1 .. Len(seqs) |-> RwFlat(RwFlatten(seqs), seqs, i)]
           /\ RwFlatten(seqs) \in [1 .. Len(seqs) -> Seq(S)]
  <1> DEFINE n == Len(seqs)
             Is(g, k) == g \in [1 .. k -> Seq(S)] /\ \A i \in 1 .. k : g[i] = RwFlat(g, seqs, i)
             T == {k \in 0 .. n : ~ \E g : Is(g, k)}
  <1>1. n \in Nat /\ \A i \in 1 .. n : seqs[i] \in Seq(S)
    OBVIOUS
  <1>2. ASSUME T # {}
        PROVE  FALSE
    <2>1. PICK k \in T : \A y \in T : k <= y
      <3>1. T \subseteq Nat
        BY <1>1
      <3> HIDE DEF T
      <3> QED
        BY <1>2, <3>1, LeastNat
    <2>2. CASE k = 0
      <3> DEFINE g == [i \in 1 .. 0 |-> <<>>]
      <3>1. Is(g, 0)
        OBVIOUS
      <3> HIDE DEF Is
      <3> QED
        BY <2>2, <3>1
    <2>3. CASE k # 0
      <3>1. k \in 1 .. n /\ k - 1 \in 0 .. n /\ ~ (k <= k - 1)
        BY <1>1, <2>3
      <3>2. PICK g : Is(g, k - 1)
        <4>1. k - 1 \notin T
          <5> HIDE DEF T
          <5> QED
            BY <2>1, <3>1
        <4> HIDE DEF Is
        <4> QED
          BY <3>1, <4>1
      <3> DEFINE e == IF k = 1 THEN seqs[k] ELSE g[k - 1] \o seqs[k]
                 h == [i \in 1 .. k |-> IF i < k THEN g[i] ELSE e]
      <3>3. e \in Seq(S)
        <4>1. CASE k = 1
          BY <1>1, <3>1, <4>1
        <4>2. CASE k # 1
          <5>1. k - 1 \in 1 .. k - 1 /\ seqs[k] \in Seq(S)
            BY <1>1, <3>1, <4>2
          <5>2. g[k - 1] \in Seq(S)
            BY <3>2, <5>1
          <5> QED
            BY <4>2, <5>1, <5>2, ConcatProperties
        <4> QED
          BY <4>1, <4>2
      <3> HIDE DEF e
      <3>4. \A i \in 1 .. k - 1 : g[i] \in Seq(S) /\ g[i] = RwFlat(g, seqs, i)
        BY <3>2
      <3>5. h \in [1 .. k -> Seq(S)]
        <4>1. ASSUME NEW i \in 1 .. k PROVE (IF i < k THEN g[i] ELSE e) \in Seq(S)
          <5>1. i < k => i \in 1 .. k - 1
            BY <3>1
          <5> QED
            BY <3>3, <3>4, <5>1
        <4> QED
          BY <4>1
      <3>6. ASSUME NEW i \in 1 .. k
            PROVE  h[i] = RwFlat(h, seqs, i)
        <4>1. CASE i < k
          <5>1. i \in 1 .. k - 1 /\ h[i] = g[i] /\ (i # 1 => i - 1 \in 1 .. k /\ i - 1 < k)
            BY <3>1, <4>1
          <5>2. i # 1 => h[i - 1] = g[i - 1]
            BY <5>1
          <5> HIDE DEF h
          <5> QED
            BY <3>4, <5>1, <5>2 DEF RwFlat
        <4>2. CASE i = k
          <5>1. h[i] = e /\ (i # 1 => i - 1 \in 1 .. k /\ i - 1 < k)
            BY <3>1, <4>2
          <5>2. i # 1 => h[i - 1] = g[i - 1]
            BY <5>1
          <5> HIDE DEF h
          <5> QED
            BY <4>2, <5>1, <5>2 DEF RwFlat, e
        <4> QED
          BY <3>1, <4>1, <4>2
      <3>7. Is(h, k)
        BY <3>5, <3>6
      <3> HIDE DEF Is, h
      <3> QED
        BY <3>7
    <2> QED
      BY <2>2, <2>3
  <1>3. PICK g : Is(g, n)
    <2>1. n \in 0 .. n /\ n \notin T
      <3> HIDE DEF T
      <3> QED
        BY <1>1, <1>2
    <2> HIDE DEF Is
    <2> QED
      BY <2>1
  <1>4. g = [i \in 1 .. n |-> RwFlat(g, seqs, i)] /\ g \in [1 .. n -> Seq(S)]
    <2>1. g \in [1 .. n -> Seq(S)] /\ \A i \in 1 .. n : g[i] = RwFlat(g, seqs, i)
      BY <1>3
    <2>2. g = [i \in 1 .. n |-> g[i]]
      BY <2>1
    <2> HIDE DEF Is, T
    <2> QED
      BY <2>1, <2>2
  <1> DEFINE f == RwFlatten(seqs)
  <1>5. f = [i \in 1 .. n |-> RwFlat(f, seqs, i)]
    BY <1>4 DEF RwFlatten
  <1> HIDE DEF f
  <1>6. \A i \in 1 .. n : f[i] = RwFlat(f, seqs, i)
    BY <1>5
  <1> DEFINE U == {i \in 1 .. n : f[i] \notin Seq(S)}
  <1>7. ASSUME U # {}
        PROVE  FALSE
    <2>1. PICK k \in U : \A y \in U : k <= y
      <3>1. U \subseteq Nat
        BY <1>1
      <3> HIDE DEF U
      <3> QED
        BY <1>7, <3>1, LeastNat
    <2>2. k \in 1 .. n /\ f[k] \notin Seq(S) /\ f[k] = RwFlat(f, seqs, k)
      BY <1>6
    <2>3. CASE k = 1
      BY <1>1, <2>2, <2>3 DEF RwFlat
    <2>4. CASE k # 1
      <3>1. k - 1 \in 1 .. n /\ ~ (k <= k - 1)
        BY <1>1, <2>2, <2>4
      <3>2. f[k - 1] \in Seq(S)
        <4>1. k - 1 \notin U
          <5> HIDE DEF U
          <5> QED
            BY <2>1, <3>1
        <4> QED
          BY <3>1, <4>1
      <3>3. f[k - 1] \o seqs[k] \in Seq(S)
        BY <1>1, <2>2, <3>2, ConcatProperties
      <3> QED
        BY <2>2, <2>4, <3>3 DEF RwFlat
    <2> QED
      BY <2>3, <2>4
  <1>8. f \in [1 .. n -> Seq(S)]
    BY <1>5, <1>7
  <1> QED
    BY <1>5, <1>8 DEF f

\* The folded letters of a text of n characters, each with its character.
RwLetters(n) == [letter : Int, from : 1 .. n]
RwInOrder(F) == \A p \in 1 .. Len(F), q \in 1 .. Len(F) : p <= q => F[p].from <= F[q].from
RwSpelled(text) == [i \in 1 .. Len(text) |-> [j \in 1 .. Len(text[i]) |-> [letter |-> text[i][j], from |-> i]]]

\* The folded letters come in the order of the characters they come from.
LEMMA RwFolded ==
    ASSUME NEW text \in Seq(Seq(Int))
    PROVE  fold_with_map(text) \in Seq(RwLetters(Len(text))) /\ RwInOrder(fold_with_map(text))
  <1> DEFINE n == Len(text)
             S == RwLetters(n)
             seqs == RwSpelled(text)
             f == RwFlatten(seqs)
  <1>1. n \in Nat /\ \A i \in 1 .. n : text[i] \in Seq(Int)
    OBVIOUS
  <1>2. ASSUME NEW i \in 1 .. n
        PROVE  /\ seqs[i] \in Seq(S) /\ Len(seqs[i]) \in Nat
               /\ \A j \in 1 .. Len(seqs[i]) : seqs[i][j].from = i
    <2> DEFINE m == Len(text[i])
    <2>1. m \in Nat /\ text[i] \in [1 .. m -> Int]
      BY <1>1
    <2>2. seqs[i] = [j \in 1 .. m |-> [letter |-> text[i][j], from |-> i]]
      BY DEF RwSpelled
    <2>3. \A j \in 1 .. m : [letter |-> text[i][j], from |-> i] \in S
      BY <2>1 DEF RwLetters
    <2> HIDE DEF S, m, seqs
    <2>4. seqs[i] \in Seq(S) /\ Len(seqs[i]) = m
      BY <2>1, <2>2, <2>3
    <2> QED
      BY <2>1, <2>2, <2>4
  <1>3. seqs \in Seq(Seq(S)) /\ Len(seqs) = n
    <2>1. seqs = [i \in 1 .. n |-> seqs[i]]
      BY DEF RwSpelled
    <2> HIDE DEF seqs, S
    <2> QED
      BY <1>1, <1>2, <2>1
  <1>4. fold_with_map(text) = FlattenSeq(seqs)
    BY DEF fold_with_map, RwSpelled
  <1>5. CASE n = 0
    <2>1. fold_with_map(text) = seqs /\ seqs = <<>>
      <3> HIDE DEF seqs, S
      <3> QED
        BY <1>3, <1>4, <1>5 DEF FlattenSeq
    <2> QED
      BY <2>1 DEF RwInOrder
  <1>6. CASE n # 0
    <2>1. /\ f = [i \in 1 .. n |-> RwFlat(f, seqs, i)] /\ f \in [1 .. n -> Seq(S)]
      <3> HIDE DEF seqs, S
      <3> QED
        BY <1>3, RwFlattenDefined
    <2> HIDE DEF f
    <2>2. \A i \in 1 .. n : f[i] = RwFlat(f, seqs, i) /\ f[i] \in Seq(S)
      BY <2>1
    <2> HIDE DEF seqs
    <2>3. fold_with_map(text) = f[n]
      BY <1>3, <1>4, <1>6, RwFlattenIs DEF f
    <2> DEFINE Good(i) == RwInOrder(f[i]) /\ \A p \in 1 .. Len(f[i]) : f[i][p].from <= i
               U == {i \in 1 .. n : ~ Good(i)}
    <2>4. ASSUME U # {}
          PROVE  FALSE
      <3>1. PICK k \in U : \A y \in U : k <= y
        <4>1. U \subseteq Nat
          BY <1>1
        <4> HIDE DEF U
        <4> QED
          BY <2>4, <4>1, LeastNat
      <3>2. k \in 1 .. n /\ ~ Good(k)
        OBVIOUS
      <3>3. CASE k = 1
        <4>1. f[1] = seqs[1]
          BY <2>2, <3>2, <3>3 DEF RwFlat
        <4>2. \A j \in 1 .. Len(f[1]) : f[1][j].from = 1
          BY <1>2, <3>2, <3>3, <4>1
        <4> HIDE DEF S
        <4>3. RwInOrder(f[1]) /\ \A p \in 1 .. Len(f[1]) : f[1][p].from <= 1
          <5> DEFINE w == f[1]
          <5>1. \A j \in 1 .. Len(w) : w[j].from = 1
            BY <4>2
          <5> HIDE DEF w
          <5>2. RwInOrder(w)
            <6> SUFFICES ASSUME NEW p \in 1 .. Len(w), NEW q \in 1 .. Len(w)
                         PROVE  w[p].from <= w[q].from
              BY DEF RwInOrder
            <6>1. w[p].from = 1 /\ w[q].from = 1
              BY <5>1
            <6> QED
              BY <6>1
          <5>3. \A p \in 1 .. Len(w) : w[p].from <= 1
            BY <5>1
          <5> QED
            BY <5>2, <5>3 DEF w
        <4> QED
          BY <3>2, <3>3, <4>3
      <3>4. CASE k # 1
        <4> DEFINE a == f[k - 1]
                   b == seqs[k]
        <4>1. k - 1 \in 1 .. n /\ ~ (k <= k - 1)
          BY <1>1, <3>2, <3>4
        <4>2. Good(k - 1)
          <5>1. k - 1 \notin U
            <6> HIDE DEF U
            <6> QED
              BY <3>1, <4>1
          <5> HIDE DEF Good
          <5> QED
            BY <4>1, <5>1
        <4>3. f[k] = a \o b
          BY <2>2, <3>2, <3>4 DEF RwFlat
        <4>4. a \in Seq(S) /\ b \in Seq(S) /\ Len(a) \in Nat /\ Len(b) \in Nat
          BY <1>2, <2>2, <3>2, <4>1
        <4>5. \A p \in 1 .. Len(b) : b[p].from = k
          BY <1>2, <3>2
        <4>6. \A p \in 1 .. Len(a) : a[p].from \in Int /\ a[p].from <= k - 1
          <5>1. \A p \in 1 .. Len(a) : a[p].from <= k - 1
            BY <4>2
          <5>2. ASSUME NEW p \in 1 .. Len(a) PROVE a[p].from \in Int
            <6>1. a[p] \in S
              <7> HIDE DEF S, a
              <7> QED
                BY <4>4
            <6> HIDE DEF a
            <6>2. a[p].from \in 1 .. n
              BY <6>1 DEF RwLetters
            <6> QED
              BY <1>1, <6>2
          <5> QED
            BY <5>1, <5>2
        <4>7. RwInOrder(a)
          BY <4>2
        <4> HIDE DEF a, b, S, Good
        <4> DEFINE c == a \o b
        <4>8. /\ Len(c) = Len(a) + Len(b)
              /\ \A p \in 1 .. Len(a) + Len(b) : c[p] = IF p <= Len(a) THEN a[p] ELSE b[p - Len(a)]
          BY <4>4, ConcatProperties
        <4> HIDE DEF c
        <4>9. ASSUME NEW p \in 1 .. Len(c), p > Len(a)
              PROVE  c[p].from = k
          <5>1. p - Len(a) \in 1 .. Len(b) /\ c[p] = b[p - Len(a)]
            BY <4>4, <4>8, <4>9
          <5> QED
            BY <4>5, <5>1
        <4>10. ASSUME NEW p \in 1 .. Len(c), p <= Len(a)
               PROVE  p \in 1 .. Len(a) /\ c[p] = a[p]
          BY <4>4, <4>8, <4>10
        <4>11. ASSUME NEW p \in 1 .. Len(c)
               PROVE  c[p].from \in Int /\ c[p].from <= k /\ (p <= Len(a) \/ p > Len(a))
          <5>1. k \in Int /\ (p <= Len(a) \/ p > Len(a))
            BY <1>1, <3>2, <4>4, <4>8
          <5>2. CASE p <= Len(a)
            <6>1. c[p].from \in Int /\ c[p].from <= k - 1
              BY <4>6, <4>10, <5>2
            <6> QED
              BY <5>1, <6>1
          <5>3. CASE p > Len(a)
            BY <4>9, <5>1, <5>3
          <5> QED
            BY <5>1, <5>2, <5>3
        <4>12. RwInOrder(c)
          <5> SUFFICES ASSUME NEW p \in 1 .. Len(c), NEW q \in 1 .. Len(c), p <= q
                       PROVE  c[p].from <= c[q].from
            BY DEF RwInOrder
          <5>1. CASE q <= Len(a)
            <6>1. p <= Len(a)
              BY <4>4, <4>8, <5>1
            <6> QED
              BY <4>7, <4>10, <5>1, <6>1 DEF RwInOrder
          <5>2. CASE q > Len(a)
            BY <4>9, <4>11, <5>2
          <5> QED
            BY <4>11, <5>1, <5>2
        <4>13. Good(k)
          BY <4>3, <4>11, <4>12 DEF Good, c
        <4> QED
          BY <3>2, <4>13
      <3> QED
        BY <3>3, <3>4
    <2>5. n \in 1 .. n
      BY <1>1, <1>6
    <2>6. Good(n)
      <3>1. n \notin U
        <4> HIDE DEF U
        <4> QED
          BY <2>4
      <3> HIDE DEF Good
      <3> QED
        BY <2>5, <3>1
    <2> QED
      BY <2>2, <2>3, <2>5, <2>6
  <1> QED
    BY <1>5, <1>6

\* The scan highlight_ranges defines by recursion, by name.
RwFirst(F, token, from) ==
    CHOOSE q \in FindFrom(F, token, from) : \A q2 \in FindFrom(F, token, from) : q <= q2
RwMatch(F, token, p) == <<F[p].from, F[p + Len(token) - 1].from>>
RwScanFrom(f, F, token, from) ==
    IF FindFrom(F, token, from) = {} THEN <<>>
    ELSE <<RwMatch(F, token, RwFirst(F, token, from))>> \o f[RwFirst(F, token, from) + Len(token)]
RwScan(F, token) == CHOOSE f : f = [from \in 1 .. Len(F) + 1 |-> RwScanFrom(f, F, token, from)]

\* highlight_ranges is its value at the first place.
LEMMA RwHighlightIs ==
    ASSUME NEW text, NEW token
    PROVE  highlight_ranges(text, token) = IF token = <<>> THEN <<>> ELSE RwScan(fold_with_map(text), token)[1]
  BY DEF highlight_ranges, RwScan, RwScanFrom, RwMatch, RwFirst

\* The first place of a token lies inside the letters, and so does the place
\* where the scan goes on.
LEMMA RwFirstIs ==
    ASSUME NEW n, NEW F \in Seq(RwLetters(n)), NEW token \in Seq(Int), token # <<>>,
           NEW from \in 1 .. Len(F) + 1, FindFrom(F, token, from) # {},
           NEW p, p = RwFirst(F, token, from)
    PROVE  /\ p \in FindFrom(F, token, from) /\ p \in from .. Len(F) /\ p + Len(token) \in from + 1 .. Len(F) + 1
           /\ p + Len(token) - 1 \in p .. Len(F)
  <1> DEFINE Q == FindFrom(F, token, from)
  <1>1. Len(F) \in Nat /\ Len(token) \in Nat /\ Len(token) > 0 /\ from \in Nat
    OBVIOUS
  <1>2. Q \subseteq from .. Len(F) - Len(token) + 1
    BY DEF FindFrom
  <1>3. \E q \in Q : \A q2 \in Q : q <= q2
    <2>1. Q \subseteq Nat
      BY <1>1, <1>2
    <2> HIDE DEF Q
    <2> QED
      BY <2>1, LeastNat DEF Q
  <1>4. p \in Q
    BY <1>3 DEF RwFirst
  <1> HIDE DEF Q
  <1>5. p \in from .. Len(F) - Len(token) + 1
    BY <1>2, <1>4
  <1> QED
    BY <1>1, <1>4, <1>5 DEF Q

\* A range is a pair of places.
LEMMA RwMatchTyped ==
    ASSUME NEW n \in Nat, NEW F \in Seq(RwLetters(n)), NEW token \in Seq(Int),
           NEW p \in 1 .. Len(F), p + Len(token) - 1 \in 1 .. Len(F)
    PROVE  RwMatch(F, token, p) \in Int \X Int
  <1>1. ASSUME NEW q \in 1 .. Len(F)
        PROVE  F[q].from \in Int
    <2>1. F[q] \in RwLetters(n)
      OBVIOUS
    <2>2. F[q].from \in 1 .. n
      BY <2>1 DEF RwLetters
    <2> QED
      BY <2>2
  <1> QED
    BY <1>1 DEF RwMatch

\* The scan is defined, from every place.
LEMMA RwScanDefined ==
    ASSUME NEW n \in Nat, NEW F \in Seq(RwLetters(n)), NEW token \in Seq(Int), token # <<>>
    PROVE  RwScan(F, token) = [from \in 1 .. Len(F) + 1 |-> RwScanFrom(RwScan(F, token), F, token, from)]
  <1> DEFINE N == Len(F) + 1
             D(m) == (N + 1 - m) .. N
             Is(g, m) == DOMAIN g = D(m) /\ g = [x \in D(m) |-> g[x]]
                            /\ \A x \in D(m) : g[x] = RwScanFrom(g, F, token, x)
             T == {m \in 0 .. N : ~ \E g : Is(g, m)}
  <1>1. Len(F) \in Nat /\ N \in Nat
    OBVIOUS
  <1>2. ASSUME T # {}
        PROVE  FALSE
    <2>1. PICK m \in T : \A y \in T : m <= y
      <3>1. T \subseteq Nat
        BY <1>1
      <3> HIDE DEF T
      <3> QED
        BY <1>2, <3>1, LeastNat
    <2>2. m \in 0 .. N /\ ~ \E g : Is(g, m)
      OBVIOUS
    <2>3. CASE m = 0
      <3> DEFINE g == [x \in D(0) |-> <<>>]
      <3>1. D(0) = {}
        BY <1>1
      <3>2. Is(g, 0)
        BY <3>1
      <3> HIDE DEF Is
      <3> QED
        BY <2>2, <2>3, <3>2
    <2>4. CASE m # 0
      <3>1. m - 1 \in 0 .. N /\ ~ (m <= m - 1)
        BY <1>1, <2>2, <2>4
      <3>2. PICK g : Is(g, m - 1)
        <4>1. m - 1 \notin T
          <5> HIDE DEF T
          <5> QED
            BY <2>1, <3>1
        <4> HIDE DEF Is
        <4> QED
          BY <3>1, <4>1
      <3> DEFINE a == N + 1 - m
                 e == RwScanFrom(g, F, token, a)
                 h == [x \in D(m) |-> IF x = a THEN e ELSE g[x]]
      <3>3. /\ a \in 1 .. N /\ a \in D(m)
            /\ \A x \in D(m) : x \in 1 .. N /\ (x # a => x \in D(m - 1))
            /\ \A x \in 1 .. N : x > a => x \in D(m - 1) /\ x \in D(m) /\ x # a
        BY <1>1, <2>2, <2>4
      <3>4. \A x \in D(m - 1) : g[x] = RwScanFrom(g, F, token, x)
        BY <3>2
      <3> HIDE DEF D, e
      <3>5. h[a] = e /\ \A x \in 1 .. N : x > a => h[x] = g[x]
        BY <3>3
      <3>10. \A x \in D(m) : x # a => h[x] = g[x]
        BY <3>3
      <3> HIDE DEF h
      <3>6. ASSUME NEW x \in D(m)
            PROVE  RwScanFrom(h, F, token, x) = RwScanFrom(g, F, token, x)
        <4>1. CASE FindFrom(F, token, x) = {}
          BY <4>1 DEF RwScanFrom
        <4>2. CASE FindFrom(F, token, x) # {}
          <5> DEFINE p == RwFirst(F, token, x)
          <5>1. x \in 1 .. N /\ x >= a
            <6>1. x \in 1 .. N
              BY <3>3
            <6>2. x >= a
              BY <1>1, <2>2 DEF D
            <6> QED
              BY <6>1, <6>2
          <5> HIDE DEF a
          <5>2. p + Len(token) \in x + 1 .. N
            BY <4>2, <5>1, RwFirstIs
          <5> HIDE DEF p
          <5>3. p + Len(token) \in 1 .. N /\ p + Len(token) > a
            BY <1>1, <3>3, <5>1, <5>2
          <5>4. h[p + Len(token)] = g[p + Len(token)]
            BY <3>5, <5>3
          <5> QED
            BY <5>4 DEF RwScanFrom, p
        <4> QED
          BY <4>1, <4>2
      <3>7. ASSUME NEW x \in D(m)
            PROVE  h[x] = RwScanFrom(h, F, token, x)
        <4>1. CASE x = a
          BY <3>5, <3>6, <4>1 DEF e
        <4>2. CASE x # a
          BY <3>3, <3>4, <3>6, <3>10, <4>2
        <4> QED
          BY <4>1, <4>2
      <3>8. DOMAIN h = D(m) /\ h = [x \in D(m) |-> h[x]]
        BY DEF h
      <3>9. Is(h, m)
        BY <3>7, <3>8
      <3> HIDE DEF Is
      <3> QED
        BY <2>2, <3>9
    <2> QED
      BY <2>3, <2>4
  <1>3. PICK g : Is(g, N)
    <2>1. N \in 0 .. N /\ N \notin T
      <3> HIDE DEF T
      <3> QED
        BY <1>1, <1>2
    <2> HIDE DEF Is
    <2> QED
      BY <2>1
  <1>4. g = [x \in 1 .. N |-> RwScanFrom(g, F, token, x)]
    <2>1. D(N) = 1 .. N
      BY <1>1
    <2>2. g = [x \in D(N) |-> g[x]] /\ \A x \in D(N) : g[x] = RwScanFrom(g, F, token, x)
      BY <1>3
    <2> HIDE DEF Is, T, D
    <2> QED
      BY <2>1, <2>2
  <1> QED
    BY <1>4 DEF RwScan

\* What a scan from a place finds: places of the token from there on, in order,
\* and none only if there is none.
RwFound(r, F, token, from) ==
    /\ r \in Seq(Int \X Int)
    /\ \A i \in 1 .. Len(r) : \E p \in FindFrom(F, token, from) : r[i] = RwMatch(F, token, p)
    /\ \A i \in 1 .. Len(r) - 1 : r[i][2] <= r[i + 1][1]
    /\ r = <<>> <=> FindFrom(F, token, from) = {}

\* A place after the first match is a place after where the scan began.
LEMMA RwLater ==
    ASSUME NEW p \in Nat, NEW k \in Nat, NEW from \in Nat, NEW z \in Int, NEW l \in Nat,
           from <= p, p >= 1, z <= l, NEW q \in p + k .. z
    PROVE  q \in from .. z /\ q \in p + k .. l /\ q \in 1 .. l /\ p + k - 1 <= q
  OBVIOUS

\* The first match before what the scan finds after it is what it finds.
LEMMA RwFoundStep ==
    ASSUME NEW n \in Nat, NEW F \in Seq(RwLetters(n)), RwInOrder(F), NEW token \in Seq(Int), token # <<>>,
           NEW from \in 1 .. Len(F) + 1, FindFrom(F, token, from) # {},
           NEW p, p = RwFirst(F, token, from),
           NEW s, RwFound(s, F, token, p + Len(token)),
           NEW r, r = <<RwMatch(F, token, p)>> \o s
    PROVE  RwFound(r, F, token, from)
  <1> DEFINE m == RwMatch(F, token, p)
             L == Len(token)
  <1>1. /\ p \in FindFrom(F, token, from) /\ p \in from .. Len(F) /\ p + L \in from + 1 .. Len(F) + 1
        /\ p + L - 1 \in p .. Len(F)
    BY RwFirstIs
  <1>2. Len(F) \in Nat /\ L \in Nat /\ from \in Nat /\ from >= 1 /\ p \in Nat /\ p >= 1
    BY <1>1
  <1>3. m \in Int \X Int
    <2>1. p \in 1 .. Len(F) /\ p + Len(token) - 1 \in 1 .. Len(F)
      BY <1>1, <1>2
    <2> QED
      BY <2>1, RwMatchTyped
  <1>4. s \in Seq(Int \X Int) /\ Len(s) \in Nat
    BY DEF RwFound
  <1>5. \A q \in FindFrom(F, token, p + L) : q \in FindFrom(F, token, from) /\ q \in p + L .. Len(F)
    <2> SUFFICES ASSUME NEW q \in FindFrom(F, token, p + L)
                 PROVE  q \in FindFrom(F, token, from) /\ q \in p + L .. Len(F)
      OBVIOUS
    <2> DEFINE z == Len(F) - L + 1
    <2>1. q \in p + L .. z /\ \A j \in 1 .. L : F[q + j - 1].letter = token[j]
      BY DEF FindFrom
    <2>2. z \in Int /\ z <= Len(F)
      <3>1. L >= 1
        OBVIOUS
      <3> HIDE DEF L
      <3> QED
        BY <1>2, <3>1
    <2>3. q \in from .. z /\ q \in p + L .. Len(F)
      <3>1. from <= p
        BY <1>1, <1>2
      <3> HIDE DEF L, z
      <3> QED
        BY <1>2, <2>1, <2>2, <3>1, RwLater
    <2> QED
      BY <2>1, <2>3 DEF FindFrom
  <1>6. m = <<F[p].from, F[p + L - 1].from>>
    BY DEF RwMatch
  <1> HIDE DEF m, L
  <1>7. /\ r \in Seq(Int \X Int) /\ Len(r) = 1 + Len(s) /\ r[1] = m
        /\ \A i \in 1 .. Len(s) : r[i + 1] = s[i]
    <2>1. <<m>> \in Seq(Int \X Int) /\ Len(<<m>>) = 1 /\ <<m>>[1] = m
      BY <1>3
    <2>2. r = <<m>> \o s
      BY DEF m
    <2>3. /\ r \in Seq(Int \X Int) /\ Len(r) = 1 + Len(s)
          /\ \A i \in 1 .. 1 + Len(s) : r[i] = IF i <= 1 THEN <<m>>[i] ELSE s[i - 1]
      BY <1>4, <2>1, <2>2, ConcatProperties
    <2>4. r[1] = m
      BY <1>4, <2>1, <2>3
    <2>5. ASSUME NEW i \in 1 .. Len(s)
          PROVE  r[i + 1] = s[i]
      <3>1. i + 1 \in 1 .. 1 + Len(s) /\ ~ (i + 1 <= 1) /\ (i + 1) - 1 = i
        BY <1>4
      <3> QED
        BY <2>3, <3>1
    <2> QED
      BY <2>3, <2>4, <2>5
  <1>8. ASSUME NEW i \in 1 .. Len(s)
        PROVE  \E q \in FindFrom(F, token, p + L) : s[i] = RwMatch(F, token, q)
    BY DEF RwFound, L
  <1>9. ASSUME NEW i \in 1 .. Len(r)
        PROVE  \E q \in FindFrom(F, token, from) : r[i] = RwMatch(F, token, q)
    <2>1. CASE i = 1
      BY <1>1, <1>7, <2>1 DEF m
    <2>2. CASE i # 1
      <3>1. i - 1 \in 1 .. Len(s) /\ (i - 1) + 1 = i
        <4>1. Len(r) = 1 + Len(s) /\ Len(s) \in Nat
          BY <1>4, <1>7
        <4> QED
          BY <2>2, <4>1
      <3>2. r[i] = s[i - 1]
        BY <1>7, <3>1
      <3> QED
        BY <1>5, <1>8, <3>1, <3>2
    <2> QED
      BY <2>1, <2>2
  <1>10. ASSUME NEW i \in 1 .. Len(r) - 1
         PROVE  r[i][2] <= r[i + 1][1]
    <2>1. CASE i = 1
      <3>1. 1 \in 1 .. Len(s) /\ r[2] = s[1]
        BY <1>4, <1>7, <2>1
      <3>2. PICK q \in FindFrom(F, token, p + L) : s[1] = RwMatch(F, token, q)
        BY <1>8, <3>1
      <3>3. q \in 1 .. Len(F) /\ p + L - 1 \in 1 .. Len(F) /\ p + L - 1 <= q
        <4>1. q \in p + L .. Len(F)
          BY <1>5
        <4>2. q \in 1 .. Len(F) /\ p + L - 1 <= q
          <5>1. from <= p /\ Len(F) \in Int /\ Len(F) <= Len(F)
            BY <1>1, <1>2
          <5> QED
            BY <1>2, <4>1, <5>1, RwLater
        <4>3. p + L - 1 \in 1 .. Len(F)
          <5>1. p + L - 1 \in p .. Len(F)
            BY <1>1
          <5> QED
            BY <1>2, <5>1
        <4> QED
          BY <4>2, <4>3
      <3>4. F[p + L - 1].from <= F[q].from
        BY <3>3 DEF RwInOrder
      <3>5. s[1][1] = F[q].from
        BY <3>2 DEF RwMatch
      <3>6. r[1][2] = F[p + L - 1].from
        BY <1>6, <1>7
      <3> QED
        BY <2>1, <3>1, <3>4, <3>5, <3>6
    <2>2. CASE i # 1
      <3>1. i - 1 \in 1 .. Len(s) - 1 /\ (i - 1) + 1 = i /\ i \in 1 .. Len(s) /\ i - 1 \in 1 .. Len(s)
        BY <1>4, <1>7, <2>2
      <3>2. r[i] = s[i - 1] /\ r[i + 1] = s[i]
        BY <1>7, <3>1
      <3>3. s[i - 1][2] <= s[(i - 1) + 1][1]
        BY <3>1 DEF RwFound
      <3> QED
        BY <3>1, <3>2, <3>3
    <2> QED
      BY <2>1, <2>2
  <1>11. r # <<>>
    BY <1>4, <1>7
  <1> QED
    BY <1>7, <1>9, <1>10, <1>11 DEF RwFound

\* Every scan finds what it should: by the nearest place to the end where one
\* would not.
LEMMA RwScanFinds ==
    ASSUME NEW n \in Nat, NEW F \in Seq(RwLetters(n)), RwInOrder(F), NEW token \in Seq(Int), token # <<>>,
           NEW from0 \in 1 .. Len(F) + 1
    PROVE  RwFound(RwScan(F, token)[from0], F, token, from0)
  <1> DEFINE N == Len(F) + 1
             f == RwScan(F, token)
             T == {m \in 0 .. N : N - m \in 1 .. N /\ ~ RwFound(f[N - m], F, token, N - m)}
  <1>1. Len(F) \in Nat /\ N \in Nat
    OBVIOUS
  <1>2. f = [x \in 1 .. N |-> RwScanFrom(f, F, token, x)]
    BY RwScanDefined
  <1> HIDE DEF f
  <1>3. \A x \in 1 .. N : f[x] = RwScanFrom(f, F, token, x)
    BY <1>2
  <1>4. ASSUME T # {}
        PROVE  FALSE
    <2>1. PICK m \in T : \A y \in T : m <= y
      <3>1. T \subseteq Nat
        BY <1>1
      <3> HIDE DEF T
      <3> QED
        BY <1>4, <3>1, LeastNat
    <2> DEFINE x == N - m
    <2>2. m \in 0 .. N /\ x \in 1 .. N /\ ~ RwFound(f[x], F, token, x)
      OBVIOUS
    <2>3. CASE FindFrom(F, token, x) = {}
      <3>1. f[x] = <<>>
        BY <1>3, <2>2, <2>3 DEF RwScanFrom
      <3>2. RwFound(<<>>, F, token, x)
        BY <2>3 DEF RwFound
      <3> QED
        BY <2>2, <3>1, <3>2
    <2>4. CASE FindFrom(F, token, x) # {}
      <3> DEFINE p == RwFirst(F, token, x)
                 y == p + Len(token)
      <3>1. x \in 1 .. Len(F) + 1
        BY <2>2
      <3>2. y \in x + 1 .. N
        <4> HIDE DEF x
        <4> QED
          BY <2>4, <3>1, RwFirstIs
      <3> HIDE DEF p
      <3> HIDE DEF y
      <3>3. N - y \in 0 .. N /\ N - (N - y) = y /\ y \in 1 .. N /\ ~ (m <= N - y)
        BY <1>1, <2>2, <3>2
      <3>4. RwFound(f[y], F, token, y)
        <4>1. N - y \notin T
          <5> HIDE DEF T
          <5> QED
            BY <2>1, <3>3
        <4> QED
          BY <3>3, <4>1
      <3>5. f[x] = <<RwMatch(F, token, p)>> \o f[y]
        BY <1>3, <2>2, <2>4 DEF RwScanFrom, p, y
      <3>6. RwFound(f[x], F, token, x)
        <4> HIDE DEF x
        <4> QED
          BY <2>4, <3>1, <3>4, <3>5, RwFoundStep DEF p, y
      <3> QED
        BY <2>2, <3>6
    <2> QED
      BY <2>3, <2>4
  <1>5. N - from0 \in 0 .. N /\ N - (N - from0) = from0 /\ N - from0 \notin T
    <2>1. N - from0 \in 0 .. N /\ N - (N - from0) = from0
      BY <1>1
    <2> HIDE DEF T
    <2> QED
      BY <1>4, <2>1
  <1> QED
    BY <1>5 DEF f

\* The highlight of any title by any token.
LEMMA RwHighlightsTrue == HighlightsTrue
  <1> SUFFICES ASSUME NEW text \in RwTexts, NEW token \in RwTokens
               PROVE  LET folded == fold_with_map(text)
                          ranges == highlight_ranges(text, token)
                      IN  /\ \A i \in 1 .. Len(ranges) :
                                \E p \in FindFrom(folded, token, 1) :
                                    ranges[i] = <<folded[p].from, folded[p + Len(token) - 1].from>>
                          /\ \A i \in 1 .. Len(ranges) - 1 : ranges[i][2] <= ranges[i + 1][1]
                          /\ (ranges = <<>>) <=> (token = <<>> \/ FindFrom(folded, token, 1) = {})
    BY DEF HighlightsTrue
  <1> DEFINE F == fold_with_map(text)
             ranges == highlight_ranges(text, token)
             n == Len(text)
  <1>1. text \in Seq(Seq(Int)) /\ token \in Seq(Int)
    BY RwAssumption
  <1>2. n \in Nat /\ F \in Seq(RwLetters(n)) /\ RwInOrder(F)
    BY <1>1, RwFolded
  <1>3. ranges = IF token = <<>> THEN <<>> ELSE RwScan(F, token)[1]
    BY RwHighlightIs
  <1> HIDE DEF F, ranges, n
  <1>4. CASE token = <<>>
    <2>1. ranges = <<>>
      BY <1>3, <1>4
    <2> QED
      BY <1>4, <2>1 DEF F, ranges
  <1>5. CASE token # <<>>
    <2>1. 1 \in 1 .. Len(F) + 1
      BY <1>2
    <2>2. RwFound(ranges, F, token, 1)
      BY <1>1, <1>2, <1>3, <1>5, <2>1, RwScanFinds
    <2>3. /\ \A i \in 1 .. Len(ranges) :
                \E p \in FindFrom(F, token, 1) : ranges[i] = <<F[p].from, F[p + Len(token) - 1].from>>
          /\ \A i \in 1 .. Len(ranges) - 1 : ranges[i][2] <= ranges[i + 1][1]
          /\ ranges = <<>> <=> FindFrom(F, token, 1) = {}
      BY <2>2 DEF RwFound, RwMatch
    <2> QED
      BY <1>5, <2>3 DEF F, ranges
  <1> QED
    BY <1>4, <1>5

\* In whatever order the list changes and GTK recycles its rows, a row shows the
\* hit it answers for and the registry finds it (factory.rs); the popover count
\* is that of the open ones; an icon is decoded once (icons.rs); a toast's timer
\* ends that toast and no other (status.rs); every child is reaped and a failure
\* told (reaper.rs); a highlight covers the first occurrences of its token,
\* whatever letters the title folds to, and the jumps between categories go
\* round all of them (keymap.rs).
THEOREM RowsAlwaysSound == RwSpec => []RowsSound
  <1>1. RwInv => RowsSound
    BY RwInvSound, RwHighlightsTrue, RwJumpsCycle DEF RowsSound
  <1> QED
    BY <1>1, RwAlways, PTL

\* Rows, icons, status bar, children and reaper have their types whatever the
\* widgets of factory.rs, icons.rs, status.rs and reaper.rs are asked for.
THEOREM RowsTyped == RwSpec => []RwTypeOK
  BY RwAlways, RwInvTyped, PTL
================================================================================
