------------------------------ MODULE PlotData -------------------------------
(***************************************************************************)
(* What a plot draws of its data (widgets/plot.hpp, plot_render.hpp): the  *)
(* fitted y range, kept for a number of uses while the sizes of the series *)
(* do not change, and a polyline for each series, kept while its revision, *)
(* its size and the mapping do not change, and thinned to the lowest and   *)
(* the highest sample of each pixel column when the series is dense.       *)
(*                                                                         *)
(* The sample i of a series has x = i and a y out of a small set, or is    *)
(* not a number (NaN).  The padding of a fit is left out.                  *)
(***************************************************************************)
EXTENDS Integers, FiniteSets, FiniteSetsExt, Sequences, SequencesExt

CONSTANTS
    Ys, NaN,         \* samples
    Columns,         \* width of the plot area in pixels
    Sizes,           \* sizes of a series when it is added
    Throttle,        \* auto_fit_throttle_frames
    MaxSeries, MaxSize, MaxEdits   \* bounds

VARIABLE pd          \* [series, rev, fit, caches; dirty, behind, edits: history]

Samples == Ys \cup {NaN}
NoFit == [valid |-> FALSE, lo |-> 0, hi |-> 0, key |-> <<>>, used |-> 0]
NoCache == [valid |-> FALSE, rev |-> 0, size |-> 0, map |-> <<0, 0>>, pts |-> <<>>]

PdaInit ==
    pd = [series |-> <<>>, rev |-> 0, fit |-> NoFit, caches |-> <<>>,
          dirty |-> FALSE, behind |-> 0, edits |-> 0]

PdaTypeOK ==
    /\ \A n \in DOMAIN pd.series : pd.series[n] \in Seq(Samples) /\ Len(pd.series[n]) <= MaxSize
    /\ pd.fit.used \in 0 .. Throttle

-----------------------------------------------------------------------------
(* The fit. *)

\* auto_fit_ranges: std::min(lo, NaN) is lo, so that a NaN changes nothing, and
\* with nothing else the range stays the inverted one the scan starts from.
Inverted == <<99, -99>>
Fit(series) ==
    LET ys == UNION {Range(s) : s \in Range(series)} IN
    IF ys = {} THEN <<0, 1>>
    ELSE IF ys = {NaN} THEN Inverted
    ELSE LET lo == Min(ys \ {NaN}) hi == Max(ys \ {NaN}) IN
         IF lo = hi THEN <<lo - 1, hi + 1>> ELSE <<lo, hi>>

\* auto_fit_data_key
Key(series) == [n \in DOMAIN series |-> Len(series[n])]

\* resolve_auto_fit_ranges
Resolved(d) ==
    IF d.fit.valid /\ d.fit.key = Key(d.series) /\ d.fit.used < Throttle
    THEN [d.fit EXCEPT !.used = @ + 1]
    ELSE [valid |-> TRUE, lo |-> Fit(d.series)[1], hi |-> Fit(d.series)[2],
          key |-> Key(d.series), used |-> 0]

-----------------------------------------------------------------------------
(* The polylines: sequences of <<sample, y>>. *)

\* The pixel column of a sample among the Len(s) samples of the fitted x range.
Column(s, i) == ((i - 1) * Columns) \div Len(s)

InColumn(s, c) == {i \in DOMAIN s : Column(s, i) = c /\ s[i] # NaN}

\* decimated_series_points: the first lowest and the first highest of a column, in
\* the order of the samples.
Extremes(s, c) ==
    LET is == InColumn(s, c)
        low == Min({i \in is : \A j \in is : s[i] <= s[j]})
        high == Min({i \in is : \A j \in is : s[i] >= s[j]})
    IN IF is = {} THEN {} ELSE {low, high}

\* More than four samples for a pixel (and x never decreasing).
Dense(s) == Len(s) > 4 * Columns

Points(s) ==
    LET kept == IF Dense(s) THEN UNION {Extremes(s, c) : c \in 0 .. Columns - 1}
                ELSE DOMAIN s
        is == SetToSortSeq(kept, <)
    IN [n \in DOMAIN is |-> <<is[n], s[is[n]]>>]

\* draw_series, one series: the slot of its cache after it is drawn.
Drawn(d, n, slot) ==
    LET s == d.series[n] map == <<d.fit.lo, d.fit.hi>> IN
    IF Len(s) < 2 \/ (slot.valid /\ slot.rev = d.rev /\ slot.size = Len(s) /\ slot.map = map)
    THEN slot
    ELSE [valid |-> TRUE, rev |-> d.rev, size |-> Len(s), map |-> map, pts |-> Points(s)]

-----------------------------------------------------------------------------
(* The operations. *)

Edit(d) == [d EXCEPT !.edits = @ + 1]

\* Mutated Forgotten: the caches stay when the series change.
Kept(caches) == caches

Forgotten(caches) == <<>>

\* add_series, remove_series, clear_series: the caches are dropped.
AddSeries(s) ==
    /\ Len(pd.series) < MaxSeries /\ pd.edits < MaxEdits
    /\ pd' = [Edit(pd) EXCEPT !.series = Append(@, s), !.caches = Forgotten(@)]

RemoveSeries(n) ==
    /\ n \in DOMAIN pd.series /\ pd.edits < MaxEdits
    /\ pd' = [Edit(pd) EXCEPT !.series = RemoveAt(@, n), !.caches = Forgotten(@)]

\* The data changes in place, or grows, behind the source; notify() says so.
Overwrite(n, i, y) ==
    /\ n \in DOMAIN pd.series /\ i \in DOMAIN pd.series[n] /\ pd.edits < MaxEdits
    /\ pd.series[n][i] # y
    /\ pd' = [Edit(pd) EXCEPT !.series[n][i] = y, !.dirty = TRUE]

Grow(n, y) ==
    /\ n \in DOMAIN pd.series /\ Len(pd.series[n]) < MaxSize /\ pd.edits < MaxEdits
    /\ pd' = [Edit(pd) EXCEPT !.series[n] = Append(@, y)]

Notify ==
    /\ pd.dirty
    /\ pd' = [pd EXCEPT !.rev = @ + 1, !.dirty = FALSE]

\* How long the fit in use has not been the fit of the data.
Counted(d) == [d EXCEPT !.behind = IF <<d.fit.lo, d.fit.hi>> = Fit(d.series) THEN 0 ELSE @ + 1]

\* An input over the plot resolves the ranges too.
Input == pd' = Counted([pd EXCEPT !.fit = Resolved(pd)])

\* canvas: resolve the ranges, align the slots, draw.
Paint ==
    LET d == [pd EXCEPT !.fit = Resolved(pd)]
        slots == IF Len(d.caches) # Len(d.series)
                 THEN [n \in DOMAIN d.series |-> NoCache] ELSE d.caches
        drawn == [n \in DOMAIN d.series |-> Drawn(d, n, slots[n])]
    IN pd' = Counted([d EXCEPT !.caches = drawn])

PdaNext ==
    \/ \E k \in Sizes, y \in Ys : AddSeries([i \in 1 .. k |-> y])
    \/ \E n \in 1 .. MaxSeries :
          \/ RemoveSeries(n)
          \/ \E i \in 1 .. MaxSize, y \in Samples : Overwrite(n, i, y)
          \/ \E y \in Ys : Grow(n, y)
    \/ Notify \/ Input \/ Paint

-----------------------------------------------------------------------------
\* Every paint after a notification shows each series: in each pixel column the
\* lowest and the highest sample there is, whatever was cached, added, removed,
\* thinned or missing.  (draw_series, decimated_series_points, canvas)
EnvelopeShown ==
    Paint /\ ~pd.dirty =>
        \A n \in DOMAIN pd.series :
            LET s == pd.series[n] IN
            Len(s) >= 2 =>
                \A c \in 0 .. Columns - 1 :
                    LET ys == {s[i] : i \in InColumn(s, c)}
                        shown == {p[2] : p \in {q \in Range(pd'.caches[n].pts) :
                                                q[1] \in InColumn(s, c)}}
                    IN ys # {} => {Min(ys), Max(ys)} \subseteq shown /\ shown \subseteq ys

\* A new extreme is in range at most Throttle uses of the range late.
\* (resolve_auto_fit_ranges, auto_fit_throttle_frames)
FitRecent == pd.behind <= Throttle
=============================================================================
