----------------------------- MODULE ActivityFeed -----------------------------
(***************************************************************************)
(* The live activity feed: the ActivityFeed hook of app.js over the list   *)
(* that LiveView renders, newest first (dashboard.ex, activity_feed_panel). *)
(* The browser does not anchor the scroll itself ("overflow-anchor: none"). *)
(*                                                                         *)
(* The hook knows a row by data-event-id, the time of its event.  Events   *)
(* of one time are common, those of a batch or of several nodes come in    *)
(* any order of times, and querySelector returns the first row of a time.  *)
(*                                                                         *)
(* Positions are in rows: every row has the height of one, and "near the   *)
(* top" is the top.  A scroll event is delivered some time after the       *)
(* scroll it tells of.                                                     *)
(***************************************************************************)
EXTENDS Integers, Sequences

CONSTANTS
  Room,        \* rows visible at once
  MaxRows,     \* rows rendered (100 in the panel)
  Times,       \* times of events, in milliseconds
  MaxSteps     \* bound on events received and on scrolls of the reader

ASSUME FeedAssumption ==
  /\ Room \in Nat \ {0} /\ MaxRows \in Nat /\ MaxSteps \in Nat
  /\ Times \subseteq Nat \ {0}

VARIABLES
  rows,        \* events rendered, the last to come first: its number and time
  scrollTop,
  telling,     \* is a scroll event on its way?
  follow,      \* autoScroll and userHasScrolled
  anchor,      \* time of the row saved for the next update, its offset, scrollTop
  still,       \* has the reader not scrolled since the last update?
  steps

feedVars == <<rows, scrollTop, telling, follow, anchor, still, steps>>

\* No row has the time 0.
NoAnchor == [time |-> 0, offset |-> 0, saved |-> 0]

Lowest(list)  == IF Len(list) > Room THEN Len(list) - Room ELSE 0
Within(list, y) == IF y < 0 THEN 0 ELSE IF y > Lowest(list) THEN Lowest(list) ELSE y
TopRow == rows[scrollTop + 1]

\* querySelector: the first row of a time.
IsFirst(list, time, i) ==
  list[i].time = time /\ \A j \in DOMAIN list : j < i => list[j].time # time
Lists(list, time)  == \E i \in DOMAIN list : IsFirst(list, time, i)
Offset(list, time) == (CHOOSE i \in DOMAIN list : IsFirst(list, time, i)) - 1

\* The scroll listener.
Told ==
  /\ telling /\ telling' = FALSE
  /\ follow' = IF scrollTop > 0 THEN [auto |-> FALSE, scrolled |-> TRUE]
               ELSE IF follow.scrolled THEN [follow EXCEPT !.auto = TRUE]
               ELSE follow
  /\ UNCHANGED <<rows, scrollTop, anchor, still, steps>>

\* The reader scrolls.
Scroll(y) ==
  /\ steps < MaxSteps /\ steps' = steps + 1
  /\ y # scrollTop
  /\ scrollTop' = y /\ telling' = TRUE /\ still' = FALSE
  /\ UNCHANGED <<rows, follow, anchor>>

\* n new events, the last of which has the highest number.
Numbered(n, top, times) == [i \in 1..n |-> [nr |-> top + 1 - i, time |-> times[i]]]
Prepended(n, times) ==
  LET all == Numbered(n, n + (IF rows = <<>> THEN 0 ELSE rows[1].nr), times) \o rows
  IN SubSeq(all, 1, IF Len(all) > MaxRows THEN MaxRows ELSE Len(all))

\* Variant: the scroll is moved by the distance alone.
CompensatedByRows(list, y) ==
  Within(list, y + Len(list) - Len(rows))

\* The scroll that keeps the saved row where it was; none is saved before the
\* first update of a paused feed, and one the list has dropped is not found.
Compensated(list, y) ==
  IF ~Lists(list, anchor.time) \/ Offset(list, anchor.time) = anchor.offset
  THEN y
  ELSE Within(list, anchor.saved + Offset(list, anchor.time) - anchor.offset)

\* updated(): a paused feed saves its top row; "Waiting for requests" has no time.
Rendered(list) ==
  LET y == IF follow.auto THEN 0 ELSE Compensated(list, Within(list, scrollTop)) IN
  /\ rows' = list /\ scrollTop' = y
  /\ telling' = (telling \/ y # scrollTop)
  /\ anchor' = IF follow.auto THEN anchor ELSE
                IF list = <<>> THEN NoAnchor
                ELSE [time |-> list[y + 1].time, offset |-> y, saved |-> y]
  /\ still' = TRUE
  /\ UNCHANGED follow

\* LiveView has rendered n new events.
Update(n) ==
  /\ steps < MaxSteps /\ steps' = steps + 1
  /\ \E times \in [1..n -> Times] : Rendered(Prepended(n, times))

\* Another profile: its events are yet to come.
Switch ==
  /\ steps < MaxSteps /\ steps' = steps + 1
  /\ rows # <<>> /\ Rendered(<<>>)

\* mounted(), with the rows of the first render.
FeedInit ==
  /\ \E n \in 0..MaxRows : \E times \in [1..n -> Times] : rows = Numbered(n, n, times)
  /\ scrollTop = 0 /\ telling = FALSE
  /\ follow = [auto |-> TRUE, scrolled |-> FALSE]
  /\ anchor = NoAnchor /\ still = TRUE /\ steps = 0

FeedNext ==
  \/ Told
  \/ \E y \in 0..Lowest(rows) : Scroll(y)
  \/ \E n \in 1..2 : Update(n)
  \/ Switch

FeedSpec == FeedInit /\ [][FeedNext]_feedVars

-----------------------------------------------------------------------------
(* Properties                                                              *)

Paused == ~follow.auto /\ rows # <<>>

\* Is a paused feed left on the row it was on?  (Or the feed no longer has the
\* row, or no longer the room.)
Stays ==
  \A i \in DOMAIN rows' : rows'[i].nr = TopRow.nr =>
    i - 1 > Lowest(rows') \/ scrollTop' = i - 1

\* Is it left on the first row of the time it was on?
MomentStays ==
  \A i \in DOMAIN rows' : IsFirst(rows', TopRow.time, i) =>
    i - 1 > Lowest(rows') \/ scrollTop' = i - 1

\* Is its row, where it is still listed, the first of its time?
Alone ==
  \A i \in DOMAIN rows' : rows'[i].nr = TopRow.nr => IsFirst(rows', TopRow.time, i)

\* "Uses simple scroll compensation to preserve position during updates"
\* (app.js:132): a reader of older events is not moved by new ones, at least when
\* no row above his has the same time.
PositionPreserved == [][rows' # rows /\ Paused /\ Alone => Stays]_feedVars

\* A reader who rests on a row from one update to the next stays at the time he
\* reads, also when the list is at its limit and rows fall off its end; and he is
\* not moved unless a row above his has the same time.
RestingReaderStays ==
  [][rows' # rows /\ Paused /\ still => MomentStays /\ (Alone => Stays)]_feedVars
=============================================================================
