----------------------------- MODULE BoardPage ------------------------------
(***************************************************************************)
(* The room board in the browser (static/js/board.js): tiles replaced      *)
(* whole by every poll, filters that are local to the page, the badge, the *)
(* label of a board that lost the server, and the slide-over panel with    *)
(* its own requests and the timer that hides it after a close.  The two    *)
(* animation frames before the is-open class are left out.                 *)
(***************************************************************************)
EXTENDS Integers, FiniteSets

CONSTANTS
  BoardRooms,     \* rooms of the campus
  BuildingOf,     \* the building of each
  Boards,         \* what a poll may bring: the states of the rooms that are not idle
  Matching,       \* rooms whose search text holds the word typed
  MaxTimers       \* bound on the closes whose timer has not run

AnyBuilding == "all"
NoPanel == "none"
AlertStates == {"absent", "starting"}

VARIABLES
  tiles,      \* data-state of each tile in the page
  hidden,     \* tiles hidden
  bar,        \* filters, the badge, the "no match" notice
  stamp,      \* the label under the board: its words and its class
  panel,      \* the slide-over: hidden, the is-open class, the room shown, the opener, done()
              \* still listening for the end of a transition
  asked,      \* panel requests under way
  timers,     \* calls of done() still to come from setTimeout
  bhist       \* last poll failed; panel requests overlapped; opened before a timer ran

boardVars == <<tiles, hidden, bar, stamp, panel, asked, timers, bhist>>

Filters == [building : {AnyBuilding} \union {BuildingOf[r] : r \in BoardRooms},
            alert : BOOLEAN, q : BOOLEAN]
NoFilters == [building |-> AnyBuilding, alert |-> FALSE, q |-> FALSE]

Alerts(t) == {r \in DOMAIN t : t[r] \in AlertStates}

matches(f, t, r) ==
  /\ f.building # AnyBuilding => BuildingOf[r] = f.building
  /\ f.alert => r \in Alerts(t)
  /\ f.q => r \in Matching

\* apply(): tiles are shown or hidden, and the notice with them.
apply(f, t) ==
  LET shown == {r \in DOMAIN t : matches(f, t, r)}
  IN  /\ tiles' = t /\ hidden' = DOMAIN t \ shown
      /\ bar' = [filters |-> f, badge |-> bar.badge, nomatch |-> f # NoFilters /\ shown = {}]

\* The page is opened before any room has a class.
BoardInit ==
  /\ tiles = [r \in {} |-> "idle"] /\ hidden = {}
  /\ bar = [filters |-> NoFilters, badge |-> 0, nomatch |-> FALSE]
  /\ stamp = [text |-> "updated", stale |-> FALSE]
  /\ panel = [hidden |-> TRUE, open |-> FALSE, room |-> NoPanel, opener |-> NoPanel,
              listening |-> FALSE]
  /\ asked = {} /\ timers = 0
  /\ bhist = [failed |-> FALSE, overlapped |-> FALSE, raced |-> FALSE]

-----------------------------------------------------------------------------
\* A chip, the clear button or the search box.
set_filters(f) ==
  /\ f # bar.filters
  /\ apply(f, tiles)
  /\ UNCHANGED <<stamp, panel, asked, timers, bhist>>

one_filter(f) ==
  \/ \E b \in {AnyBuilding} \union {BuildingOf[r] : r \in BoardRooms} :
       f = [bar.filters EXCEPT !.building = b]
  \/ f = [bar.filters EXCEPT !.alert = ~@]
  \/ f = [bar.filters EXCEPT !.q = ~@]
  \/ f = NoFilters

\* Mutant: new tiles come up unfiltered.
poll_swap_unfiltered(t) ==
  /\ tiles' = t /\ hidden' = {}
  /\ bar' = [bar EXCEPT !.badge = Cardinality(Alerts(t))]
  /\ stamp' = [text |-> "updated", stale |-> FALSE]
  /\ bhist' = [bhist EXCEPT !.failed = FALSE]
  /\ UNCHANGED <<panel, asked, timers>>

\* afterSwap of #board: filters again, badge again; the new stamp came with the tiles.
poll_swap(t) ==
  LET shown == {r \in DOMAIN t : matches(bar.filters, t, r)}
  IN  /\ tiles' = t /\ hidden' = DOMAIN t \ shown
      /\ bar' = [filters |-> bar.filters, badge |-> Cardinality(Alerts(t)),
                 nomatch |-> bar.filters # NoFilters /\ shown = {}]
      /\ stamp' = [text |-> "updated", stale |-> FALSE]
      /\ bhist' = [bhist EXCEPT !.failed = FALSE]
      /\ UNCHANGED <<panel, asked, timers>>

\* The request does not get through, or is answered with an error: an answer of either
\* kind ends with afterOnLoad, which takes the class away and leaves the words.
poll_failed(answered) ==
  /\ stamp' = [text |-> "reconnecting", stale |-> ~answered]
  /\ bhist' = [bhist EXCEPT !.failed = TRUE]
  /\ UNCHANGED <<tiles, hidden, bar, panel, asked, timers>>

-----------------------------------------------------------------------------
\* A click on a tile asks for its panel; a tile asks once at a time.
panel_ask(r) ==
  /\ r \in DOMAIN tiles \ (hidden \union asked) /\ ~panel.open
  /\ asked' = asked \union {r} /\ panel' = [panel EXCEPT !.opener = r]
  /\ bhist' = [bhist EXCEPT !.overlapped = @ \/ asked # {}]
  /\ UNCHANGED <<tiles, hidden, bar, stamp, timers>>

\* openSheet when the answer is swapped in.
panel_answer(r) ==
  /\ r \in asked
  /\ asked' = asked \ {r}
  /\ panel' = [panel EXCEPT !.hidden = FALSE, !.open = TRUE, !.room = r]
  /\ bhist' = [bhist EXCEPT !.raced = @ \/ timers > 0]
  /\ UNCHANGED <<tiles, hidden, bar, stamp, timers>>

panel_lost(r) ==
  /\ r \in asked
  /\ asked' = asked \ {r}
  /\ UNCHANGED <<tiles, hidden, bar, stamp, panel, timers, bhist>>

\* closeSheet: Escape, the button or the scrim; hiding is left to done().
closeSheet ==
  /\ ~panel.hidden /\ timers < MaxTimers
  /\ panel' = [panel EXCEPT !.open = FALSE, !.opener = NoPanel, !.listening = TRUE]
  /\ timers' = timers + 1
  /\ UNCHANGED <<tiles, hidden, bar, stamp, asked, bhist>>

\* done() from a transition that ends, or from a timer: it hides whatever is open by then.
transition_end ==
  /\ panel.listening
  /\ panel' = [panel EXCEPT !.hidden = TRUE, !.listening = FALSE]
  /\ UNCHANGED <<tiles, hidden, bar, stamp, asked, timers, bhist>>

close_timer ==
  /\ timers > 0 /\ timers' = timers - 1
  /\ panel' = [panel EXCEPT !.hidden = TRUE, !.listening = @ /\ timers > 1]
  /\ UNCHANGED <<tiles, hidden, bar, stamp, asked, bhist>>

BoardNext ==
  \/ \E f \in Filters : one_filter(f) /\ set_filters(f)
  \/ \E t \in Boards : poll_swap(t)
  \/ \E answered \in BOOLEAN : poll_failed(answered)
  \/ \E r \in BoardRooms : panel_ask(r) \/ panel_answer(r) \/ panel_lost(r)
  \/ closeSheet \/ transition_end \/ close_timer

-----------------------------------------------------------------------------
\* Whatever the order of polls, failures, filters and panels: exactly the tiles that do
\* not match are hidden, the notice stands when none is left, the badge counts the rooms
\* that need attention, a board that could not be refreshed says so, and a visible panel
\* was asked for: it is the room of the tile the focus returns to unless two were asked
\* for at once, and it stays until it is closed unless it was opened before the timer of
\* an earlier close had run.
BoardKept ==
  /\ hidden = {r \in DOMAIN tiles : ~matches(bar.filters, tiles, r)}
  /\ bar.nomatch = (bar.filters # NoFilters /\ hidden = DOMAIN tiles)
  /\ bar.badge = Cardinality(Alerts(tiles))
  /\ bhist.failed = (stamp.text = "reconnecting")
  /\ panel.open /\ ~bhist.overlapped => panel.opener \in {panel.room, NoPanel}
  /\ panel.open /\ ~bhist.raced => ~panel.hidden
=============================================================================
