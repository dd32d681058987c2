----------------------------- MODULE PushOutbox -----------------------------
(***************************************************************************)
(* Notifications from the row to the browser: the outbox pass of the       *)
(* scheduler (ops/push.py), the subscriptions a browser's tabs register    *)
(* and drop (web/push.py, static/js/push.js), mutes, and the dropdown that *)
(* marks read what it has shown (web/notifications.py).  Passes are cut by *)
(* crashes, the push vendor answers as it likes, requests get lost.        *)
(***************************************************************************)
EXTENDS Integers, FiniteSets

CONSTANTS
  Notes,          \* notification ids
  NoteUser,       \* recipient of each
  NoteType,       \* notify() type of each
  PushUsers,      \* users who share the one browser of the instance
  Mutable,        \* the <<user, category>> switches that are used
  BrowserTabs,    \* open tabs of that browser
  Endpoints,      \* endpoints the vendor hands out, each at most once
  PREVIEW_LIMIT,  \* rows a dropdown shows
  PushWindow,     \* age after which the outbox leaves a row alone
  MaxPushTime, MaxRows, MaxCuts   \* bounds of the instance

NoEndpoint == "no endpoint"

\* The mute groups and the key events (ops/notifications.py).
CATEGORY_TYPES ==
  [room    |-> {"room_event", "room_conflict", "guard_floor_alert"},
   reports |-> {"weekly_report_ready"},
   system  |-> {"job_failed", "modality_materialize_no_room"}]
PUSH_TYPES == {"room_event", "room_conflict", "weekly_report_ready", "guard_floor_alert"}
Categories == DOMAIN CATEGORY_TYPES

ASSUME PushAssumption ==
  /\ NoteUser \in [Notes -> PushUsers] /\ IsFiniteSet(Notes)
  /\ PREVIEW_LIMIT \in Nat /\ PushWindow \in Nat
  /\ MaxPushTime \in Nat /\ MaxRows \in Nat /\ MaxCuts \in Nat
  /\ {"idle", "row"} \cap Notes = {} /\ NoEndpoint \notin Endpoints /\ Mutable \subseteq PushUsers \X Categories

PushRow == [id : 1..MaxRows, ep : Endpoints, user : PushUsers]

VARIABLES
  pclock,    \* minutes
  note,      \* made at (-1 = not yet), pushed_at set, read_at set
  mute,      \* NotificationMute rows
  subs,      \* PushSubscription rows; nothing makes an endpoint unique
  browser,   \* signed-in user, live endpoint, endpoints it has dropped
  request,   \* request each tab has in flight
  pass,      \* the running outbox pass
  drop,      \* rows a dropdown has rendered and not yet marked, per user
  seen       \* history: <<note, row>> sent, notes sent again, cut, shown; row ids used

pushVars == <<pclock, note, mute, subs, browser, request, pass, drop, seen>>

NoPass == [pc |-> "idle", todo |-> {}, left |-> {}]
NoReq  == [kind |-> "none", ep |-> NoEndpoint, user |-> CHOOSE u \in PushUsers : TRUE]

PushInit ==
  /\ pclock = 0
  /\ note = [n \in Notes |-> [made |-> -1, pushed |-> FALSE, read |-> FALSE]]
  /\ mute = {} /\ subs = {}
  /\ browser = [user |-> NoReq.user, live |-> NoEndpoint, dropped |-> {}]
  /\ request = [t \in BrowserTabs |-> NoReq]
  /\ pass = NoPass
  /\ drop = [u \in PushUsers |-> {}]
  /\ seen = [sent |-> {}, again |-> {}, cut |-> {}, shown |-> {}, rows |-> 0, cuts |-> 0]

-----------------------------------------------------------------------------
\* Notifications: written, muted, shown.
Made == {n \in Notes : note[n].made >= 0}

muted_types(u) == UNION {CATEGORY_TYPES[c] : c \in {d \in Categories : <<u, d>> \in mute}}

visible_qs(u) == {n \in Made : NoteUser[n] = u /\ NoteType[n] \notin muted_types(u)}

\* The badge every page carries.
unread_count(u) == Cardinality({n \in visible_qs(u) : ~note[n].read})
notifications(u) == [unread |-> unread_count(u)]

\* The newest of the visible rows, as many as the page shows.
Newest(S) == {T \in SUBSET S :
                /\ Cardinality(T) = IF Cardinality(S) < PREVIEW_LIMIT THEN Cardinality(S)
                                    ELSE PREVIEW_LIMIT
                /\ \A n \in T, k \in S \ T : note[k].made <= note[n].made}

notify(n) ==
  /\ n \notin Made
  /\ note' = [note EXCEPT ![n].made = pclock]
  /\ UNCHANGED <<pclock, mute, subs, browser, request, pass, drop, seen>>

mute_toggle(u, c) ==
  /\ mute' = IF <<u, c>> \in mute THEN mute \ {<<u, c>>} ELSE mute \union {<<u, c>>}
  /\ UNCHANGED <<pclock, note, subs, browser, request, pass, drop, seen>>

\* The rows are rendered first and marked afterwards, by the ids rendered.
dropdown_render(u) ==
  /\ drop[u] = {}
  /\ \E rows \in Newest(visible_qs(u)) \ {{}} :
       /\ drop' = [drop EXCEPT ![u] = rows]
       /\ seen' = [seen EXCEPT !.shown = @ \union rows]
  /\ UNCHANGED <<pclock, note, mute, subs, browser, request, pass>>

\* Mutant: everything visible by then is marked.
mark_read_visible(u) ==
  /\ drop[u] # {}
  /\ note' = [n \in Notes |-> IF n \in visible_qs(u) THEN [note[n] EXCEPT !.read = TRUE] ELSE note[n]]
  /\ drop' = [drop EXCEPT ![u] = {}]
  /\ UNCHANGED <<pclock, mute, subs, browser, request, pass, seen>>

mark_read(u) ==
  /\ drop[u] # {}
  /\ note' = [n \in Notes |-> IF n \in drop[u] THEN [note[n] EXCEPT !.read = TRUE] ELSE note[n]]
  /\ drop' = [drop EXCEPT ![u] = {}]
  /\ UNCHANGED <<pclock, mute, subs, browser, request, pass, seen>>

-----------------------------------------------------------------------------
\* The browser: PushManager keeps one subscription for all tabs.  A tab without
\* one subscribes (the button, or silently once permission is granted); a tab
\* that raced another gets the same endpoint.
push_subscribe(t) ==
  /\ request[t] = NoReq
  /\ \E e \in IF browser.live # NoEndpoint THEN {browser.live} ELSE Endpoints \ browser.dropped :
       /\ browser' = [browser EXCEPT !.live = e]
       /\ request' = [request EXCEPT ![t] = [kind |-> "subscribe", ep |-> e, user |-> browser.user]]
  /\ UNCHANGED <<pclock, note, mute, subs, pass, drop, seen>>

\* Turning push off drops the endpoint in the browser, then tells the server;
\* clearing the site's data drops it and tells nobody.
push_unsubscribe(t) ==
  /\ request[t] = NoReq /\ browser.live # NoEndpoint
  /\ browser' = [browser EXCEPT !.live = NoEndpoint, !.dropped = @ \union {browser.live}]
  /\ \/ request' = [request EXCEPT ![t] = [kind |-> "unsubscribe", ep |-> browser.live, user |-> browser.user]]
     \/ request' = request
  /\ UNCHANGED <<pclock, note, mute, subs, pass, drop, seen>>

sign_in(u) ==
  /\ u # browser.user /\ \A t \in BrowserTabs : request[t] = NoReq
  /\ browser' = [browser EXCEPT !.user = u]
  /\ UNCHANGED <<pclock, note, mute, subs, request, pass, drop, seen>>

\* A request that never arrives.
request_lost(t) ==
  /\ request[t] # NoReq
  /\ request' = [request EXCEPT ![t] = NoReq]
  /\ UNCHANGED <<pclock, note, mute, subs, browser, pass, drop, seen>>

RowsFor(e) == {r \in subs : r.ep = e}

\* update_or_create, found: the row is rebound.  With two rows for the endpoint
\* the lookup raises and the request changes nothing.
subscribe_update(t) ==
  LET rows == RowsFor(request[t].ep)
  IN  /\ request[t].kind = "subscribe" /\ rows # {}
      /\ subs' = IF Cardinality(rows) > 1 THEN subs
                 ELSE (subs \ rows) \union {[r EXCEPT !.user = request[t].user] : r \in rows}
      /\ request' = [request EXCEPT ![t] = NoReq]
      /\ UNCHANGED <<pclock, note, mute, browser, pass, drop, seen>>

\* update_or_create, not found: the insert comes after the look.
subscribe_missing(t) ==
  /\ request[t].kind = "subscribe" /\ RowsFor(request[t].ep) = {}
  /\ request' = [request EXCEPT ![t].kind = "create"]
  /\ UNCHANGED <<pclock, note, mute, subs, browser, pass, drop, seen>>

subscribe_create(t) ==
  /\ request[t].kind = "create" /\ seen.rows < MaxRows
  /\ subs' = subs \union {[id |-> seen.rows + 1, ep |-> request[t].ep, user |-> request[t].user]}
  /\ seen' = [seen EXCEPT !.rows = @ + 1]
  /\ request' = [request EXCEPT ![t] = NoReq]
  /\ UNCHANGED <<pclock, note, mute, browser, pass, drop>>

unsubscribe(t) ==
  /\ request[t].kind = "unsubscribe"
  /\ subs' = {r \in subs : ~(r.ep = request[t].ep /\ r.user = request[t].user)}
  /\ request' = [request EXCEPT ![t] = NoReq]
  /\ UNCHANGED <<pclock, note, mute, browser, pass, drop, seen>>

-----------------------------------------------------------------------------
\* The outbox pass.
PushInWindow(n) == note[n].made + PushWindow >= pclock

Stamped(n) == [note EXCEPT ![n].pushed = TRUE]

\* The last row's end is the pass's end.
AfterRow(n) == IF pass.todo = {n} THEN NoPass
               ELSE [pc |-> "row", todo |-> pass.todo \ {n}, left |-> {}]

outbox_list ==
  LET rows == {n \in Made : NoteType[n] \in PUSH_TYPES /\ ~note[n].pushed /\ PushInWindow(n)}
  IN  /\ pass.pc = "idle" /\ rows # {}
      /\ pass' = [NoPass EXCEPT !.pc = "row", !.todo = rows]
      /\ UNCHANGED <<pclock, note, mute, subs, browser, request, drop, seen>>

\* Mutant: a muted row is skipped without its stamp.
outbox_muted_unstamped(n) ==
  /\ pass.pc = "row" /\ n \in pass.todo
  /\ NoteType[n] \in muted_types(NoteUser[n])
  /\ pass' = AfterRow(n)
  /\ UNCHANGED <<pclock, note, mute, subs, browser, request, drop, seen>>

outbox_muted(n) ==
  /\ pass.pc = "row" /\ n \in pass.todo
  /\ NoteType[n] \in muted_types(NoteUser[n])
  /\ note' = Stamped(n)
  /\ pass' = AfterRow(n)
  /\ UNCHANGED <<pclock, mute, subs, browser, request, drop, seen>>

\* Not muted: the recipient's subscriptions are listed.
outbox_row(n) ==
  /\ pass.pc = "row" /\ n \in pass.todo
  /\ NoteType[n] \notin muted_types(NoteUser[n])
  /\ pass' = [pass EXCEPT !.pc = n, !.left = {r \in subs : r.user = NoteUser[n]}]
  /\ UNCHANGED <<pclock, note, mute, subs, browser, request, drop, seen>>

\* The vendor: a live endpoint is delivered or fails for a while, a dropped one is
\* gone (404, 410) or fails for a while.
SendOutcomes(r) == (IF r.ep = browser.live THEN {"ok"} ELSE {"gone"}) \union {"transient"}

\* Mutant: every failed send prunes the subscription.
Prune_failed(outcome) == outcome # "ok"

Prune(outcome) == outcome = "gone"

send_one(n, r) ==
  /\ pass.pc = n /\ r \in pass.left
  /\ \E outcome \in SendOutcomes(r) :
       /\ subs' = IF Prune(outcome) THEN {s \in subs : s.id # r.id} ELSE subs
       /\ seen' = [seen EXCEPT !.sent = @ \union {<<n, r.id>>},
                               !.again = IF <<n, r.id>> \in seen.sent THEN @ \union {n} ELSE @]
  /\ pass' = [pass EXCEPT !.left = @ \ {r}]
  /\ UNCHANGED <<pclock, note, mute, browser, request, drop>>

\* Mutant: a row whose last send did not go through is kept for a later pass.
outbox_stamp_if_delivered(n) ==
  /\ pass.pc = n /\ pass.left = {}
  /\ note' = IF \E r \in subs : r.user = NoteUser[n] /\ r.ep # browser.live THEN note ELSE Stamped(n)
  /\ pass' = AfterRow(n)
  /\ UNCHANGED <<pclock, mute, subs, browser, request, drop, seen>>

outbox_stamp(n) ==
  /\ pass.pc = n /\ pass.left = {}
  /\ note' = Stamped(n)
  /\ pass' = AfterRow(n)
  /\ UNCHANGED <<pclock, mute, subs, browser, request, drop, seen>>

\* The process dies, or a query raises and run_job ends the job: rows not
\* stamped are listed again.
outbox_cut ==
  /\ pass.pc # "idle" /\ seen.cuts < MaxCuts
  /\ seen' = [seen EXCEPT !.cut = @ \union pass.todo, !.cuts = @ + 1]
  /\ pass' = NoPass
  /\ UNCHANGED <<pclock, note, mute, subs, browser, request, drop>>

push_tick ==
  /\ pclock < MaxPushTime
  /\ pclock' = pclock + 1
  /\ UNCHANGED <<note, mute, subs, browser, request, pass, drop, seen>>

OutboxStep ==
  \/ outbox_list
  \/ \E n \in Notes : outbox_muted(n) \/ outbox_row(n) \/ outbox_stamp(n)
                      \/ \E r \in pass.left : send_one(n, r)

BrowserStep ==
  \/ \E t \in BrowserTabs : \/ push_subscribe(t) \/ push_unsubscribe(t) \/ request_lost(t)
                     \/ subscribe_update(t) \/ subscribe_missing(t) \/ subscribe_create(t)
                     \/ unsubscribe(t)
  \/ \E u \in PushUsers : sign_in(u)

Muting == \E m \in Mutable : mute_toggle(m[1], m[2])
KeyEvents == {n \in Notes : NoteType[n] \in PUSH_TYPES}

\* The two sides of a notification meet only in its row, so they are followed one
\* at a time: the browsers and the outbox, or time, mutes, the outbox and the dropdown.
PushNext ==
  \/ OutboxStep \/ outbox_cut \/ BrowserStep
  \/ \E n \in KeyEvents : notify(n)

ReadNext ==
  \/ OutboxStep \/ outbox_cut \/ Muting \/ push_tick
  \/ \E n \in Notes : notify(n)
  \/ \E u \in PushUsers : dropdown_render(u) \/ mark_read(u)

-----------------------------------------------------------------------------
\* A notification goes to one subscription twice only when a pass was cut short
\* between that send and the stamp: a failing vendor alone causes no repeat
\* (pushed_at is "stamped exactly once per row so it is never re-sent").
ResentOnlyAfterCut == seen.again \subseteq seen.cut

\* A subscription row disappears only after its browser has dropped the endpoint:
\* a flaky vendor never costs a live subscription.
LiveSubscriptionKept ==
  [][\A r \in subs : (\A s \in subs' : s.id # r.id) => r.ep # browser.live]_pushVars

\* Nothing is marked read that no dropdown showed, also when rows arrive between
\* rendering and marking: a badge at zero hides nothing the user was never shown,
\* whatever was muted and unmuted in between.
NothingReadUnseen ==
  /\ \A n \in Notes : note[n].read => n \in seen.shown
  /\ \A u \in PushUsers : notifications(u).unread = 0 => visible_qs(u) \subseteq seen.shown

\* Every key event is stamped, or leaves the window unsent.
OutboxDrains ==
  \A n \in KeyEvents : n \in Made ~> note[n].pushed \/ ~PushInWindow(n)
=============================================================================
