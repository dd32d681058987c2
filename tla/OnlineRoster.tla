---------------------------- MODULE OnlineRoster ----------------------------
(***************************************************************************)
(* Who verifies the online classes of one date (verification/services.py). *)
(* The facilities office posts checkers to online duty; each posting, and  *)
(* the assign_online command, runs the same pass: list the unowned online  *)
(* classes, read the postings, deal the classes out round-robin, write the *)
(* owners one transaction at a time.  Passes overlap and may be cut short. *)
(***************************************************************************)
EXTENDS Integers, FiniteSets

CONSTANTS
  OnlineClasses,   \* session ids (naturals: the primary key breaks ties)
  SlotOf,          \* scheduled_start of each class
  Shiftable,       \* classes an approved shift may move online or to a room
  OnlineCheckers,  \* user ids (naturals: pools are sorted by id)
  Shifts,          \* windows a posting may have; the whole day is a standing one
  RosterRuns       \* processes that can run a pass: console workers, the command

NoChecker == 0

ASSUME RosterAssumption ==
  /\ OnlineClasses \subseteq Nat /\ OnlineCheckers \subseteq Nat \ {NoChecker}
  /\ IsFiniteSet(OnlineClasses) /\ IsFiniteSet(OnlineCheckers)
  /\ Shiftable \subseteq OnlineClasses
  /\ SlotOf \in [OnlineClasses -> Nat]
  /\ Shifts \subseteq [from : Nat, to : Nat]

Postings == [user : OnlineCheckers, shift : Shifts]

VARIABLES
  posting,   \* active ONLINE-scope assignments in play for the date
  online,    \* classes whose effective modality is online now
  owner,     \* Session.online_checker
  roster     \* what each running pass has read

rosterVars == <<posting, online, owner, roster>>

RosterIdle == [pc |-> "idle", todo |-> {},
               deal |-> [c \in OnlineClasses |-> NoChecker], alone |-> TRUE]

RosterInit ==
  /\ posting = {}
  /\ online = OnlineClasses
  /\ owner = [c \in OnlineClasses |-> NoChecker]
  /\ roster = [w \in RosterRuns |-> RosterIdle]

-----------------------------------------------------------------------------
covers_start(a, c) == a.shift.from <= SlotOf[c] /\ SlotOf[c] <= a.shift.to

EarlierClass(c, d) == SlotOf[c] < SlotOf[d] \/ (SlotOf[c] = SlotOf[d] /\ c < d)

\* Mutant: classes that have an owner are listed too.
candidate_online_sessions_all == online

\* The list, whose order is EarlierClass.
candidate_online_sessions == {c \in online : owner[c] = NoChecker}

\* Mutant: every posting of the date is eligible, whatever its window.
eligible_any(posts, c) == {a.user : a \in posts}

eligible(posts, c) == {a.user : a \in {p \in posts : covers_start(p, c)}}

\* The checker dealt to c: round robin, by user id, among the classes with the same pool.
distribute_online_sessions(list, posts, c) ==
  LET pool   == eligible(posts, c)
      before == {d \in list : eligible(posts, d) = pool /\ EarlierClass(d, c)}
  IN  CHOOSE u \in pool :
        Cardinality({v \in pool : v < u}) = Cardinality(before) % Cardinality(pool)

deal_out(list, posts) ==
  [c \in OnlineClasses |->
     IF c \in list /\ eligible(posts, c) # {}
     THEN distribute_online_sessions(list, posts, c) ELSE NoChecker]

-----------------------------------------------------------------------------
\* A pass begins: from the console after an online posting, or from the command.
assignment_create_online(w, a) ==
  /\ roster[w].pc = "idle" /\ a \notin posting
  /\ posting' = posting \union {a}
  /\ roster' = [roster EXCEPT ![w].pc = "list"]
  /\ UNCHANGED <<online, owner>>

assign_online(w) ==
  /\ roster[w].pc = "idle"
  /\ roster' = [roster EXCEPT ![w].pc = "list"]
  /\ UNCHANGED <<posting, online, owner>>

\* The unowned classes are listed; with none, the pass is over.  `alone` records
\* that no other pass had a list at hand at any time since.
roster_list(w) ==
  LET list  == candidate_online_sessions
      other == {v \in RosterRuns \ {w} : roster[v].pc \in {"pool", "write"}}
  IN  /\ roster[w].pc = "list"
      /\ roster' = IF list = {} THEN [roster EXCEPT ![w] = RosterIdle]
                   ELSE [v \in RosterRuns |->
                           IF v = w THEN [roster[w] EXCEPT !.pc = "pool", !.todo = list,
                                                           !.alone = (other = {})]
                           ELSE [roster[v] EXCEPT !.alone = @ /\ v \notin other]]
      /\ UNCHANGED <<posting, online, owner>>

\* The postings are read and the classes dealt out; nothing covered ends the
\* pass with a notice to the office.
roster_pool(w) ==
  LET deal == deal_out(roster[w].todo, posting)
      some == \E c \in OnlineClasses : deal[c] # NoChecker
  IN  /\ roster[w].pc = "pool"
      /\ roster' = [roster EXCEPT ![w] = IF some THEN [@ EXCEPT !.pc = "write", !.deal = deal]
                                         ELSE RosterIdle]
      /\ UNCHANGED <<posting, online, owner>>

\* One transaction per class: the owner is saved by key, whatever it is by now.
roster_write(w) ==
  LET c == CHOOSE d \in roster[w].todo : \A e \in roster[w].todo \ {d} : EarlierClass(d, e)
      rest == roster[w].todo \ {c}
  IN  /\ roster[w].pc = "write"
      /\ owner' = IF roster[w].deal[c] = NoChecker THEN owner
                  ELSE [owner EXCEPT ![c] = roster[w].deal[c]]
      /\ roster' = [roster EXCEPT ![w] = IF rest = {} THEN RosterIdle
                                         ELSE [@ EXCEPT !.todo = rest]]
      /\ UNCHANGED <<posting, online>>

\* A worker dies, or a save raises: what was written stands.
roster_crash(w) ==
  /\ roster[w].pc # "idle"
  /\ roster' = [roster EXCEPT ![w] = RosterIdle]
  /\ UNCHANGED <<posting, online, owner>>

\* An approved shift moves a class online or back to a room; the owner stays.
modality_flip(c) ==
  /\ online' = IF c \in online THEN online \ {c} ELSE online \union {c}
  /\ UNCHANGED <<posting, owner, roster>>

RosterNext ==
  \/ \E w \in RosterRuns :
       \/ \E a \in Postings : assignment_create_online(w, a)
       \/ assign_online(w) \/ roster_list(w) \/ roster_pool(w)
       \/ roster_write(w) \/ roster_crash(w)
  \/ \E c \in Shiftable : modality_flip(c)

-----------------------------------------------------------------------------
\* A checker's page of the classes to verify today.
online_list(u) == {c \in online : owner[c] = u}

\* What _online_session and _is_online_on_duty let a checker act on at time t.
online_actionable(u, c, t) ==
  /\ c \in online /\ owner[c] = u
  /\ \E a \in posting : a.user = u /\ a.shift.from <= t /\ t <= a.shift.to

\* A class is only ever on the page of a checker who is on duty when it begins, and
\* so is let through by the online gate at that moment (assign_online_sessions: "a
\* Checker is never handed a session they could never verify"); and an owned class
\* is on some checker's page.
OwnerCovers ==
  /\ \A u \in OnlineCheckers : \A c \in online_list(u) : online_actionable(u, c, SlotOf[c])
  /\ \A c \in online : owner[c] # NoChecker => \E u \in OnlineCheckers : c \in online_list(u)

\* A pass that overlapped no other leaves every owned class with its owner:
\* re-runs of assign_online_sessions do not reshuffle.
NoReshuffle ==
  [][\A w \in RosterRuns, c \in OnlineClasses :
       roster[w].pc = "write" /\ roster[w].alone /\ roster'[w] # roster[w] /\ owner[c] # NoChecker
         => owner'[c] = owner[c]]_rosterVars
=============================================================================
