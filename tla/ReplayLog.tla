----------------------------- MODULE ReplayLog ------------------------------
(***************************************************************************)
(* What the checker's offline queue promises about each scan recorded      *)
(* without a connection: the server takes it exactly once, as an applied   *)
(* validation or as a conflict for the office, and the device lets go of   *)
(* it only after that.                                                     *)
(***************************************************************************)
CONSTANT Scans

VARIABLES
  taken,  \* [Scans -> {"no", "applied", "flagged"}], what the server has made of it
  held    \* the scans the device still keeps

logVars == <<taken, held>>

LogInit == taken = [s \in Scans |-> "no"] /\ held = {}

Record(s) ==
  /\ s \notin held /\ taken[s] = "no"
  /\ held' = held \cup {s} /\ UNCHANGED taken

Take(s) ==
  /\ s \in held /\ taken[s] = "no"
  /\ \E outcome \in {"applied", "flagged"} : taken' = [taken EXCEPT ![s] = outcome]
  /\ UNCHANGED held

\* One answer may settle several scans.
Forget ==
  /\ \E done \in SUBSET held : /\ \A s \in done : taken[s] # "no"
                               /\ held' = held \ done
  /\ UNCHANGED taken

LogNext == Forget \/ \E s \in Scans : Record(s) \/ Take(s)

LogSpec == LogInit /\ [][LogNext]_logVars
=============================================================================
