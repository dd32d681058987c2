-------------------------- MODULE MCOfflineReplay ---------------------------
(***************************************************************************)
(* TLC instances of OfflineReplay: two classes follow each other in one    *)
(* room, and a second room is on another floor.                            *)
(***************************************************************************)
EXTENDS OfflineReplay, TLC

CONSTANTS k1, k2, m1, m2, c1, c2

MCClassRoom == k1 :> m1 @@ k2 :> m1
MCStart == k1 :> 0 @@ k2 :> 2
MCEnd == k1 :> 1 @@ k2 :> 3
MCFloorOf == m1 :> 1 @@ m2 :> 2
Grant(c, fs, from, to) == [user |-> c, floors |-> fs, from |-> from, to |-> to]
MCLiveScans == {[room |-> m1, action |-> "verified", at |-> 1]}
MCGrants == {Grant(c1, {1}, 0, 2)}
MCScan(m, a, manual) == [room |-> m, action |-> a, note |-> TRUE, manual |-> manual]
MCScans == {MCScan(m1, "verified", TRUE), MCScan(m1, "verified_empty", FALSE)}
=============================================================================
