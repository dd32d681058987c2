------------------------------ MODULE MCRooms -------------------------------
(***************************************************************************)
(* TLC instances of Rooms: two classes whose slots overlap, two rooms.     *)
(***************************************************************************)
EXTENDS Rooms, TLC

CONSTANTS f1, f2

MCClasses == {1, 2}
MCFacultyOf == 1 :> f1 @@ 2 :> f2
MCSameFaculty == 1 :> f1 @@ 2 :> f1
MCRooms == {1, 2}
MCHomeRoom == 1 :> 1 @@ 2 :> 2
MCSlots == {<<0, 1>>, <<1, 2>>, <<2, 3>>}
MCHomeSlot == 1 :> <<0, 1>> @@ 2 :> <<1, 2>>
MCHomeModality == 1 :> "f2f" @@ 2 :> "f2f"
Ask(cs, target, slot, prefer) ==
  [classes |-> cs, target |-> target, slot |-> slot, prefer |-> prefer]
\* Class 1 goes online or moves with class 2 to the last hour, or class 2 does.
MCAsks == {Ask({1}, "online", None, None), Ask({2}, "f2f", <<2, 3>>, 1),
           Ask({1, 2}, "f2f", <<2, 3>>, None)}
MCEdits == {[class |-> 1, room |-> 2, slot |-> <<2, 3>>]}
MCHeld == {<<2, 3>>}
MCWants == {[room |-> 1, date |-> 3, slot |-> <<2, 3>>]}
Symmetry == {f @@ g : f \in Permutations(Procs), g \in Permutations(Tickets)}
=============================================================================
