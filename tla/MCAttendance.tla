---------------------------- MODULE MCAttendance ----------------------------
(***************************************************************************)
(* Instances of Attendance for TLC.  s1 and s2 are two sections one        *)
(* instructor holds together (the merged case), s3 is another instructor's *)
(* class that follows in the same room.                                    *)
(***************************************************************************)
EXTENDS Attendance, TLC

CONSTANTS s1, s2, s3, f1, f2, r1, r2, b1, b2, k1, k2, typhoon, dropped, w1, w2

MCFacultyOf == [s \in Sessions |-> IF s = s3 THEN f2 ELSE f1]
MCCourse    == [s \in Sessions |-> s]
MCStart     == [s \in Sessions |-> IF s = s3 THEN 1 ELSE 0]
MCEnd       == [s \in Sessions |-> IF s = s3 THEN 3 ELSE 2]
MCHomeRoom  == [s \in Sessions |-> r1]
MCBuildingOf == [r \in Rooms |-> IF r = r1 THEN b1 ELSE b2]

\* k1 is campus-wide, k2 covers one building; both quote the same reason.
MCSusBuilding == [k \in Suspensions |-> IF k = k1 THEN None ELSE b1]
MCSusReason   == [k \in Suspensions |-> typhoon]

\* The web workers are interchangeable.
WorkerSymmetry == Permutations(Workers)
=============================================================================
