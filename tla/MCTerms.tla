------------------------------ MODULE MCTerms ------------------------------
(***************************************************************************)
(* Instances of Terms for TLC: spring is on file, summer and bridge are    *)
(* two proposals whose dates overlap each other and not spring.            *)
(***************************************************************************)
EXTENDS Terms, TLC

CONSTANTS spring, summer, bridge, algebra, biology, w1, w2

MCFirst == [t \in Terms |-> IF t = spring THEN 0 ELSE IF t = summer THEN 2 ELSE 3]
MCLast  == [t \in Terms |-> IF t = spring THEN 1 ELSE 3]

MCTermOf  == [s \in Schedules |-> spring]
MCMeetsOn == [s \in Schedules |-> IF s = algebra THEN {0, 1, 2} ELSE {1}]

\* The web workers are interchangeable.
WorkerSymmetry == Permutations(Workers)
=============================================================================
