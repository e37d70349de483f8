--------------------------- MODULE MCCareSession ---------------------------
(***************************************************************************)
(* Small instances of CareSession for TLC.                                 *)
(***************************************************************************)
EXTENDS CareBooks, TLC

(* Users are interchangeable, and so are the slots for requests in flight. *)
UserSymmetry == Permutations(Users)

Symmetry == Permutations(Users) \cup Permutations(Workers)

(* Every combination of users who are free all day and users who work all  *)
(* day.                                                                    *)
MCSchedules == {[u \in Users |-> IF u \in free THEN 0..(NumSlots - 1) ELSE {}] :
                   free \in SUBSET Users}

MCLimit == -1

(* Everybody may know each other from earlier sessions, or nobody does.    *)
MCAcquainted == {Users}

MCStrangers == {}
=============================================================================
