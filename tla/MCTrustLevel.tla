---------------------------- MODULE MCTrustLevel ----------------------------
(***************************************************************************)
(* Small instances of TrustLevel for TLC.                                  *)
(***************************************************************************)
EXTENDS TrustSerialInvariant, TLC

(* The slots for requests in flight are interchangeable; users are not,    *)
(* since settings are opened in the order of the user ids.                 *)
WorkerSymmetry == Permutations(Workers)
=============================================================================
