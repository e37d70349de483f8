--------------------------- MODULE TokenRegister ---------------------------
(***************************************************************************)
(* What the register of refresh tokens promises, whatever the requests     *)
(* that overlap: a token is issued once, to one account; once revoked or   *)
(* deleted it is never live again; a step issues at most one token, and a  *)
(* rotation hands the session to the account that had it.                  *)
(***************************************************************************)
EXTENDS Naturals

CONSTANTS Jtis,     \* the identities of refresh tokens
          Owners,   \* the accounts
          Nobody    \* the owner of a token that was not issued

VARIABLES status,   \* per token
          owner     \* per token: the account it was issued to

TokenStatus == {"none", "live", "revoked", "deleted"}

Init == /\ status = [j \in Jtis |-> "none"]
        /\ owner = [j \in Jtis |-> Nobody]

Stored(j) == status[j] \in {"live", "revoked"}

Issue(j, u) ==
    /\ status[j] = "none"
    /\ status' = [status EXCEPT ![j] = "live"]
    /\ owner' = [owner EXCEPT ![j] = u]

(* The token k takes the place of j.                                       *)
Rotate(j, k) ==
    /\ Stored(j)
    /\ status[k] = "none"
    /\ status' = [status EXCEPT ![j] = "revoked", ![k] = "live"]
    /\ owner' = [owner EXCEPT ![k] = owner[j]]

Revoke(S) ==
    /\ \A j \in S : Stored(j)
    /\ status' = [j \in Jtis |-> IF j \in S THEN "revoked" ELSE status[j]]
    /\ UNCHANGED owner

(* The rows are deleted, with their account or because they expired.       *)
Forget(S) ==
    /\ \A j \in S : Stored(j)
    /\ status' = [j \in Jtis |-> IF j \in S THEN "deleted" ELSE status[j]]
    /\ UNCHANGED owner

Next == \/ \E j \in Jtis, u \in Owners : Issue(j, u)
        \/ \E j, k \in Jtis : Rotate(j, k)
        \/ \E S \in SUBSET Jtis : Revoke(S) \/ Forget(S)

Spec == Init /\ [][Next]_<<status, owner>>
=============================================================================
