----------------------------- MODULE MCAccounts -----------------------------
(***************************************************************************)
(* Small instances of Accounts for TLC.  Each mix is a scenario of its     *)
(* own: their state spaces add up instead of multiplying.                  *)
(***************************************************************************)
EXTENDS Accounts, TLC

CONSTANTS e1, p1, p2, u1, u2   \* e-mails, phones, identities

TheMix(ops, serial, require_phone, require_email) ==
    [ops |-> ops, serial |-> serial,
     require_phone |-> require_phone, require_email |-> require_email]

UidEmails == [u \in Uids |-> IF u = u1 THEN e1 ELSE None]

SmallMixes == {
    (* the sessions of one account, overlapping *)
    TheMix({"signup", "login", "rotate", "logout", "reset", "withdraw", "expire"},
           FALSE, FALSE, FALSE),
    (* the life of accounts, one request at a time *)
    TheMix({"signup", "login", "rotate", "reset", "withdraw", "cancel", "sanction",
            "suspend", "purge", "expire"}, TRUE, FALSE, FALSE),
    (* social and guest accounts and their deletion, overlapping *)
    TheMix({"guest", "complete", "social", "link"}, FALSE, FALSE, FALSE),
    TheMix({"complete", "link", "withdraw", "purge"}, FALSE, FALSE, FALSE),
    TheMix({"signup", "withdraw", "cancel", "sanction", "purge"}, FALSE, FALSE, FALSE),
    TheMix({"guest", "complete", "social", "sanction", "withdraw", "purge", "expire"},
           TRUE, FALSE, FALSE),
    (* proof of the phone and of the e-mail before sign-up *)
    TheMix({"signup", "request_code", "verify_code"}, TRUE, TRUE, FALSE),
    TheMix({"signup", "request_link", "verify_link", "expire"}, TRUE, FALSE, TRUE) }

(* Slots for requests and phones are interchangeable.                      *)
Symmetry == Permutations(Workers) \cup Permutations(Phones)
=============================================================================
