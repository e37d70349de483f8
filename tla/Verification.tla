---------------------------- MODULE Verification ----------------------------
(***************************************************************************)
(* Proof of a phone or an e-mail before sign-up: one-time codes and links  *)
(* of auth_kit/verification_service.py.  Rows belong to a phone or an      *)
(* e-mail, not to an account, which does not exist yet.  Accounts runs the *)
(* operations; here are the rows and what the operations decide on.        *)
(***************************************************************************)
EXTENDS Naturals, LockoutPolicy

CONSTANTS None,                     \* no phone, no e-mail, no row
          Phones, Emails,
          MaxCodes, MaxLinks,       \* bounds: how many are ever sent
          PHONE_VERIFICATION_TTL,
          EMAIL_VERIFICATION_TTL,
          MAX_CODE_ATTEMPTS         \* wrong guesses that spend a code

ASSUME VerificationAssumption ==
    /\ None \notin Phones \cup Emails
    /\ MaxCodes \in Nat /\ MaxLinks \in Nat
    /\ PHONE_VERIFICATION_TTL \in Nat /\ EMAIL_VERIFICATION_TTL \in Nat
    /\ MAX_CODE_ATTEMPTS \in Nat \ {0}

VARIABLES codes,   \* phone_verification_tokens
          links    \* email_verification_tokens

CodeIds == 1..MaxCodes

LinkIds == 1..MaxLinks

(* guesses is not a column: how many wrong codes were compared with it.    *)
PhoneVerificationToken ==
    [phone : Phones \cup {None}, expires_at : Nat, verified : BOOLEAN,
     attempts : Nat, guesses : Nat]

EmailVerificationToken ==
    [email : Emails \cup {None}, expires_at : Nat, verified : BOOLEAN]

NoCode == [phone |-> None, expires_at |-> Never, verified |-> FALSE,
           attempts |-> 0, guesses |-> 0]

NoLink == [email |-> None, expires_at |-> Never, verified |-> FALSE]

VerificationInit == /\ codes = [c \in CodeIds |-> NoCode]
                    /\ links = [k \in LinkIds |-> NoLink]

VerificationTypeOK == /\ codes \in [CodeIds -> PhoneVerificationToken]
                      /\ links \in [LinkIds -> EmailVerificationToken]

UnusedCodes == {c \in CodeIds : codes[c].phone = None}

UnusedLinks == {k \in LinkIds : links[k].email = None /\ links[k].expires_at = Never}

Least(S) == CHOOSE x \in S : \A y \in S : x <= y

is_phone_verified(p) == \E c \in CodeIds : codes[c].phone = p /\ codes[c].verified

is_email_verified(e) == \E k \in LinkIds : links[k].email = e /\ links[k].verified

Unverified(p) == {c \in CodeIds : codes[c].phone = p /\ ~codes[c].verified}

(* The row a code is compared with: the newest unverified one of the       *)
(* phone, unless it has expired or is spent.                               *)
Guessable(c, p, at) ==
    /\ c \in Unverified(p)
    /\ \A d \in Unverified(p) : d <= c
    /\ codes[c].expires_at >= at
    /\ codes[c].attempts < MAX_CODE_ATTEMPTS

Clickable(k, at) ==
    links[k].email # None /\ ~links[k].verified /\ links[k].expires_at >= at

NewCode(p, at) ==
    codes' = [codes EXCEPT ![Least(UnusedCodes)] =
                 [NoCode EXCEPT !.phone = p, !.expires_at = at + PHONE_VERIFICATION_TTL]]

NewLink(e, at) ==
    links' = [links EXCEPT ![Least(UnusedLinks)] =
                 [NoLink EXCEPT !.email = e, !.expires_at = at + EMAIL_VERIFICATION_TTL]]

(* Slip: a wrong code is reported, not counted. *)
Guessed_slip(c, attempts, right) ==
    codes' = [codes EXCEPT ![c] = [@ EXCEPT !.verified = @ \/ right,
                                            !.guesses = IF right THEN @ ELSE @ + 1]]

(* The count is written as the value read plus one.                        *)
Guessed(c, attempts, right) ==
    codes' = [codes EXCEPT ![c] =
                 IF right THEN [@ EXCEPT !.verified = TRUE]
                          ELSE [@ EXCEPT !.attempts = attempts + 1,
                                         !.guesses = codes[c].guesses + 1]]

Clicked(k) == links' = [links EXCEPT ![k].verified = TRUE]

(* Rows deleted by purge_expired_tokens keep their expires_at here, so     *)
(* that no new row takes their place.                                      *)
LinksPurged(at) ==
    links' = [k \in LinkIds |-> IF links[k].expires_at <= at
                                THEN [links[k] EXCEPT !.email = None, !.verified = FALSE]
                                ELSE links[k]]
=============================================================================
