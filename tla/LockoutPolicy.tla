--------------------------- MODULE LockoutPolicy ---------------------------
(***************************************************************************)
(* The lockout rule of security_kit/guards.py: enough consecutive failures *)
(* lock an account for a while.  The policy keeps no state; its callers    *)
(* store what it returns.  Times are natural numbers, Never stands for the *)
(* None of an unset time.                                                  *)
(***************************************************************************)
EXTENDS Naturals

CONSTANTS MAX_LOGIN_ATTEMPTS,   \* max_attempts of the policy
          LOCKOUT_DURATION      \* duration of the policy

ASSUME LockoutAssumption ==
    /\ MAX_LOGIN_ATTEMPTS \in Nat \ {0}
    /\ LOCKOUT_DURATION \in Nat \ {0}

Never == 0

LockoutState == [failed_attempts : Nat, locked_until : Nat]

is_locked(locked_until, at) == locked_until # Never /\ locked_until > at

(* Slip: one failure too many: a lock that ran out is not taken off. *)
on_failure_slip_stay(failed_attempts, locked_until, at) ==
    LET expired  == locked_until # Never /\ ~is_locked(locked_until, at)
        attempts == (IF expired THEN 0 ELSE failed_attempts) + 1
    IN  [failed_attempts |-> attempts,
         locked_until |-> IF attempts >= MAX_LOGIN_ATTEMPTS
                          THEN at + LOCKOUT_DURATION ELSE locked_until]

(* A lock that ran out gives a new chance: the count starts over.          *)
on_failure(failed_attempts, locked_until, at) ==
    LET expired  == locked_until # Never /\ ~is_locked(locked_until, at)
        attempts == (IF expired THEN 0 ELSE failed_attempts) + 1
    IN  [failed_attempts |-> attempts,
         locked_until |-> IF attempts >= MAX_LOGIN_ATTEMPTS
                          THEN at + LOCKOUT_DURATION ELSE Never]

on_success == [failed_attempts |-> 0, locked_until |-> Never]
=============================================================================
