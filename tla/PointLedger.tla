---------------------------- MODULE PointLedger ----------------------------
(***************************************************************************)
(* The point ledger (PNT): accounts, holds and the double-entry ledger of  *)
(* app/services/point_ledger_service.py.                                   *)
(*                                                                         *)
(* A service method reads rows of one database snapshot and later commits  *)
(* absolute column values (balance = <value read> + <delta>); nothing      *)
(* locks or versions a row.  A method is therefore two things here: the    *)
(* Posting it decides on when it reads (which hold status to write, and a  *)
(* delta for each account column) and the commit of that posting, Post,    *)
(* which adds the deltas to the values READ, not to the current ones.      *)
(***************************************************************************)
EXTENDS Integers, Sequences

CONSTANTS Users,                   \* the accounts of the exchange
          MaxSessions,             \* bound: how many care sessions are ever created
          SEED_POINTS,             \* points of a new account
          NEGATIVE_BALANCE_LIMIT   \* a balance at or below it blocks requests

ASSUME LedgerAssumption ==
    /\ MaxSessions \in Nat
    /\ SEED_POINTS \in Nat
    /\ NEGATIVE_BALANCE_LIMIT \in Int

VARIABLES balance,        \* point_accounts.balance
          held_balance,   \* point_accounts.held_balance
          holds,          \* point_holds, at most one row per care session
          ledger          \* point_transactions of a session, with their two entries

ledgerVars == <<balance, held_balance, holds, ledger>>

SessionIds == 1..MaxSessions

PointHoldStatus == {"HELD", "SETTLED", "RELEASED", "FORFEITED"}

Reasons == {"SETTLEMENT", "CANCEL_PENALTY", "NO_SHOW_PENALTY"}

(* A row of point_holds; the status NONE says that there is no row.  Payer *)
(* and payee are the requester and the provider of the session.            *)
PointHold == [status : PointHoldStatus \cup {"NONE"}, amount : Nat]

NoHold == [status |-> "NONE", amount |-> 0]

(* A transaction moves amount from the payer to the payee: its two entries *)
(* are -amount and +amount.                                                *)
PointTransaction == [reason : Reasons, amount : Nat]

Posting == [hold   : PointHoldStatus \cup {"KEEP"},  \* status to write
            amount : Nat,          \* amount of a new hold
            payer  : Int,          \* delta of the payer's balance
            held   : Int,          \* delta of the payer's held_balance
            payee  : Nat,          \* delta of the payee's balance
            reason : Reasons \cup {"NONE"}]

NoPosting == [hold |-> "KEEP", amount |-> 0, payer |-> 0, held |-> 0,
              payee |-> 0, reason |-> "NONE"]

-----------------------------------------------------------------------------
(* What the service methods decide on.                                     *)

ensure_can_request(u) == balance[u] > NEGATIVE_BALANCE_LIMIT

create_hold(slots) ==
    [hold |-> "HELD", amount |-> slots, payer |-> -slots, held |-> slots,
     payee |-> 0, reason |-> "NONE"]

(* Slip: the points go back, but held_balance keeps them. *)
_release_hold_slip(hold) ==
    [hold |-> "RELEASED", amount |-> 0, payer |-> hold.amount, held |-> 0,
     payee |-> 0, reason |-> "NONE"]

_release_hold(hold) ==
    [hold |-> "RELEASED", amount |-> 0, payer |-> hold.amount, held |-> -hold.amount,
     payee |-> 0, reason |-> "NONE"]

_forfeit_hold(hold, why) ==
    [hold |-> "FORFEITED", amount |-> 0, payer |-> 0, held |-> -hold.amount,
     payee |-> hold.amount, reason |-> why]

(* Slips: whose fault it is does not matter; the deadline does not either; *)
(* a cancellation in time leaves the hold alone.                           *)
cancel_slip_fault(hold, pastDeadline, payerAtFault) ==
    IF pastDeadline THEN _forfeit_hold(hold, "CANCEL_PENALTY") ELSE _release_hold(hold)

cancel_slip_deadline(hold, pastDeadline, payerAtFault) ==
    _forfeit_hold(hold, "CANCEL_PENALTY")

cancel_slip_in_time(hold, pastDeadline, payerAtFault) ==
    IF pastDeadline /\ payerAtFault THEN _forfeit_hold(hold, "CANCEL_PENALTY")
    ELSE IF pastDeadline THEN _release_hold(hold) ELSE NoPosting

resolve_hold_on_cancel(hold, pastDeadline, payerAtFault) ==
    IF pastDeadline /\ payerAtFault THEN _forfeit_hold(hold, "CANCEL_PENALTY")
                                    ELSE _release_hold(hold)

resolve_hold_on_no_show(hold, payerAtFault) ==
    IF payerAtFault THEN _forfeit_hold(hold, "NO_SHOW_PENALTY")
                    ELSE _release_hold(hold)

_transfer(slots) ==
    [hold |-> "KEEP", amount |-> 0, payer |-> -slots, held |-> 0,
     payee |-> slots, reason |-> "SETTLEMENT"]

(* Slips: the unused part of the hold is not given back; too little care   *)
(* to pay for leaves the hold alone.                                       *)
settle_hold_slip_unused(hold, rawSlots) ==
    LET slots == IF rawSlots < hold.amount THEN rawSlots ELSE hold.amount
    IN  [hold |-> "SETTLED", amount |-> 0, payer |-> 0, held |-> -hold.amount,
         payee |-> slots, reason |-> IF slots > 0 THEN "SETTLEMENT" ELSE "NONE"]

settle_hold_slip_short(hold, rawSlots) ==
    LET slots == IF rawSlots < hold.amount THEN rawSlots ELSE hold.amount
    IN  IF slots = 0 THEN NoPosting
        ELSE [hold |-> "SETTLED", amount |-> 0,
              payer |-> hold.amount - slots, held |-> -hold.amount,
              payee |-> slots, reason |-> "SETTLEMENT"]

(* The branch of settle_care_session for a session whose hold is HELD: the *)
(* time cared for is paid up to the hold, the rest goes back to the payer. *)
settle_hold(hold, rawSlots) ==
    LET slots == IF rawSlots < hold.amount THEN rawSlots ELSE hold.amount
    IN  [hold |-> "SETTLED", amount |-> 0,
         payer |-> hold.amount - slots, held |-> -hold.amount,
         payee |-> slots, reason |-> IF slots > 0 THEN "SETTLEMENT" ELSE "NONE"]

has_settled(s) == ledger[s] # <<>>

-----------------------------------------------------------------------------
(* Only the columns a unit of work changed are written.                    *)
Written(read, delta, current) == IF delta = 0 THEN current ELSE read + delta

(* Slip: the unique constraint is missing. *)
HoldConflict_slip(s, p) == FALSE

(* point_holds.care_session_id is unique.                                  *)
HoldConflict(s, p) == p.hold = "HELD" /\ holds[s].status # "NONE"

(* The commit of posting p of session s, whose method read the balances    *)
(* readBalance and readHeld.                                               *)
Post(s, p, payer, payee, readBalance, readHeld) ==
    /\ ~HoldConflict(s, p)
    /\ LET debited == [balance EXCEPT ![payer] = Written(readBalance[payer], p.payer, @)]
       IN  balance' = [debited EXCEPT ![payee] = Written(readBalance[payee], p.payee, @)]
    /\ held_balance' = [held_balance EXCEPT
           ![payer] = Written(readHeld[payer], p.held, @)]
    /\ holds' = [holds EXCEPT ![s] =
           CASE p.hold = "KEEP" -> @
             [] p.hold = "HELD" -> [status |-> "HELD", amount |-> p.amount]
             [] OTHER           -> [@ EXCEPT !.status = p.hold]]
    /\ ledger' = [ledger EXCEPT ![s] =
           IF p.reason = "NONE" THEN @
           ELSE Append(@, [reason |-> p.reason, amount |-> p.payee])]

(* Every account has been opened (get_or_create inserts it, seeded, on     *)
(* first use, in a transaction of its own) and nothing has been posted.    *)
LedgerInit ==
    /\ balance = [u \in Users |-> SEED_POINTS]
    /\ held_balance = [u \in Users |-> 0]
    /\ holds = [s \in SessionIds |-> NoHold]
    /\ ledger = [s \in SessionIds |-> <<>>]

LedgerTypeOK ==
    /\ balance \in [Users -> Int]
    /\ held_balance \in [Users -> Int]
    /\ holds \in [SessionIds -> PointHold]
    /\ ledger \in [SessionIds -> Seq(PointTransaction)]
=============================================================================
