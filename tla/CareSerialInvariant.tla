------------------------ MODULE CareSerialInvariant ------------------------
(***************************************************************************)
(* The inductive invariant of CareSession when requests come one at a      *)
(* time, any of which may stop between two of its transactions: what the   *)
(* row of a session, its hold, its ledger entries and its events say of    *)
(* each other, and that what the request in flight has read is still so.   *)
(***************************************************************************)
EXTENDS CareInvariant

BookedSlots(row) == row.end_slot - row.start_slot

CaredSlots(row) == row.actual \div TicksPerSlot

(* Nothing has been held or paid for the session.                          *)
Untouched(s) == holds[s].status = "NONE" /\ ledger[s] = <<>>

(* A fault is of a session without care, past the deadline or the end.     *)
FaultFits(row) ==
    row.at_fault # None =>
        /\ row.checkin_at = None
        /\ \/ /\ row.status = "CANCELLED"
              /\ row.cancelled_at > _scheduled_start(row) - DeadlineLead
           \/ /\ row.status = "NO_SHOW"
              /\ row.cancelled_at >= ScheduledEnd(row)

HoldFits(row, hold) ==
    /\ hold.status # "NONE" => hold.amount = BookedSlots(row)
    /\ row.status \in {"REQUESTED", "REJECTED"} =>
           row.checkin_at = None /\ hold.status = "NONE"
    /\ hold.status = "SETTLED" => row.checkout_at # None
    /\ hold.status \in {"RELEASED", "FORFEITED"} => ~Active(row)

Completed(s) == [type |-> "SESSION_COMPLETED", session |-> s] \in events

(* The session of a completed check-out is settled.                        *)
Settled(s) ==
    /\ sessions[s].checkout_at # None
    /\ holds[s].status # "HELD"
    /\ sessions[s].actual >= TicksPerSlot => has_settled(s)

(* A suspended user has no open request, and nobody can confirm one made   *)
(* to such a user.                                                         *)
SuspensionFits(row) ==
    /\ Active(row) => row.requester \notin suspended
    /\ row.status = "CONFIRMED" => row.provider \notin suspended

SessionFits(s) ==
    /\ FaultFits(sessions[s])
    /\ HoldFits(sessions[s], holds[s])
    /\ \A i \in DOMAIN ledger[s] : Justified(s, ledger[s][i])
    /\ Completed(s) => Settled(s)
    /\ SuspensionFits(sessions[s])

-----------------------------------------------------------------------------
(* The request in flight.                                                  *)

(* The session a request is about to create, and why it may.               *)
MayCreate(row) ==
    /\ row.requester \notin suspended
    /\ row.at_fault = None
    /\ ~has_overlap(row.requester, row.start_slot, row.end_slot)
    /\ ~has_overlap(row.provider, row.start_slot, row.end_slot)

(* The row the first commit of request r is about to change, and why it    *)
(* may; unresolved are the sessions whose hold it will resolve.            *)
MayChange(r, row, unresolved) ==
    LET s == r.session
    IN  /\ r.op \in {"accept", "accept_new", "reject"} => row.status = "REQUESTED"
        /\ r.op \in {"accept", "accept_new"} => row.provider \notin suspended
        /\ r.op = "accept_new" => Pair(row) \notin related
        /\ r.op \in {"checkin", "checkout", "no_show"} => row.status = "CONFIRMED"
        /\ r.op \in {"checkin", "cancel", "no_show"} => row.checkin_at = None
        /\ r.op = "checkout" => row.checkin_at # None /\ row.checkout_at = None
        /\ r.op = "cancel" =>
              /\ Active(row)
              /\ r.late => r.at > _scheduled_start(row) - DeadlineLead
              /\ unresolved = IF row.status = "CONFIRMED" THEN {s} ELSE {}
        /\ r.op = "no_show" => r.at >= ScheduledEnd(row) /\ unresolved = {s}

MaySuspend(r, unresolved) ==
    /\ r.stopped = {s \in SessionIds : IsParty(r.actor, sessions[s]) /\ Active(sessions[s])}
    /\ unresolved = {s \in r.stopped : sessions[s].status = "CONFIRMED"}

(* What request r has read, and unresolved, is still so when its first     *)
(* transaction commits.                                                    *)
FirstFits(r, unresolved) ==
    /\ r.op \in {"create", "rematch"} => MayCreate(r.row)
    /\ r.op \in SessionOps =>
           r.row = sessions[r.session] /\ MayChange(r, r.row, unresolved)
    /\ r.op = "suspend" => MaySuspend(r, unresolved)

CommitFits(w) == pc[w] = "commit" => FirstFits(req[w], todo[w])

Accepting(r) ==
    /\ r.op \in {"accept", "accept_new"}
    /\ sessions[r.session].status = "CONFIRMED"
    /\ sessions[r.session].checkin_at = None
    /\ sessions[r.session].checkout_at = None
    /\ Untouched(r.session)
    /\ r.row.requester = sessions[r.session].requester
    /\ BookedSlots(r.row) = BookedSlots(sessions[r.session])

(* Request r has ended session t.                                          *)
Ended(r, t) ==
    /\ r.op \in {"cancel", "no_show", "suspend"}
    /\ sessions[t].status = IF r.op = "no_show" THEN "NO_SHOW" ELSE "CANCELLED"

CheckingOut(s) ==
    /\ sessions[s].checkout_at # None
    /\ Active(sessions[s])
    /\ holds[s].status \in {"NONE", "HELD"}
    /\ ledger[s] = <<>>

(* Later transactions find what the ones before have left.                 *)
LaterFits(w) ==
    LET r == req[w]
    IN  /\ pc[w] \in {"log", "hold"} => Accepting(r)
        /\ pc[w] = "settle" => CheckingOut(r.session)
        /\ pc[w] = "complete" => Settled(r.session)
        /\ pc[w] = "resolve" => r.op \in {"cancel", "no_show", "suspend"}
        /\ pc[w] \in {"resolve", "post"} => \A t \in todo[w] : Ended(r, t)

(* The request of worker w decides on posting p of session s, by what the  *)
(* session and its hold are.                                               *)
Decided(w, s, p) ==
    LET r == req[w]
    IN  \/ /\ Accepting(r) /\ s = r.session
           /\ p = create_hold(BookedSlots(sessions[s]))
        \/ /\ r.op = "checkout" /\ s = r.session /\ CheckingOut(s)
           /\ holds[s].status = "HELD"
           /\ p = settle_hold(holds[s], CaredSlots(sessions[s]))
        \/ /\ r.op = "checkout" /\ s = r.session /\ CheckingOut(s)
           /\ holds[s].status = "NONE"
           /\ CaredSlots(sessions[s]) > 0
           /\ p = _transfer(CaredSlots(sessions[s]))
        \/ /\ Ended(r, s) /\ holds[s].status = "HELD"
           /\ p = Resolution(w, s)

(* The posting about to be committed is still the one to decide on, and    *)
(* the balances it was computed from are those of the accounts.            *)
PostFits(w) ==
    pc[w] = "post" =>
        /\ work[w].balance = balance /\ work[w].held = held_balance
        /\ Decided(w, work[w].session, work[w].posting)

(* A session whose hold is HELD is open, or the request in flight is about *)
(* to settle or to resolve it.                                             *)
InHand(w, s) ==
    \/ pc[w] = "settle" /\ req[w].session = s
    \/ pc[w] = "post" /\ work[w].session = s
    \/ pc[w] \in {"resolve", "post"} /\ s \in todo[w]

OpenOrInHand(s) ==
    holds[s].status = "HELD" =>
        \/ sessions[s].status = "CONFIRMED" /\ sessions[s].checkout_at = None
        \/ \E w \in Workers : InHand(w, s)

OneAtATime == \A v, w \in Workers : pc[v] # "idle" /\ pc[w] # "idle" => v = w

CareSerialInv ==
    /\ OneAtATime
    /\ \A w \in Workers : CommitFits(w) /\ LaterFits(w) /\ PostFits(w)
    /\ \A s \in SessionIds : SessionFits(s)
    /\ NoDoubleBooking
    /\ ~Failures => \A s \in SessionIds : OpenOrInHand(s)
=============================================================================
